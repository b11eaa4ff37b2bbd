------------------------ MODULE MCApprovedOperations ------------------------
(***************************************************************************)
(* Approved operations for TLC: every operation has the same key (a client *)
(* that retries), or none.                                                 *)
(***************************************************************************)
EXTENDS ApprovedOperations, TLC

CONSTANT TheKey  \* a key, or NoKey

SharedKey == [o \in Ops |-> TheKey]
Perms == Permutations(Attempts) \cup Permutations(Ops)
=============================================================================
