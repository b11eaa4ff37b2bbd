------------------------ MODULE WalletOperationGate -------------------------
(***************************************************************************)
(* What policy enforcement and approval promise of a wallet operation: it  *)
(* is cleared or refused once, it acts on the world only after it was      *)
(* cleared, and operations that share a key act once between them.         *)
(***************************************************************************)
CONSTANTS
  Ops, Keys, NoKey,
  Key   \* the key of an operation, or NoKey

VARIABLES
  verdict,  \* undecided, cleared or refused
  sent      \* operations that acted

vars == <<verdict, sent>>

Init == verdict = [o \in Ops |-> "undecided"] /\ sent = {}

Resolve(o, v) ==
  /\ verdict[o] = "undecided" /\ v \in {"cleared", "refused"}
  /\ verdict' = [verdict EXCEPT ![o] = v]
  /\ UNCHANGED sent

Act(o) ==
  /\ verdict[o] = "cleared" /\ o \notin sent
  /\ Key[o] # NoKey => \A p \in sent : Key[p] # Key[o]
  /\ sent' = sent \cup {o}
  /\ UNCHANGED verdict

Next == \E o \in Ops : Act(o) \/ \E v \in {"cleared", "refused"} : Resolve(o, v)

Spec == Init /\ [][Next]_vars
=============================================================================
