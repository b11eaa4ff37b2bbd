--------------------- MODULE MCSponsorshipReservations ----------------------
(***************************************************************************)
(* The reservations for TLC.  All ids carry the same message, as when two  *)
(* actors sponsor one transaction.                                         *)
(***************************************************************************)
EXTENDS SponsorshipReservations, TLC

CONSTANTS
  m1,     \* the message
  First,  \* an id
  Kinds1, \* its operations
  Kinds2  \* those of the others

SameMessage == [i \in Ids |-> m1]
Kinds == [i \in Ids |-> IF i = First THEN Kinds1 ELSE Kinds2]

Perms == Permutations(Callers) \cup Permutations(Jobs)
=============================================================================
