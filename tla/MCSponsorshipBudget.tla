------------------------ MODULE MCSponsorshipBudget -------------------------
(***************************************************************************)
(* The budget counters for TLC: two organizations of one network.          *)
(***************************************************************************)
EXTENDS SponsorshipBudget, TLC

CONSTANTS i1, i2, global, orgA, orgB

(* Each organization has one reservation; the network's own counter is the *)
(* one they share.                                                         *)
TwoOrganizations == [i \in Ids |-> {global, IF i = i1 THEN orgA ELSE orgB}]
Amounts == [i \in Ids |-> IF i = i1 THEN 2 ELSE 1]

(* Either reservation fits alone, not both.                                *)
Limits == [f \in Fields |-> 2]

Perms == Permutations(Callers)
=============================================================================
