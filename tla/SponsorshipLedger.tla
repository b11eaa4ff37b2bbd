------------------------- MODULE SponsorshipLedger --------------------------
(***************************************************************************)
(* What the reservations promise: every sponsored transaction that leaves  *)
(* the service is paid for by a reservation that is not given back.        *)
(***************************************************************************)
EXTENDS Naturals

CONSTANTS Ids, Messages, MessageOf

VARIABLES phase, attempt, exposed

ledger == <<phase, attempt, exposed>>

Charging == {"held", "charged"}

PaidFor(ph, m) == \E i \in Ids : MessageOf[i] = m /\ ph[i] \in Charging

LedgerInit ==
  /\ phase = [i \in Ids |-> "none"]
  /\ attempt = [i \in Ids |-> 0]
  /\ exposed = {}

(* A new attempt starts only where nothing is outstanding.                 *)
Hold(i) ==
  /\ phase[i] \in {"none", "refunded"}
  /\ phase' = [phase EXCEPT ![i] = "held"]
  /\ attempt' = [attempt EXCEPT ![i] = @ + 1]
  /\ UNCHANGED exposed

(* The charge is final.                                                    *)
Charge(i) ==
  /\ phase[i] = "held"
  /\ phase' = [phase EXCEPT ![i] = "charged"]
  /\ UNCHANGED <<attempt, exposed>>

(* Nothing that left the service loses its payment.                        *)
GiveBack(i) ==
  /\ phase[i] = "held"
  /\ phase' = [phase EXCEPT ![i] = "refunded"]
  /\ \A m \in exposed : PaidFor(phase', m)
  /\ UNCHANGED <<attempt, exposed>>

Expose(m) ==
  /\ PaidFor(phase, m)
  /\ exposed' = exposed \cup {m}
  /\ UNCHANGED <<phase, attempt>>

LedgerNext ==
  \/ \E i \in Ids : Hold(i) \/ Charge(i) \/ GiveBack(i)
  \/ \E m \in Messages : Expose(m)

LedgerSpec == LedgerInit /\ [][LedgerNext]_ledger
=============================================================================
