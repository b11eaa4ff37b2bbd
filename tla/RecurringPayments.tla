------------------------- MODULE RecurringPayments -------------------------
(***************************************************************************)
(* One active recurring payment: the collection of its due periods, by the *)
(* cron job and by manual requests; the recovery of collections that were  *)
(* interrupted; and the cancel and resume operations.  All of them are     *)
(* requests that may run at the same time and stop at any step.            *)
(*                                                                         *)
(* A collection attempt has at most one transfer, and a transfer at most   *)
(* one signature, so an attempt stands for all three.  A statement or a    *)
(* transaction of the database is one step.  The tracking job that also    *)
(* settles transfers is a step here; PaymentTransfers has its detail.      *)
(* Activation and updates, which replace the subscription, are left out.   *)
(***************************************************************************)
EXTENDS Naturals, FiniteSets

CONSTANTS
  Requests,   \* requests and cron passes in progress at the same time
  Attempts,   \* payment_subscription_collection_attempts rows
  NoAttempt,
  Periods,    \* bound: due dates that are followed
  MaxRows,    \* bound: lifecycle attempt rows of an operation
  Scenarios   \* bounds on what happens together, one of them in a behaviour

(* requests: those that are made; attempts: the collection attempts made;  *)
(* stalls: a live request may stand still past the staleness thresholds;   *)
(* forks: a transaction that failed may vanish with its fork.              *)
ASSUME RecurringAssumption ==
  /\ NoAttempt \notin Attempts /\ Periods \in Nat \ {0} /\ MaxRows \in Nat
  /\ Scenarios \subseteq [requests : SUBSET Requests, operations : SUBSET {"cancel", "resume"},
                          attempts : Nat, stalls : BOOLEAN, forks : BOOLEAN]

VARIABLES
  status,     \* payment_recurring_payments.status
  due,        \* its next_collection_due_at, as the number of the period
  old,        \* its updated_at is more than fifteen minutes old
  subStatus,  \* payment_subscriptions.status
  subDue,     \* its next_collection_due_at
  now,        \* the last period whose due date has passed
  attempt,    \* status of a collection attempt
  adue,       \* the period it collects
  asig,       \* its signature is set
  age,        \* 1: untouched for five minutes, 2: for fifteen
  transfer,   \* status of its transfer, "none" until they are linked
  signed,     \* the transfer's signature and signed_transaction are set
  started,    \* the transfer's submission_started_at is set
  sent,       \* a node has the transaction
  landed,     \* what became of it on chain
  expired,    \* it can no longer land
  forked,     \* history: its error was seen on a fork that is gone
  onchain,    \* the subscription on chain is active or canceled
  loose,      \* lifecycle operations with a transaction that failed on some fork
  life,       \* latest lifecycle attempt row of an operation
  work,       \* what a request has read and where it stands
  orphaned,   \* history: a resume is on chain that its row does not know of
  scenario    \* fixed

payment == <<status, due, old, subStatus, subDue>>
attempts == <<attempt, adue, asig, age, transfer, signed, started>>
chain == <<sent, landed, expired, forked, onchain, loose>>
world == <<chain, now, scenario>>
lifecycle == <<life, orphaned>>
vars == <<payment, attempts, world, lifecycle, work>>

Kinds == {"collect", "cancel", "resume"}
CollectSteps == {"policy", "link", "destination", "sign", "start", "send", "record", "confirm",
                 "journal", "finalize", "fail"}
RecoverySteps == {"recover", "transfer", "prove"}
LifecycleSteps == {"claim", "row", "submit", "recordSignature", "confirmSignature",
                   "finish", "failRow", "unclaim"}
Outcomes == {"none", "ok", "err", "lost"}
Idle == [pc |-> "idle", kind |-> "collect", due |-> 0, active |-> FALSE, a |-> NoAttempt,
         linked |-> FALSE, stale |-> FALSE, asig |-> FALSE, transfer |-> "none", own |-> FALSE,
         again |-> FALSE, row |-> 0, sig |-> "none"]

TypeOK ==
  /\ status \in {"active", "canceling", "canceled", "resuming"} /\ old \in BOOLEAN
  /\ due \in 1..(Periods + 1) /\ subDue \in 1..(Periods + 1) /\ now \in 0..Periods
  /\ subStatus \in {"active", "canceled"} /\ onchain \in {"active", "canceled"}
  /\ attempt \in [Attempts -> {"none", "processing", "confirmed", "failed"}]
  /\ adue \in [Attempts -> 0..Periods] /\ asig \in [Attempts -> BOOLEAN]
  /\ age \in [Attempts -> 0..2]
  /\ transfer \in [Attempts -> {"none", "processing", "confirmed", "finalized", "failed"}]
  /\ signed \in [Attempts -> BOOLEAN] /\ started \in [Attempts -> BOOLEAN]
  /\ sent \in [Attempts -> BOOLEAN] /\ expired \in [Attempts -> BOOLEAN]
  /\ landed \in [Attempts -> {"no", "ok", "err"}] /\ forked \in [Attempts -> BOOLEAN]
  /\ loose \subseteq {"cancel", "resume"}
  /\ life \in [{"cancel", "resume"} -> [n : 0..MaxRows, processing : BOOLEAN, sig : Outcomes]]
  /\ work \in [Requests ->
       [pc : {"idle", "create"} \cup CollectSteps \cup RecoverySteps \cup LifecycleSteps,
        kind : Kinds, due : 0..(Periods + 1), active : BOOLEAN, a : Attempts \cup {NoAttempt},
        linked : BOOLEAN, stale : BOOLEAN, asig : BOOLEAN, own : BOOLEAN, again : BOOLEAN,
        transfer : {"none", "processing", "confirmed", "finalized", "failed"},
        row : 0..MaxRows, sig : Outcomes]]
  /\ orphaned \in BOOLEAN /\ scenario \in Scenarios

Init ==
  /\ status = "active" /\ due = 1 /\ old = FALSE /\ subStatus = "active" /\ subDue = 1
  /\ now = 0 /\ onchain = "active"
  /\ attempt = [a \in Attempts |-> "none"] /\ adue = [a \in Attempts |-> 0]
  /\ asig = [a \in Attempts |-> FALSE] /\ age = [a \in Attempts |-> 0]
  /\ transfer = [a \in Attempts |-> "none"] /\ signed = [a \in Attempts |-> FALSE]
  /\ started = [a \in Attempts |-> FALSE] /\ sent = [a \in Attempts |-> FALSE]
  /\ landed = [a \in Attempts |-> "no"] /\ expired = [a \in Attempts |-> FALSE]
  /\ forked = [a \in Attempts |-> FALSE] /\ loose = {}
  /\ life = [op \in {"cancel", "resume"} |-> [n |-> 0, processing |-> FALSE, sig |-> "none"]]
  /\ work = [w \in Requests |-> Idle] /\ orphaned = FALSE /\ scenario \in Scenarios

-----------------------------------------------------------------------------
At(w, pc) == work[w].pc = pc
Becomes(w, record) == work' = [work EXCEPT ![w] = record]
Goto(w, pc) == Becomes(w, [work[w] EXCEPT !.pc = pc])
Leaves(w) == Becomes(w, Idle)

(* The unique index: one attempt of a period that is not failed. *)
ActiveAttempts(d) == {a \in Attempts : adue[a] = d /\ attempt[a] \in {"processing", "confirmed"}}

(* Bound on the attempts of a behaviour. *)
MoreAttempts == Cardinality({a \in Attempts : attempt[a] # "none"}) < scenario.attempts

(* recoverRecurringPaymentCollection found nothing to recover. *)
NothingToRecover(w) ==
  IF work[w].kind = "resume" THEN Goto(w, "claim")
  ELSE IF work[w].again THEN Leaves(w) ELSE Goto(w, "create")

-----------------------------------------------------------------------------
(* Where collections start *)

Reads(w) ==
  Becomes(w, [Idle EXCEPT !.pc = "recover", !.due = due,
                          !.active = (status = "active" /\ subStatus = "active")])

RequestCollection(w) ==
  /\ At(w, "idle") /\ w \in scenario.requests /\ due <= Periods
  /\ Reads(w)
  /\ UNCHANGED <<payment, attempts, world, lifecycle>>

(* Slip: only attempts that are confirmed are recovered.                    *)
ListRecoverable_ConfirmedOnly(w) ==
  /\ At(w, "idle") /\ w \in scenario.requests /\ due <= Periods
  /\ status \in {"active", "canceling", "canceled"}
  /\ \E a \in ActiveAttempts(due) :
       (attempt[a] = "confirmed" /\ status = "active")
  /\ Reads(w)
  /\ UNCHANGED <<payment, attempts, world, lifecycle>>

(* collectDueRecurringPayments, second query. *)
ListRecoverable(w) ==
  /\ At(w, "idle") /\ w \in scenario.requests /\ due <= Periods
  /\ status \in {"active", "canceling", "canceled"}
  /\ \E a \in ActiveAttempts(due) :
       (attempt[a] = "processing" /\ age[a] = 2) \/ (attempt[a] = "confirmed" /\ status = "active")
  /\ Reads(w)
  /\ UNCHANGED <<payment, attempts, world, lifecycle>>

(* Its third query; the delay after a failed attempt only adds time. *)
ListDue(w) ==
  /\ At(w, "idle") /\ w \in scenario.requests /\ due <= Periods
  /\ status = "active" /\ due <= now /\ ActiveAttempts(due) = {}
  /\ Reads(w)
  /\ UNCHANGED <<payment, attempts, world, lifecycle>>

-----------------------------------------------------------------------------
(* recoverRecurringPaymentCollection *)

GetCollectionAttemptByDue(w) ==
  /\ At(w, "recover")
  /\ IF ActiveAttempts(work[w].due) = {} THEN NothingToRecover(w)
     ELSE \E a \in ActiveAttempts(work[w].due) :
       IF transfer[a] # "none"
       THEN Becomes(w, [work[w] EXCEPT !.pc = "transfer", !.a = a, !.linked = TRUE,
                                       !.stale = (age[a] = 2), !.asig = asig[a]])
       ELSE IF age[a] = 2
       THEN Becomes(w, [work[w] EXCEPT !.pc = "fail", !.a = a, !.linked = FALSE])
       ELSE Leaves(w)
  /\ UNCHANGED <<payment, attempts, world, lifecycle>>

(* Unsigned, or signed but failed by the tracking job before it started:   *)
(* interrupted once stale, in progress before that.                        *)
GetTransferById(w) ==
  LET a == work[w].a IN
  /\ At(w, "transfer")
  /\ IF (~work[w].asig /\ ~signed[a]) \/ (transfer[a] = "failed" /\ signed[a] /\ ~started[a])
     THEN IF work[w].stale THEN Goto(w, "fail") ELSE Leaves(w)
     ELSE Becomes(w, [work[w] EXCEPT !.pc = "prove", !.transfer = transfer[a]])
  /\ UNCHANGED <<payment, attempts, world, lifecycle>>

(* The signature's status and then its transaction decide; when the node   *)
(* does not have it or does not answer, the signature is journaled.        *)
ProveCollection(w) ==
  LET a == work[w].a IN
  /\ At(w, "prove")
  /\ \/ landed[a] = "err" /\ Goto(w, "fail")
     \/ landed[a] = "ok" /\ Goto(w, "finalize")
     \/ Goto(w, "journal")
  /\ UNCHANGED <<payment, attempts, world, lifecycle>>

(* Slip: the attempt is confirmed beside any settled transfer.              *)
MarkFailedAtomically_AnySettled(a, linked) ==
  LET verdict == IF linked /\ transfer[a] # "processing" THEN "confirmed" ELSE "failed" IN
  /\ (linked => transfer[a] # "finalized") /\ attempt[a] \in {"processing", verdict}
  /\ attempt' = [attempt EXCEPT ![a] = verdict]
  /\ transfer' = IF linked /\ verdict = "failed"
                 THEN [transfer EXCEPT ![a] = "failed"] ELSE transfer
  /\ asig' = IF verdict = "confirmed" THEN [asig EXCEPT ![a] = TRUE] ELSE asig
  /\ age' = [age EXCEPT ![a] = 0]

(* Slip: the attempt is not expected to be processing.                      *)
MarkFailedAtomically_AnyAttempt(a, linked) ==
  LET verdict == IF linked /\ transfer[a] = "confirmed" THEN "confirmed" ELSE "failed" IN
  /\ (linked => transfer[a] # "finalized")
  /\ attempt' = [attempt EXCEPT ![a] = verdict]
  /\ transfer' = IF linked /\ verdict = "failed"
                 THEN [transfer EXCEPT ![a] = "failed"] ELSE transfer
  /\ asig' = IF verdict = "confirmed" THEN [asig EXCEPT ![a] = TRUE] ELSE asig
  /\ age' = [age EXCEPT ![a] = 0]

(* markRecurringPaymentCollectionFailedAtomically.  A transfer that was    *)
(* confirmed meanwhile confirms the attempt instead; a transaction that    *)
(* finds anything else rolls back and is disabled here.                    *)
MarkFailedAtomically(a, linked) ==
  LET verdict == IF linked /\ transfer[a] = "confirmed" THEN "confirmed" ELSE "failed" IN
  /\ (linked => transfer[a] # "finalized") /\ attempt[a] \in {"processing", verdict}
  /\ attempt' = [attempt EXCEPT ![a] = verdict]
  /\ transfer' = IF linked /\ verdict = "failed"
                 THEN [transfer EXCEPT ![a] = "failed"] ELSE transfer
  /\ asig' = IF verdict = "confirmed" THEN [asig EXCEPT ![a] = TRUE] ELSE asig
  /\ age' = [age EXCEPT ![a] = 0]

(* A recovery goes on to collect the period anew; a collection ends.  When *)
(* the write does not succeed, the request ends.                           *)
FailCollection(w) ==
  LET a == work[w].a IN
  /\ At(w, "fail")
  /\ \/ /\ MarkFailedAtomically(a, work[w].linked)
        /\ IF work[w].own THEN Leaves(w) ELSE NothingToRecover(w)
     \/ Leaves(w) /\ UNCHANGED <<attempt, transfer, asig, age>>
  /\ UNCHANGED <<payment, adue, signed, started, world, lifecycle>>

-----------------------------------------------------------------------------
(* collectRecurringPayment *)

(* Slip: a period may have two active attempts.                             *)
CreateCollectionAttempt_NoUniqueIndex(w) ==
  /\ At(w, "create")
  /\ IF ~work[w].active \/ work[w].due > now
     THEN Leaves(w) /\ UNCHANGED <<attempt, adue, age>>
     ELSE IF FALSE
     THEN /\ Becomes(w, [work[w] EXCEPT !.pc = "recover", !.again = TRUE])
          /\ UNCHANGED <<attempt, adue, age>>
     ELSE \E a \in Attempts :
          /\ attempt[a] = "none" /\ MoreAttempts
          /\ attempt' = [attempt EXCEPT ![a] = "processing"]
          /\ adue' = [adue EXCEPT ![a] = work[w].due] /\ age' = [age EXCEPT ![a] = 0]
          /\ Becomes(w, [work[w] EXCEPT !.pc = "policy", !.a = a, !.own = TRUE])
  /\ UNCHANGED <<payment, asig, transfer, signed, started, world, lifecycle>>

(* ON CONFLICT DO NOTHING: the loser recovers what the winner left. *)
CreateCollectionAttempt(w) ==
  /\ At(w, "create")
  /\ IF ~work[w].active \/ work[w].due > now
     THEN Leaves(w) /\ UNCHANGED <<attempt, adue, age>>
     ELSE IF ActiveAttempts(work[w].due) # {}
     THEN /\ Becomes(w, [work[w] EXCEPT !.pc = "recover", !.again = TRUE])
          /\ UNCHANGED <<attempt, adue, age>>
     ELSE \E a \in Attempts :
          /\ attempt[a] = "none" /\ MoreAttempts
          /\ attempt' = [attempt EXCEPT ![a] = "processing"]
          /\ adue' = [adue EXCEPT ![a] = work[w].due] /\ age' = [age EXCEPT ![a] = 0]
          /\ Becomes(w, [work[w] EXCEPT !.pc = "policy", !.a = a, !.own = TRUE])
  /\ UNCHANGED <<payment, asig, transfer, signed, started, world, lifecycle>>

EnforcePolicy(w) ==
  /\ At(w, "policy")
  /\ Goto(w, "link") \/ Becomes(w, [work[w] EXCEPT !.pc = "fail", !.linked = FALSE])
  /\ UNCHANGED <<payment, attempts, world, lifecycle>>

(* Insert the transfer and link it in one transaction. *)
LinkTransfer(w) ==
  LET a == work[w].a IN
  /\ At(w, "link")
  /\ IF attempt[a] = "processing"
     THEN /\ transfer' = [transfer EXCEPT ![a] = "processing"]
          /\ age' = [age EXCEPT ![a] = 0]
          /\ Becomes(w, [work[w] EXCEPT !.pc = "destination", !.linked = TRUE,
                                        !.transfer = "processing"])
     ELSE /\ Becomes(w, [work[w] EXCEPT !.pc = "fail", !.linked = FALSE])
          /\ UNCHANGED <<transfer, age>>
  /\ UNCHANGED <<payment, attempt, adue, asig, signed, started, world, lifecycle>>

(* A payment that is no longer active is not collected; preparing the      *)
(* transaction may fail as well.                                           *)
UpdateDestinationTokenAccount(w) ==
  /\ At(w, "destination")
  /\ (status = "active" /\ Goto(w, "sign")) \/ Goto(w, "fail")
  /\ old' = (old /\ status # "active")
  /\ UNCHANGED <<status, due, subStatus, subDue, attempts, world, lifecycle>>

PersistSigned(w) ==
  LET a == work[w].a IN
  /\ At(w, "sign")
  /\ \/ /\ transfer[a] = "processing"
        /\ signed' = [signed EXCEPT ![a] = TRUE]
        /\ Goto(w, "start") \/ Goto(w, "fail")
     \/ Goto(w, "fail") /\ UNCHANGED signed
  /\ UNCHANGED <<payment, attempt, adue, asig, age, transfer, started, world, lifecycle>>

MarkStarted(w) ==
  LET a == work[w].a IN
  /\ At(w, "start")
  /\ \/ /\ transfer[a] = "processing"
        /\ started' = [started EXCEPT ![a] = TRUE]
        /\ Goto(w, "send") \/ Goto(w, "journal")
     \/ Goto(w, "fail") /\ UNCHANGED started
  /\ UNCHANGED <<payment, attempt, adue, asig, age, transfer, signed, world, lifecycle>>

(* Refused by the first preflight; or taken, with or without an answer; or *)
(* lost on the way.                                                        *)
SendTransaction(w) ==
  LET a == work[w].a IN
  /\ At(w, "send")
  /\ \/ Goto(w, "fail") /\ UNCHANGED sent
     \/ Goto(w, "journal") /\ UNCHANGED sent
     \/ /\ sent' = [sent EXCEPT ![a] = TRUE]
        /\ Goto(w, "record") \/ Goto(w, "journal")
  /\ UNCHANGED <<payment, attempts, landed, expired, forked, onchain, loose, now, scenario, lifecycle>>

RecordSignature(w) ==
  LET a == work[w].a IN
  /\ At(w, "record")
  /\ \/ /\ IF attempt[a] = "processing"
           THEN asig' = [asig EXCEPT ![a] = TRUE] /\ age' = [age EXCEPT ![a] = 0]
           ELSE UNCHANGED <<asig, age>>
        /\ Becomes(w, [work[w] EXCEPT !.pc = "confirm", !.transfer = transfer[a]])
     \/ Goto(w, "journal") /\ UNCHANGED <<asig, age>>
  /\ UNCHANGED <<payment, attempt, adue, transfer, signed, started, world, lifecycle>>

ConfirmCollection(w) ==
  LET a == work[w].a IN
  /\ At(w, "confirm")
  /\ \/ landed[a] = "err" /\ Goto(w, "fail")
     \/ landed[a] = "ok" /\ Goto(w, "finalize")
     \/ Goto(w, "journal")
  /\ UNCHANGED <<payment, attempts, world, lifecycle>>

(* journalRecurringPaymentCollectionError after a submission: keep the     *)
(* signature, leave every status to recovery.  The write may be lost.      *)
JournalSignature(w) ==
  LET a == work[w].a IN
  /\ At(w, "journal")
  /\ \/ asig' = [asig EXCEPT ![a] = TRUE] /\ age' = [age EXCEPT ![a] = 0]
     \/ UNCHANGED <<asig, age>>
  /\ Leaves(w)
  /\ UNCHANGED <<payment, attempt, adue, transfer, signed, started, world, lifecycle>>

(* Slip: the due date moves by two periods.                                 *)
FinalizeCollection_SkipsPeriod(w) ==
  LET a == work[w].a
      d == work[w].due
      settled == IF transfer[a] = work[w].transfer /\ transfer[a] # "finalized"
                 THEN "confirmed" ELSE transfer[a] IN
  /\ At(w, "finalize")
  /\ IF /\ settled \in {"confirmed", "finalized"} /\ attempt[a] \in {"processing", "confirmed"}
        /\ status = "active" => due >= d
        /\ subStatus = "active" => subDue >= d
     THEN /\ transfer' = [transfer EXCEPT ![a] = settled]
          /\ attempt' = [attempt EXCEPT ![a] = "confirmed"]
          /\ asig' = [asig EXCEPT ![a] = TRUE] /\ age' = [age EXCEPT ![a] = 0]
          /\ subDue' = IF subStatus = "active" /\ subDue = d THEN d + 1 ELSE subDue
          /\ due' = IF status = "active" /\ due = d THEN d + 2 ELSE due
          /\ old' = (old /\ due' = due)
          /\ IF work[w].kind = "resume" THEN Goto(w, "claim") ELSE Leaves(w)
     ELSE Goto(w, "journal") /\ UNCHANGED <<transfer, attempt, asig, age, subDue, due, old>>
  /\ UNCHANGED <<status, subStatus, adue, signed, started, world, lifecycle>>

(* Slip: the due date of the subscription does not move.                    *)
FinalizeCollection_SubscriptionLeft(w) ==
  LET a == work[w].a
      d == work[w].due
      settled == IF transfer[a] = work[w].transfer /\ transfer[a] # "finalized"
                 THEN "confirmed" ELSE transfer[a] IN
  /\ At(w, "finalize")
  /\ IF /\ settled \in {"confirmed", "finalized"} /\ attempt[a] \in {"processing", "confirmed"}
        /\ status = "active" => due >= d
        /\ subStatus = "active" => subDue >= d
     THEN /\ transfer' = [transfer EXCEPT ![a] = settled]
          /\ attempt' = [attempt EXCEPT ![a] = "confirmed"]
          /\ asig' = [asig EXCEPT ![a] = TRUE] /\ age' = [age EXCEPT ![a] = 0]
          /\ subDue' = subDue
          /\ due' = IF status = "active" /\ due = d THEN d + 1 ELSE due
          /\ old' = (old /\ due' = due)
          /\ IF work[w].kind = "resume" THEN Goto(w, "claim") ELSE Leaves(w)
     ELSE Goto(w, "journal") /\ UNCHANGED <<transfer, attempt, asig, age, subDue, due, old>>
  /\ UNCHANGED <<status, subStatus, adue, signed, started, world, lifecycle>>

(* finalizeRecurringPaymentCollection: confirm transfer and attempt, then  *)
(* move both due dates by compare-and-set.  A due date that did not move   *)
(* must have been moved already, or belong to a row that is not active;    *)
(* anything else rolls back.                                               *)
FinalizeCollection(w) ==
  LET a == work[w].a
      d == work[w].due
      settled == IF transfer[a] = work[w].transfer /\ transfer[a] # "finalized"
                 THEN "confirmed" ELSE transfer[a] IN
  /\ At(w, "finalize")
  /\ IF /\ settled \in {"confirmed", "finalized"} /\ attempt[a] \in {"processing", "confirmed"}
        /\ status = "active" => due >= d
        /\ subStatus = "active" => subDue >= d
     THEN /\ transfer' = [transfer EXCEPT ![a] = settled]
          /\ attempt' = [attempt EXCEPT ![a] = "confirmed"]
          /\ asig' = [asig EXCEPT ![a] = TRUE] /\ age' = [age EXCEPT ![a] = 0]
          /\ subDue' = IF subStatus = "active" /\ subDue = d THEN d + 1 ELSE subDue
          /\ due' = IF status = "active" /\ due = d THEN d + 1 ELSE due
          /\ old' = (old /\ due' = due)
          /\ IF work[w].kind = "resume" THEN Goto(w, "claim") ELSE Leaves(w)
     ELSE Goto(w, "journal") /\ UNCHANGED <<transfer, attempt, asig, age, subDue, due, old>>
  /\ UNCHANGED <<status, subStatus, adue, signed, started, world, lifecycle>>

-----------------------------------------------------------------------------
(* runRecurringPaymentLifecycle *)

Processing(op) == IF op = "cancel" THEN "canceling" ELSE "resuming"
Claimable(op) == IF op = "cancel" THEN "active" ELSE "canceled"
Final(op) == IF op = "cancel" THEN "canceled" ELSE "active"

(* A resume first recovers the collection of the period; a cancel does     *)
(* not wait for one.  Cron starts both again for rows that are stale.      *)
RequestLifecycle(w, op) ==
  /\ At(w, "idle") /\ w \in scenario.requests /\ op \in scenario.operations
  /\ status = Claimable(op) \/ (status = Processing(op) /\ old)
  /\ Becomes(w, [Idle EXCEPT !.kind = op, !.due = due,
                             !.pc = IF op = "resume" /\ due <= Periods THEN "recover" ELSE "claim"])
  /\ UNCHANGED <<payment, attempts, world, lifecycle>>

ClaimLifecycle(w) ==
  LET op == work[w].kind IN
  /\ At(w, "claim")
  /\ IF status = Claimable(op) \/ (status = Processing(op) /\ old)
     THEN status' = Processing(op) /\ old' = FALSE /\ Goto(w, "row")
     ELSE Leaves(w) /\ UNCHANGED <<status, old>>
  /\ UNCHANGED <<due, subStatus, subDue, attempts, world, lifecycle>>

(* Continue the latest processing row, or journal a new one. *)
GetOrCreateLifecycleAttempt(w) ==
  LET op == work[w].kind IN
  /\ At(w, "row")
  /\ IF life[op].processing
     THEN /\ Becomes(w, [work[w] EXCEPT !.row = life[op].n, !.sig = life[op].sig,
             !.pc = IF life[op].sig = "none" THEN "submit" ELSE "confirmSignature"])
          /\ UNCHANGED life
     ELSE \/ /\ life[op].n < MaxRows
             /\ life' = [life EXCEPT ![op] = [n |-> @.n + 1, processing |-> TRUE, sig |-> "none"]]
             /\ Becomes(w, [work[w] EXCEPT !.pc = "submit", !.row = life[op].n + 1])
          \/ Goto(w, "unclaim") /\ UNCHANGED life
  /\ UNCHANGED <<payment, attempts, world, orphaned>>

(* The transaction lands, fails or is lost; a second one for the state the *)
(* chain is in already may do either.  An error is reported from the first *)
(* fork that has it.  When sending throws, there is no signature and the   *)
(* claim is given back, although a node may have taken the transaction.    *)
SubmitLifecycle(w) ==
  LET op == work[w].kind IN
  /\ At(w, "submit")
  /\ \/ Goto(w, "failRow") /\ UNCHANGED <<onchain, loose, orphaned>>
     \/ /\ Goto(w, "failRow") /\ onchain' = Final(op)
        /\ orphaned' = (orphaned \/ op = "resume") /\ UNCHANGED loose
     \/ \E outcome \in {"ok", "err", "lost"} :
          /\ onchain' = IF outcome = "ok" THEN Final(op) ELSE onchain
          /\ loose' = IF outcome = "err" /\ scenario.forks THEN loose \cup {op} ELSE loose
          /\ UNCHANGED orphaned
          /\ Becomes(w, [work[w] EXCEPT !.pc = "recordSignature", !.sig = outcome])
  /\ UNCHANGED <<payment, attempts, sent, landed, expired, forked, now, scenario, life>>

(* When the write is lost, the error handler tries it once more. *)
RecordLifecycleSignature(w) ==
  LET op == work[w].kind IN
  /\ At(w, "recordSignature")
  /\ \/ /\ life' = [life EXCEPT ![op].sig = IF life[op].n = work[w].row THEN work[w].sig ELSE @]
        /\ UNCHANGED orphaned
     \/ UNCHANGED life /\ orphaned' = (orphaned \/ (op = "resume" /\ work[w].sig = "ok"))
  /\ Goto(w, "confirmSignature") \/ Leaves(w)
  /\ UNCHANGED <<payment, attempts, world>>

(* Slip: a transaction that was not seen counts as confirmed.               *)
ConfirmLifecycle_TimeoutIsFinal(w) ==
  /\ At(w, "confirmSignature")
  /\ \/ work[w].sig = "err" /\ Goto(w, "failRow")
     \/ work[w].sig # "err" /\ Goto(w, "finish")
     \/ Leaves(w)
  /\ UNCHANGED <<payment, attempts, world, lifecycle>>

ConfirmLifecycle(w) ==
  /\ At(w, "confirmSignature")
  /\ \/ work[w].sig = "err" /\ Goto(w, "failRow")
     \/ work[w].sig = "ok" /\ Goto(w, "finish")
     \/ Leaves(w)
  /\ UNCHANGED <<payment, attempts, world, lifecycle>>

(* finalizeRecurringPaymentLifecycle, guarded on the claim's status. *)
FinalizeLifecycle(w) ==
  LET op == work[w].kind IN
  /\ At(w, "finish")
  /\ IF status = Processing(op)
     THEN /\ status' = Final(op) /\ subStatus' = Final(op) /\ old' = FALSE
          /\ life' = [life EXCEPT ![op].processing = @ /\ life[op].n # work[w].row]
     ELSE UNCHANGED <<status, subStatus, old, life>>
  /\ Leaves(w)
  /\ UNCHANGED <<due, subDue, attempts, world, orphaned>>

FailLifecycleRow(w) ==
  LET op == work[w].kind IN
  /\ At(w, "failRow")
  /\ life' = [life EXCEPT ![op].processing = @ /\ life[op].n # work[w].row]
  /\ Goto(w, "unclaim")
  /\ UNCHANGED <<payment, attempts, world, orphaned>>

ResetLifecycleClaim(w) ==
  LET op == work[w].kind IN
  /\ At(w, "unclaim")
  /\ status' = IF status = Processing(op) THEN Claimable(op) ELSE status
  /\ old' = (old /\ status # Processing(op))
  /\ Leaves(w)
  /\ UNCHANGED <<due, subStatus, subDue, attempts, world, lifecycle>>

-----------------------------------------------------------------------------
(* The tracking job, time and the chain *)

TrackTransfer(a) ==
  /\ \/ /\ transfer[a] = "processing"
        /\ \/ /\ (~signed[a] /\ age[a] > 0) \/ landed[a] = "err"
                 \/ (expired[a] /\ signed[a] /\ ~started[a])
              /\ transfer' = [transfer EXCEPT ![a] = "failed"]
           \/ /\ landed[a] = "ok"
              /\ \E s \in {"confirmed", "finalized"} : transfer' = [transfer EXCEPT ![a] = s]
     \/ /\ transfer[a] = "confirmed"
        /\ transfer' = [transfer EXCEPT ![a] = "finalized"]
  /\ UNCHANGED <<payment, attempt, adue, asig, age, signed, started, world, lifecycle, work>>

Crash(w) ==
  /\ ~At(w, "idle")
  /\ Leaves(w)
  /\ orphaned' = (orphaned \/ (/\ At(w, "recordSignature") /\ work[w].sig = "ok"
                               /\ work[w].kind = "resume"))
  /\ UNCHANGED <<payment, attempts, world, life>>

DueDatePasses ==
  /\ now < Periods /\ now' = now + 1
  /\ UNCHANGED <<payment, attempts, chain, scenario, lifecycle, work>>

AttemptAges(a) ==
  /\ attempt[a] = "processing" /\ age[a] < 2
  /\ scenario.stalls \/ \A w \in Requests : work[w].a # a
  /\ age' = [age EXCEPT ![a] = @ + 1]
  /\ UNCHANGED <<payment, attempt, adue, asig, transfer, signed, started, world, lifecycle, work>>

PaymentAges ==
  /\ status \in {"canceling", "resuming"} /\ ~old
  /\ scenario.stalls \/ \A w \in Requests : work[w].pc \notin LifecycleSteps
  /\ old' = TRUE
  /\ UNCHANGED <<status, due, subStatus, subDue, attempts, world, lifecycle, work>>

Lands(a) ==
  /\ sent[a] /\ ~expired[a] /\ landed[a] = "no"
  /\ \E r \in {"ok", "err"} : landed' = [landed EXCEPT ![a] = r]
  /\ UNCHANGED <<payment, attempts, sent, expired, forked, onchain, loose, now, scenario, lifecycle,
                 work>>

Expires(a) ==
  /\ signed[a] /\ ~expired[a] /\ landed[a] = "no"
  /\ expired' = [expired EXCEPT ![a] = TRUE]
  /\ UNCHANGED <<payment, attempts, sent, landed, forked, onchain, loose, now, scenario, lifecycle,
                 work>>

(* confirmTransaction and the status lookup report an error at any         *)
(* commitment and a success from confirmed on.  So what succeeded is on    *)
(* chain for good, and what failed may vanish with its fork and land on    *)
(* another.  (Here every error may, the finalized ones too.)               *)
ForkDropped(a) ==
  /\ landed[a] = "err" /\ scenario.forks
  /\ landed' = [landed EXCEPT ![a] = "no"] /\ forked' = [forked EXCEPT ![a] = TRUE]
  /\ UNCHANGED <<payment, attempts, sent, expired, onchain, loose, now, scenario, lifecycle, work>>

(* The same for a lifecycle transaction that was seen to fail.             *)
LandsElsewhere(op) ==
  /\ op \in loose
  /\ loose' = loose \ {op} /\ onchain' = Final(op)
  /\ orphaned' = (orphaned \/ op = "resume")
  /\ UNCHANGED <<payment, attempts, sent, landed, expired, forked, now, scenario, life, work>>

RecoverStep(w) ==
  GetCollectionAttemptByDue(w) \/ GetTransferById(w) \/ ProveCollection(w)

CollectStep(w) ==
  \/ FailCollection(w) \/ CreateCollectionAttempt(w) \/ EnforcePolicy(w) \/ LinkTransfer(w)
  \/ UpdateDestinationTokenAccount(w) \/ PersistSigned(w) \/ MarkStarted(w)
  \/ SendTransaction(w) \/ RecordSignature(w) \/ ConfirmCollection(w) \/ JournalSignature(w)
  \/ FinalizeCollection(w)

LifecycleStep(w) ==
  \/ ClaimLifecycle(w) \/ GetOrCreateLifecycleAttempt(w) \/ SubmitLifecycle(w)
  \/ RecordLifecycleSignature(w) \/ ConfirmLifecycle(w) \/ FinalizeLifecycle(w)
  \/ FailLifecycleRow(w) \/ ResetLifecycleClaim(w)

Next ==
  \/ \E w \in Requests :
       \/ RequestCollection(w) \/ ListRecoverable(w) \/ ListDue(w)
       \/ \E op \in scenario.operations : RequestLifecycle(w, op)
       \/ RecoverStep(w) \/ CollectStep(w) \/ LifecycleStep(w) \/ Crash(w)
  \/ \E a \in Attempts :
       TrackTransfer(a) \/ AttemptAges(a) \/ Lands(a) \/ Expires(a) \/ ForkDropped(a)
  \/ \E op \in {"cancel", "resume"} : LandsElsewhere(op)
  \/ DueDatePasses \/ PaymentAges

Spec == Init /\ [][Next]_vars

(* A request goes on or stops.  Cron lists what can be recovered, and its  *)
(* calls succeed, again and again; attempts grow old.                      *)
Fairness ==
  /\ \A w \in Requests : WF_vars(RecoverStep(w) \/ CollectStep(w) \/ LifecycleStep(w) \/ Crash(w))
  /\ \A a \in Attempts : WF_vars(AttemptAges(a))
  /\ \A w \in Requests :
       /\ SF_vars(ListRecoverable(w)) /\ SF_vars(GetCollectionAttemptByDue(w))
       /\ SF_vars(GetTransferById(w)) /\ SF_vars(FinalizeCollection(w))
       /\ SF_vars(ProveCollection(w) /\ work'[w].pc \in {"fail", "finalize"})

FairSpec == Spec /\ Fairness

-----------------------------------------------------------------------------
(* Correctness *)

(* A due period is charged at most once, however many requests collect,    *)
(* recover and retry it and wherever they stop, while none of them stands  *)
(* still long enough to be taken for dead.  The code's other gap is        *)
(* excepted too: a charge that landed after all, on another fork, once its *)
(* error was seen and the period collected anew.                           *)
OneChargePerPeriod ==
  ~scenario.stalls => \A a, b \in Attempts :
    a # b /\ landed[a] = "ok" /\ landed[b] = "ok" => adue[a] # adue[b] \/ forked[a] \/ forked[b]

(* The schedule moves past a period only when its charge is on chain, and  *)
(* the subscription never lags behind while both are active.               *)
AdvancedWasCharged ==
  /\ \A d \in 1..Periods :
       d < due => \E a \in Attempts : adue[a] = d /\ landed[a] = "ok"
  /\ subDue >= due

(* An attempt is confirmed together with its transfer, and only by what is *)
(* on chain, the branch that was about to fail it included.                *)
ConfirmedAttemptLanded ==
  \A a \in Attempts :
    attempt[a] = "confirmed" => landed[a] = "ok" /\ transfer[a] \in {"confirmed", "finalized"}

(* A payment is canceled only when the subscription is canceled on chain,  *)
(* whichever request finished the operation, unless a resume landed of     *)
(* which its row has no signature or only the error of a fork that is      *)
(* gone, or a live request stood still until cron took its operation over  *)
(* (finalizeRecurringPaymentLifecycle checks the payment's status, not     *)
(* whose claim it is).                                                     *)
CanceledIsOnChain ==
  ~scenario.stalls /\ status = "canceled" =>
    subStatus = "canceled" /\ (onchain = "canceled" \/ orphaned)

(* A confirmed attempt is never taken back, and no due date goes back. *)
CollectionsOnlyAdvance ==
  [][/\ due' >= due /\ subDue' >= subDue
     /\ \A a \in Attempts : attempt[a] = "confirmed" => attempt'[a] = "confirmed"]_vars

(* "Recovery can safely re-run this transaction": what was charged is      *)
(* recorded and the schedule moves on, unless the payment is not active or *)
(* the charge had been seen to fail on another fork.                       *)
ChargedAdvances ==
  \A a \in Attempts :
    (landed[a] = "ok" /\ attempt[a] # "failed" /\ ~forked[a]) ~> (due > adue[a])
=============================================================================
