----------------------- MODULE SponsorshipReservations ----------------------
(***************************************************************************)
(* The durable life of sponsorship reservations: one row per reservation   *)
(* id in Postgres, its mirror key in Redis, the requests that own an       *)
(* attempt while they sign or send a transaction (BudgetedFeePayment), the *)
(* reconciliation job, and the chain.                                      *)
(*                                                                         *)
(* A reservation id is a digest of the tenant, the actor and the compiled  *)
(* message, so two ids may carry the same message; the fee payer's         *)
(* signature is determined by the message, so a message also stands for    *)
(* its signature.  Every statement and every Redis script is one step, and *)
(* its reply may be lost after it took effect.  Amounts and limits are the *)
(* subject of SponsorshipBudget; here the budget gate just answers.        *)
(***************************************************************************)
EXTENDS Integers

CONSTANTS
  Ids,         \* reservation ids
  Messages,    \* compiled transaction messages
  MessageOf,   \* the message an id was derived from
  OpsOf,       \* the operations requested for an id
  Callers,     \* concurrent API requests
  Jobs,        \* reconciliation passes that may overlap
  MaxAttempt   \* bound on the attempts of one reservation

Ops == {"sign", "send", "owned"}
NoSig == "nosig"
None == "none"

ASSUME ReservationAssumption ==
  /\ MaxAttempt \in Nat \ {0}
  /\ MessageOf \in [Ids -> Messages] /\ OpsOf \in [Ids -> SUBSET Ops]
  /\ NoSig \notin Messages /\ None \notin Ids

(* The payment paths own their submissions; pay links, Earn, issuance and  *)
(* the custody check sign or send other transactions.  No message reaches  *)
(* both kinds of operation.                                                *)
ASSUME OwnedMessagesAreApart ==
  \A i, j \in Ids : MessageOf[i] = MessageOf[j] /\ "owned" \in OpsOf[i]
                      => OpsOf[j] \subseteq {"owned"}

VARIABLES
  row,      \* sponsorship_budget_reservations
  key,      \* Redis, per id and attempt: reservation key, settlement key or none
  enabled,  \* every policy of the scope is enabled
  call,     \* the progress of a request
  job,      \* the candidate a reconciliation pass is working on
  exposed,  \* messages whose signed transaction left the service, `leaked` apart
  leaked,   \* messages that left it in a try of a send whose retry was rejected
  landed,   \* messages on chain
  expired   \* messages whose blockhash is no longer valid

vars == <<row, key, enabled, call, job, exposed, leaked, landed, expired>>

Attempts == 1..MaxAttempt
Live == {"reserved", "signed", "submitted"}
Statuses == Live \cup {"committed", "released", "charged_unknown"}
Rows == [status : Statuses \cup {"absent"}, attempt : 0..MaxAttempt,
         sig : Messages \cup {NoSig}, stx : BOOLEAN, miss : 0..1, settled : BOOLEAN]

Absent == [status |-> "absent", attempt |-> 0, sig |-> NoSig, stx |-> FALSE,
           miss |-> 0, settled |-> FALSE]
Idle == [pc |-> "idle", id |-> None, op |-> "sign", attempt |-> 0, round |-> 1,
         dup |-> FALSE]
JobIdle == [pc |-> "idle", id |-> None, attempt |-> 0, sig |-> NoSig, miss |-> 0]

Init ==
  /\ row = [i \in Ids |-> Absent]
  /\ key = [i \in Ids |-> [a \in Attempts |-> "none"]]
  /\ enabled = TRUE
  /\ call = [c \in Callers |-> Idle]
  /\ job = [k \in Jobs |-> JobIdle]
  /\ exposed = {} /\ leaked = {} /\ landed = {} /\ expired = {}

-----------------------------------------------------------------------------
(* The repository: the WHERE clause of each statement and the row it       *)
(* leaves.  Every one names the attempt it expects.                        *)

At(i, a, statuses) == row[i].attempt = a /\ row[i].status \in statuses

Reserved(a) == [Absent EXCEPT !.status = "reserved", !.attempt = a]
Reopenable(i, a) == At(i, a - 1, {"released"}) /\ row[i].settled

(* The partial unique index on signature: it also covers released rows.    *)
SignatureTaken(i) == \E j \in Ids \ {i} : row[j].sig = MessageOf[i]

Signed(i) == [row[i] EXCEPT !.status = "signed", !.sig = MessageOf[i], !.stx = TRUE]
Submitted(i) == [row[i] EXCEPT !.status = "submitted", !.sig = MessageOf[i]]
WithStatus(i, s) == [row[i] EXCEPT !.status = s]

(* Slip: an ambiguous charge can still be given back.                      *)
CanRelease_AlsoCharged(i, a) == At(i, a, {"reserved", "signed", "charged_unknown"})

CanSign(i, a) == At(i, a, {"reserved"})
CanSubmit(i, a) == At(i, a, {"reserved", "signed"})
CanRelease(i, a) == At(i, a, {"reserved", "signed"})
CanSettle(i, a) == At(i, a, {"signed", "submitted"})
CanCharge(i, a) == At(i, a, Live)
CanMarkSettled(i, a) == At(i, a, {"committed", "released"})
CanMiss(i, a, m) == CanSettle(i, a) /\ row[i].miss = m

Write(i, r) == row' = [row EXCEPT ![i] = r]

-----------------------------------------------------------------------------
(* Control flow of a request.                                              *)

Goto(c, pc) == call' = [call EXCEPT ![c].pc = pc] /\ UNCHANGED enabled
Return(c) == call' = [call EXCEPT ![c] = Idle] /\ UNCHANGED enabled
GiveOut(c) == exposed' = exposed \cup {MessageOf[call[c].id]}

(* accountingUnavailable and the failing end of releaseDeterministic: try  *)
(* to trip the global breaker, ignore a failure to do so, throw.           *)
Fail(c) == call' = [call EXCEPT ![c] = Idle] /\ enabled' \in {enabled, FALSE}

(* The statement took effect; its reply arrives or is lost.                *)
Commit(i, r, reply, lost) == Write(i, r) /\ (reply \/ lost)

HasResponse(r, op) ==
  IF op = "send" THEN r.status \in {"submitted", "committed"} /\ r.sig # NoSig
                 ELSE r.status \in {"signed", "submitted", "committed"} /\ r.stx

(* admit: read the row, then take a number for this attempt.  A replay of  *)
(* a send or of an owned submission, and an ambiguous row, change nothing. *)
Begin(c, i, op) ==
  LET r == row[i]
      a == IF r.status \in {"absent", "released"} THEN r.attempt + 1 ELSE r.attempt IN
  /\ call[c].pc = "idle"
  /\ ~HasResponse(r, op) /\ r.status # "charged_unknown"
  /\ a \in Attempts
  /\ call' = [call EXCEPT ![c] = [Idle EXCEPT !.pc = "policies", !.id = i, !.op = op,
                                              !.attempt = a]]
  /\ UNCHANGED <<row, key, enabled, job, exposed, leaked, landed, expired>>

(* A replayed sign hands out the stored transaction again.                 *)
ReplaySign(c, i) ==
  /\ call[c].pc = "idle"
  /\ HasResponse(row[i], "sign")
  /\ exposed' = exposed \cup {MessageOf[i]}
  /\ UNCHANGED <<row, key, enabled, call, job, leaked, landed, expired>>

(* One round of admitAgainstCurrentPolicy starts with the policies.        *)
ResolvePolicies(c) ==
  LET x == call[c] IN
  /\ x.pc = "policies"
  /\ IF enabled
     THEN Goto(c, IF x.round = 2 THEN "budget"
                  ELSE IF x.attempt = 1 THEN "create" ELSE "existing")
     ELSE IF x.round = 2 THEN Goto(c, "unreserve") ELSE Return(c)
  /\ UNCHANGED <<row, key, job, exposed, leaked, landed, expired>>

(* Slip: the insert is an upsert, so a duplicate also owns the attempt.    *)
CreateReservation_Upsert(c) ==
  LET i == call[c].id IN
  /\ call[c].pc = "create"
  /\ Goto(c, "budget")
  /\ IF row[i].status = "absent" THEN Write(i, Reserved(1)) ELSE UNCHANGED row
  /\ UNCHANGED <<key, job, exposed, leaked, landed, expired>>

(* createReservation: INSERT ... ON CONFLICT DO NOTHING.                   *)
CreateReservation(c) ==
  LET i == call[c].id IN
  /\ call[c].pc = "create"
  /\ IF row[i].status = "absent"
     THEN Commit(i, Reserved(1), Goto(c, "budget"), Fail(c))
     ELSE Goto(c, "existing") /\ UNCHANGED row
  /\ UNCHANGED <<key, job, exposed, leaked, landed, expired>>

(* The rest of persistReservationDurable: what the existing row allows.    *)
ReadExisting(c) ==
  LET x == call[c] IN
  /\ x.pc = "existing"
  /\ IF At(x.id, x.attempt - 1, {"released"})
     THEN Goto(c, "reopen") /\ UNCHANGED exposed
     ELSE /\ Return(c)
          /\ IF x.op = "sign" /\ HasResponse(row[x.id], "sign")
             THEN GiveOut(c) ELSE UNCHANGED exposed
  /\ UNCHANGED <<row, key, job, leaked, landed, expired>>

ReopenReleasedReservation(c) ==
  LET x == call[c] IN
  /\ x.pc = "reopen"
  /\ IF Reopenable(x.id, x.attempt)
     THEN Commit(x.id, Reserved(x.attempt), Goto(c, "budget"), Fail(c))
     ELSE Return(c) /\ UNCHANGED row
  /\ UNCHANGED <<key, job, exposed, leaked, landed, expired>>

SetKey(i, a, v) == key' = [key EXCEPT ![i][a] = v]

(* reserveBudget: the Redis gate answers.                                  *)
Admitted(c) ==
  LET x == call[c] IN
  /\ x.pc = "budget" /\ key[x.id][x.attempt] = "none"
  /\ SetKey(x.id, x.attempt, "held")
  /\ Goto(c, "provider") \/ Fail(c)
  /\ UNCHANGED <<row, job, exposed, leaked, landed, expired>>

(* The limits deny it, or the control field does not match the policies.   *)
Denied(c) ==
  /\ call[c].pc = "budget"
  /\ Goto(c, "unreserve")
  /\ UNCHANGED <<row, key, job, exposed, leaked, landed, expired>>

StalePolicy(c) ==
  /\ call[c].pc = "budget" /\ call[c].round = 1
  /\ call' = [call EXCEPT ![c].pc = "policies", ![c].round = 2]
  /\ UNCHANGED <<row, key, enabled, job, exposed, leaked, landed, expired>>

(* The Redis client resends a script whose reply it lost, and the second   *)
(* execution finds the key the first one wrote.                            *)
DuplicateReserve(c) ==
  LET x == call[c] k == key[x.id][x.attempt] IN
  /\ x.pc = "budget"
  /\ SetKey(x.id, x.attempt, IF k = "none" THEN "held" ELSE k)
  /\ Goto(c, "unreserve")
  /\ UNCHANGED <<row, job, exposed, leaked, landed, expired>>

(* releaseDurable: markReleased, then markRedisSettled, with no Redis      *)
(* settlement, whatever either statement matched.                          *)
Unreserve(c) ==
  LET x == call[c] IN
  /\ x.pc = "unreserve"
  /\ IF CanRelease(x.id, x.attempt)
     THEN Commit(x.id, WithStatus(x.id, "released"), Goto(c, "unmark"), Fail(c))
     ELSE Goto(c, "unmark") /\ UNCHANGED row
  /\ UNCHANGED <<key, job, exposed, leaked, landed, expired>>

Unmark(c) ==
  LET x == call[c] IN
  /\ x.pc = "unmark"
  /\ IF CanMarkSettled(x.id, x.attempt)
     THEN Commit(x.id, [row[x.id] EXCEPT !.settled = TRUE], Return(c), Fail(c))
     ELSE Return(c) /\ UNCHANGED row
  /\ UNCHANGED <<key, job, exposed, leaked, landed, expired>>

-----------------------------------------------------------------------------
(* The admitted request calls the provider and records what came of it.    *)

(* External: custody signs; a failed call hands nobody a signature.        *)
ProviderSign(c) ==
  /\ call[c].pc = "provider" /\ call[c].op # "send"
  /\ \/ Goto(c, "signed")
     \/ Goto(c, IF call[c].op = "sign" THEN "ambiguous" ELSE "release")
  /\ UNCHANGED <<row, key, job, exposed, leaked, landed, expired>>

(* Slip: a timeout counts as a deterministic rejection.                    *)
ProviderSend_TimeoutReleases(c) ==
  /\ call[c].pc = "provider" /\ call[c].op = "send"
  /\ \/ GiveOut(c) /\ (Goto(c, "submit") \/ Goto(c, "release"))
     \/ UNCHANGED exposed /\ Goto(c, "release")
  /\ UNCHANGED <<row, key, job, leaked, landed, expired>>

(* signAndSend of the Kora adapter tries up to three times within one call *)
(* and classifies the last error alone.  A deterministic rejection of the  *)
(* last try releases the reservation; it proves that nothing was broadcast *)
(* only if no earlier try reached Kora and lost its answer.                *)
ProviderSend(c) ==
  /\ call[c].pc = "provider" /\ call[c].op = "send"
  /\ \/ /\ GiveOut(c) /\ UNCHANGED leaked
        /\ Goto(c, "submit") \/ Goto(c, "ambiguous")
     \/ /\ UNCHANGED <<exposed, leaked>>
        /\ Goto(c, "release") \/ Goto(c, "ambiguous")
     \/ /\ leaked' = leaked \cup {MessageOf[call[c].id]} /\ UNCHANGED exposed
        /\ Goto(c, "release")
  /\ UNCHANGED <<row, key, job, landed, expired>>

(* markAmbiguous: keep the whole reservation charged.                      *)
MarkAmbiguous(c) ==
  LET x == call[c] IN
  /\ x.pc = "ambiguous"
  /\ IF CanCharge(x.id, x.attempt)
     THEN Commit(x.id, WithStatus(x.id, "charged_unknown"), Return(c), Fail(c))
     ELSE Fail(c) /\ UNCHANGED row
  /\ UNCHANGED <<key, job, exposed, leaked, landed, expired>>

ReleaseDuplicate(c) ==
  call' = [call EXCEPT ![c].pc = "release", ![c].dup = TRUE] /\ UNCHANGED enabled

(* markSigned and what signAsFeePayer does with its three results.         *)
MarkSigned(c) ==
  LET x == call[c] IN
  /\ x.pc = "signed" /\ x.op = "sign"
  /\ IF ~CanSign(x.id, x.attempt)
     THEN Goto(c, "advanced") /\ UNCHANGED <<row, exposed>>
     ELSE IF SignatureTaken(x.id)
     THEN ReleaseDuplicate(c) /\ UNCHANGED <<row, exposed>>
     ELSE Commit(x.id, Signed(x.id), Return(c) /\ GiveOut(c), Fail(c) /\ UNCHANGED exposed)
  /\ UNCHANGED <<key, job, leaked, landed, expired>>

(* markSubmitted and what signAndSend does with its three results.         *)
MarkSubmitted(c) ==
  LET x == call[c] IN
  /\ x.pc = "submit" /\ x.op = "send"
  /\ IF ~CanSubmit(x.id, x.attempt)
     THEN Goto(c, "advanced") /\ UNCHANGED row
     ELSE IF SignatureTaken(x.id)
     THEN ReleaseDuplicate(c) /\ UNCHANGED row
     ELSE Commit(x.id, Submitted(x.id), Return(c), Fail(c))
  /\ UNCHANGED <<key, job, exposed, leaked, landed, expired>>

Forward(op) == {"submitted", "committed", "charged_unknown"}
                 \cup (IF op = "sign" THEN {"signed"} ELSE {})

(* durablyAdvanced: a lost transition is fine if somebody else carried the *)
(* same attempt forward.                                                   *)
DurablyAdvanced(c) ==
  LET x == call[c] IN
  /\ x.pc = "advanced"
  /\ IF At(x.id, x.attempt, Forward(x.op))
     THEN /\ IF x.op = "owned" THEN Goto(c, "broadcast") ELSE Return(c)
          /\ IF x.op = "sign" THEN GiveOut(c) ELSE UNCHANGED exposed
     ELSE Fail(c) /\ UNCHANGED exposed
  /\ UNCHANGED <<row, key, job, leaked, landed, expired>>

-----------------------------------------------------------------------------
(* prepareOwnedSubmission and the broadcast of its caller.                 *)

(* markSigned inside the releasing try block: any other result releases.   *)
OwnedMarkSigned(c) ==
  LET x == call[c] IN
  /\ x.pc = "signed" /\ x.op = "owned"
  /\ \/ /\ CanSign(x.id, x.attempt) /\ ~SignatureTaken(x.id)
        /\ Commit(x.id, Signed(x.id), Goto(c, "persist"), Goto(c, "release"))
     \/ Goto(c, "release") /\ UNCHANGED row
  /\ UNCHANGED <<key, job, exposed, leaked, landed, expired>>

(* persistSigned of the payment, then the policies once more.              *)
OwnedPersist(c) ==
  /\ call[c].pc = "persist"
  /\ \/ enabled /\ Goto(c, "start")
     \/ call' = [call EXCEPT ![c].pc = "release"] /\ enabled' \in {enabled, FALSE}
  /\ UNCHANGED <<row, key, job, exposed, leaked, landed, expired>>

(* markStarted; when it throws, hasStarted decides whether the payment     *)
(* could already be sendable.  Started or unreadable: keep the charge.     *)
OwnedStart(c) ==
  /\ call[c].pc = "start"
  /\ Goto(c, "submit") \/ Goto(c, "release") \/ Return(c)
  /\ UNCHANGED <<row, key, job, exposed, leaked, landed, expired>>

OwnedMarkSubmitted(c) ==
  LET x == call[c] IN
  /\ x.pc = "submit" /\ x.op = "owned"
  /\ IF CanSubmit(x.id, x.attempt) /\ ~SignatureTaken(x.id)
     THEN Commit(x.id, Submitted(x.id), Goto(c, "broadcast"), Fail(c))
     ELSE Goto(c, "advanced") /\ UNCHANGED row
  /\ UNCHANGED <<key, job, exposed, leaked, landed, expired>>

(* submitSignedPaymentTransaction: accepted, ambiguous, or refused by the  *)
(* first preflight, which proves that nothing was broadcast.               *)
Broadcast(c) ==
  /\ call[c].pc = "broadcast"
  /\ \/ GiveOut(c) /\ Return(c)
     \/ UNCHANGED exposed /\ (Return(c) \/ Goto(c, "unbroadcast"))
  /\ UNCHANGED <<row, key, job, leaked, landed, expired>>

-----------------------------------------------------------------------------
(* releaseDeterministic: release the row, settle Redis at zero, mark it.   *)

Release(c) ==
  LET x == call[c] IN
  /\ x.pc \in {"release", "unbroadcast"}
  /\ IF IF x.pc = "release" THEN CanRelease(x.id, x.attempt) ELSE CanSettle(x.id, x.attempt)
     THEN Commit(x.id, WithStatus(x.id, "released"), Goto(c, "refund"), Fail(c))
     ELSE Fail(c) /\ UNCHANGED row
  /\ UNCHANGED <<key, job, exposed, leaked, landed, expired>>

Refund(c) ==
  LET x == call[c] IN
  /\ x.pc = "refund"
  /\ SetKey(x.id, x.attempt, "settled")
  /\ Goto(c, "mark") \/ Fail(c)
  /\ UNCHANGED <<row, job, exposed, leaked, landed, expired>>

(* A duplicate signature ends here with the signed transaction returned.   *)
MarkRefunded(c) ==
  LET x == call[c] IN
  /\ x.pc = "mark"
  /\ IF CanMarkSettled(x.id, x.attempt)
     THEN Commit(x.id, [row[x.id] EXCEPT !.settled = TRUE],
                 Return(c) /\ (IF x.dup THEN GiveOut(c) ELSE UNCHANGED exposed),
                 Fail(c) /\ UNCHANGED exposed)
     ELSE Fail(c) /\ UNCHANGED <<row, exposed>>
  /\ UNCHANGED <<key, job, leaked, landed, expired>>

(* A statement or script fails without effect, or the process dies.        *)
Abort(c) ==
  /\ call[c].pc # "idle"
  /\ Fail(c)
  /\ UNCHANGED <<row, key, job, exposed, leaked, landed, expired>>

-----------------------------------------------------------------------------
(* Reconciliation of one candidate of a pass.  The candidate is the row as *)
(* it was listed, however long ago.                                        *)

JobGoto(k, pc) == job' = [job EXCEPT ![k].pc = pc]
JobDone(k) == job' = [job EXCEPT ![k] = JobIdle]
JobFails(k) == JobDone(k) /\ enabled' \in {enabled, FALSE}

JobTarget(i, pc) == [pc |-> pc, id |-> i, attempt |-> row[i].attempt,
                     sig |-> row[i].sig, miss |-> row[i].miss]

(* Slip: rows that never got a signature are not listed.                   *)
ListCandidate_SignedOnly(k, i) ==
  LET r == row[i] IN
  /\ job[k].pc = "idle"
  /\ \/ r.status \in {"signed", "submitted"}
     \/ r.status \in {"committed", "released"} /\ ~r.settled
  /\ job' = [job EXCEPT ![k] =
       JobTarget(i, IF r.status \notin Live THEN "settle" ELSE "lookup")]
  /\ UNCHANGED <<row, key, enabled, call, exposed, leaked, landed, expired>>

(* Slip: terminal rows are not listed, whatever Redis knows.               *)
ListCandidate_LiveOnly(k, i) ==
  LET r == row[i] IN
  /\ job[k].pc = "idle" /\ r.status \in Live
  /\ job' = [job EXCEPT ![k] = JobTarget(i, IF r.sig = NoSig THEN "charge" ELSE "lookup")]
  /\ UNCHANGED <<row, key, enabled, call, exposed, leaked, landed, expired>>

(* listReconciliationCandidates; a live row is listed once it is old, and  *)
(* an owner may be slower than that.  The first branch of                  *)
(* reconcileReservation depends on the listed row alone.                   *)
ListCandidate(k, i) ==
  LET r == row[i] IN
  /\ job[k].pc = "idle"
  /\ r.status \in Live \/ (r.status \in {"committed", "released"} /\ ~r.settled)
  /\ job' = [job EXCEPT ![k] =
       JobTarget(i, IF r.status \notin Live THEN "settle"
                    ELSE IF r.sig = NoSig THEN "charge" ELSE "lookup")]
  /\ UNCHANGED <<row, key, enabled, call, exposed, leaked, landed, expired>>

(* External: the RPC may lag behind the chain.  A spend above the          *)
(* reservation trips the breaker and is committed all the same.            *)
LookupTransaction(k) ==
  LET s == job[k] IN
  /\ s.pc = "lookup"
  /\ \/ s.sig \in landed /\ JobGoto(k, "commit") /\ enabled' \in {enabled, FALSE}
     \/ /\ UNCHANGED enabled
        /\ IF s.sig \notin expired THEN JobDone(k)
           ELSE JobGoto(k, IF s.miss = 0 THEN "miss" ELSE "charge")
  /\ UNCHANGED <<row, key, call, exposed, leaked, landed, expired>>

(* Slip: Redis is settled although the row's statement may have failed.    *)
JobCommit_NotChecked(k) ==
  LET j == job[k] IN
  /\ j.pc = "commit"
  /\ \/ CanSettle(j.id, j.attempt) /\ Write(j.id, WithStatus(j.id, "committed"))
     \/ UNCHANGED row
  /\ JobGoto(k, "settle")
  /\ UNCHANGED <<key, enabled, call, exposed, leaked, landed, expired>>

(* settleDurably: a transition lost to somebody else is not repeated.      *)
JobCommit(k) ==
  LET j == job[k] IN
  /\ j.pc = "commit"
  /\ IF CanSettle(j.id, j.attempt)
     THEN Commit(j.id, WithStatus(j.id, "committed"), JobGoto(k, "settle"), JobDone(k))
     ELSE JobDone(k) /\ UNCHANGED row
  /\ UNCHANGED <<key, enabled, call, exposed, leaked, landed, expired>>

JobSettle(k) ==
  LET j == job[k] IN
  /\ j.pc = "settle"
  /\ SetKey(j.id, j.attempt, "settled")
  /\ (JobGoto(k, "mark") /\ UNCHANGED enabled) \/ JobFails(k)
  /\ UNCHANGED <<row, call, exposed, leaked, landed, expired>>

JobMark(k) ==
  LET j == job[k] IN
  /\ j.pc = "mark"
  /\ IF CanMarkSettled(j.id, j.attempt)
     THEN Commit(j.id, [row[j.id] EXCEPT !.settled = TRUE],
                 JobDone(k) /\ UNCHANGED enabled, JobFails(k))
     ELSE JobFails(k) /\ UNCHANGED row
  /\ UNCHANGED <<key, call, exposed, leaked, landed, expired>>

JobMiss(k) ==
  LET j == job[k] IN
  /\ j.pc = "miss"
  /\ IF CanMiss(j.id, j.attempt, 0)
     THEN Write(j.id, [row[j.id] EXCEPT !.miss = @ + 1])
     ELSE UNCHANGED row
  /\ JobDone(k)
  /\ UNCHANGED <<key, enabled, call, exposed, leaked, landed, expired>>

(* Slip: a reservation without a signature is given back.                  *)
JobCharge_GivesBack(k) ==
  LET j == job[k] IN
  /\ j.pc = "charge"
  /\ IF CanRelease(j.id, j.attempt)
     THEN Write(j.id, WithStatus(j.id, "released")) /\ JobDone(k)
     ELSE JobGoto(k, "reread") /\ UNCHANGED row
  /\ UNCHANGED <<key, enabled, call, exposed, leaked, landed, expired>>

(* persistAmbiguousCharge; a lost transition is looked into before the     *)
(* breaker is blamed.                                                      *)
JobCharge(k) ==
  LET j == job[k] IN
  /\ j.pc = "charge"
  /\ IF CanCharge(j.id, j.attempt)
     THEN Write(j.id, WithStatus(j.id, "charged_unknown")) /\ JobDone(k)
     ELSE JobGoto(k, "reread") /\ UNCHANGED row
  /\ UNCHANGED <<key, enabled, call, exposed, leaked, landed, expired>>

ConcurrentlyResolved(i, a) ==
  row[i].attempt # a \/ row[i].status \in {"charged_unknown", "committed", "released"}

JobReread(k) ==
  /\ job[k].pc = "reread"
  /\ enabled' = (enabled /\ ConcurrentlyResolved(job[k].id, job[k].attempt))
  /\ JobDone(k)
  /\ UNCHANGED <<row, key, call, exposed, leaked, landed, expired>>

JobAbort(k) ==
  /\ job[k].pc # "idle"
  /\ JobFails(k)
  /\ UNCHANGED <<row, key, call, exposed, leaked, landed, expired>>

-----------------------------------------------------------------------------
(* External: the chain, operators, and Redis keys that expire or are lost. *)

Land(m) ==
  /\ m \in (exposed \cup leaked) \ expired
  /\ landed' = landed \cup {m}
  /\ UNCHANGED <<row, key, enabled, call, job, exposed, leaked, expired>>

Expire(m) ==
  /\ expired' = expired \cup {m}
  /\ UNCHANGED <<row, key, enabled, call, job, exposed, leaked, landed>>

SetEnabled(e) ==
  /\ enabled' = e
  /\ UNCHANGED <<row, key, call, job, exposed, leaked, landed, expired>>

ForgetKey(i, a) ==
  /\ SetKey(i, a, "none")
  /\ UNCHANGED <<row, enabled, call, job, exposed, leaked, landed, expired>>

-----------------------------------------------------------------------------
CallerStep(c) ==
  \/ ResolvePolicies(c) \/ CreateReservation(c) \/ ReadExisting(c)
  \/ ReopenReleasedReservation(c)
  \/ Admitted(c) \/ Denied(c) \/ StalePolicy(c) \/ DuplicateReserve(c)
  \/ Unreserve(c) \/ Unmark(c)
  \/ ProviderSign(c) \/ ProviderSend(c) \/ MarkAmbiguous(c) \/ MarkSigned(c)
  \/ MarkSubmitted(c) \/ DurablyAdvanced(c)
  \/ OwnedMarkSigned(c) \/ OwnedPersist(c) \/ OwnedStart(c) \/ OwnedMarkSubmitted(c)
  \/ Broadcast(c)
  \/ Release(c) \/ Refund(c) \/ MarkRefunded(c)
  \/ Abort(c)

JobStep(k) ==
  \/ LookupTransaction(k) \/ JobCommit(k) \/ JobSettle(k) \/ JobMark(k) \/ JobMiss(k)
  \/ JobCharge(k) \/ JobReread(k) \/ JobAbort(k)

Next ==
  \/ \E c \in Callers :
       CallerStep(c) \/ \E i \in Ids : \/ \E op \in OpsOf[i] : Begin(c, i, op)
                                       \/ "sign" \in OpsOf[i] /\ ReplaySign(c, i)
  \/ \E k \in Jobs : JobStep(k) \/ \E i \in Ids : ListCandidate(k, i)
  \/ \E m \in Messages : Land(m) \/ Expire(m)
  \/ \E e \in BOOLEAN : SetEnabled(e)
  \/ \E i \in Ids, a \in Attempts : ForgetKey(i, a)

Spec == Init /\ [][Next]_vars

(* Cron keeps starting passes, a pass works through all its candidates,    *)
(* no step of a pass fails for ever, and every blockhash runs out.         *)
(* Requests promise nothing: each may hang or die anywhere.                *)
Fairness ==
  /\ \A k \in Jobs :
       /\ \A i \in Ids : SF_vars(ListCandidate(k, i))
       /\ SF_vars(LookupTransaction(k)) /\ SF_vars(JobCommit(k)) /\ SF_vars(JobMiss(k))
       /\ SF_vars(JobCharge(k)) /\ SF_vars(JobMark(k))
       /\ SF_vars(JobSettle(k) /\ JobGoto(k, "mark"))
       /\ WF_vars(JobReread(k))
  /\ \A m \in Messages : WF_vars(Expire(m))

FairSpec == Spec /\ Fairness

-----------------------------------------------------------------------------
(* What must hold.                                                         *)

Pcs == {"idle", "policies", "create", "existing", "reopen", "budget", "unreserve",
        "unmark", "provider", "ambiguous", "signed", "submit", "advanced", "persist",
        "start", "broadcast", "release", "unbroadcast", "refund", "mark"}
JobPcs == {"idle", "settle", "charge", "lookup", "commit", "mark", "miss", "reread"}

(* Every record of the row, the key, the requests and the passes has its   *)
(* type.                                                                   *)
TypeOK ==
  /\ row \in [Ids -> Rows]
  /\ key \in [Ids -> [Attempts -> {"none", "held", "settled"}]]
  /\ enabled \in BOOLEAN
  /\ call \in [Callers -> [pc : Pcs, id : Ids \cup {None}, op : Ops, attempt : 0..MaxAttempt,
                           round : {1, 2}, dup : BOOLEAN]]
  /\ job \in [Jobs -> [pc : JobPcs, id : Ids \cup {None}, attempt : 0..MaxAttempt,
                       sig : Messages \cup {NoSig}, miss : 0..1]]
  /\ exposed \subseteq Messages /\ leaked \subseteq Messages
  /\ landed \subseteq Messages /\ expired \subseteq Messages

(* From the insert or the reopening on, until it gives the row back, a     *)
(* request owns the attempt.                                               *)
Owning(c) ==
  \/ call[c].pc \in {"budget", "unreserve", "provider", "ambiguous", "signed", "submit",
                     "advanced", "persist", "start", "broadcast", "release", "unbroadcast"}
  \/ call[c].pc = "policies" /\ call[c].round = 2

(* No two requests work on the same reservation, so a duplicate never      *)
(* calls the provider while the first is under way.                        *)
SoleOwner ==
  \A c, d \in Callers : Owning(c) /\ Owning(d) /\ call[c].id = call[d].id => c = d

(* An owner is never overtaken: reconciliation may charge or commit its    *)
(* reservation, but nobody releases it or opens another attempt.           *)
OwnerIsCurrent ==
  \A c \in Callers : Owning(c) =>
    /\ row[call[c].id].attempt = call[c].attempt
    /\ row[call[c].id].status \notin {"absent", "released"}

Charged(i) == row[i].status \notin {"absent", "released"}

(* Every signed transaction that left the service is charged to a          *)
(* reservation, whatever failed, whoever signed it twice and whenever      *)
(* reconciliation came by.  What signAndSend's own retries let out and     *)
(* then report as rejected (`leaked`) is given back: that is the code's    *)
(* one gap, and the only way of leaving the service that is excepted.      *)
ExposedIsCharged ==
  \A m \in exposed : \E i \in Ids : MessageOf[i] = m /\ Charged(i)

(* Redis is settled only for an attempt that is terminal in Postgres       *)
(* (settle's detectMissingReservation), even from a stale candidate.       *)
SettledAfterTerminal ==
  \A i \in Ids, a \in Attempts : key[i][a] = "settled" =>
    row[i].attempt > a \/ At(i, a, {"committed", "released"})

(* No reservation stays open for ever: even when its request died, it is   *)
(* committed, given back or charged as unknown.                            *)
EventuallyResolved ==
  \A i \in Ids : row[i].status \in Live ~> row[i].status \notin Live

(* A terminal reservation is eventually settled in Redis as well.          *)
EventuallySettled ==
  \A i \in Ids : row[i].status \in {"committed", "released"} ~> row[i].settled

(* The rows implement the abstract ledger, for all that leaves the service *)
(* but what signAndSend leaks in its own retries.                          *)
Phase(r) ==
  CASE r.status = "absent" -> "none"
    [] r.status \in Live -> "held"
    [] r.status \in {"committed", "charged_unknown"} -> "charged"
    [] r.status = "released" -> "refunded"

Ledger == INSTANCE SponsorshipLedger
            WITH phase <- [i \in Ids |-> Phase(row[i])],
                 attempt <- [i \in Ids |-> row[i].attempt]

ImplementsLedger == Ledger!LedgerSpec
=============================================================================
