-------------------------- MODULE PaymentTransfers --------------------------
(***************************************************************************)
(* Payment transfers from their row to the chain and back: the request     *)
(* that signs, marks, sends and waits; the chunks of one transfer batch,   *)
(* with their recipients; overlapping passes of the tracking job; and the  *)
(* chain.                                                                  *)
(*                                                                         *)
(* A transfer has at most one signed transaction, so it stands for its     *)
(* signature.  Rows without the signed outbox, written before it existed,  *)
(* are left out.  A statement or transaction is one step (the settlement   *)
(* of a chunk locks the transfer, its recipients and the batch), and its   *)
(* reply may be lost.                                                      *)
(***************************************************************************)
EXTENDS Naturals, FiniteSets

CONSTANTS
  Transfers,      \* payment_transfers rows
  Chunks,         \* those that are chunks of the batch
  Jobs,           \* passes of trackPendingTransfers that may overlap
  NoTransfer

ASSUME TransferAssumption ==
  Chunks \subseteq Transfers /\ NoTransfer \notin Transfers

VARIABLES
  status,     \* payment_transfers.status
  signed,     \* signature, signed_transaction and last_valid_block_height are set
  started,    \* submission_started_at is set
  aged,       \* updated_at is more than five minutes old
  rec,        \* status of the recipients linked to a chunk
  batch,      \* payment_transfer_batches.status
  req,        \* progress of the request that executes a transfer
  breq,       \* progress of the request that executes the batch
  job,        \* what a pass holds: a row it listed and what it learned
  broadcast,  \* a node has the transaction
  level,      \* commitment of the transaction on chain
  err,        \* it failed there
  expired,    \* the block height is past last_valid_block_height
  overtaken   \* history: a verdict on the row rests on what was no longer so

row == <<status, signed, started, aged>>
batchVars == <<rec, batch, breq>>
chain == <<broadcast, level, err, expired>>
vars == <<row, batchVars, req, job, chain, overtaken>>

Settled == {"confirmed", "finalized", "failed"}
Levels == {"none", "processed", "confirmed", "finalized"}
Running == {"created", "signed", "started", "sent", "seen", "failing"}
Requests == {"idle", "rejected", "unresolved", "done", "dead"} \cup Running
RecStatuses == {"none", "pending", "processing", "confirmed", "failed"}
Idle == [pc |-> "idle", t |-> NoTransfer, signed |-> FALSE, started |-> FALSE,
         verdict |-> "none"]

TypeOK ==
  /\ status \in [Transfers -> {"absent", "processing"} \cup Settled]
  /\ signed \in [Transfers -> BOOLEAN] /\ started \in [Transfers -> BOOLEAN]
  /\ aged \in [Transfers -> BOOLEAN] /\ rec \in [Chunks -> RecStatuses]
  /\ batch \in {"absent", "processing", "confirmed", "partially_failed", "failed"}
  /\ req \in [Transfers -> Requests]
  /\ breq \in {"idle", "running", "finishing", "done", "dead"}
  /\ job \in [Jobs -> [pc : {"idle", "listed", "missed", "archive", "verdict"},
                       t : Transfers \cup {NoTransfer}, signed : BOOLEAN,
                       started : BOOLEAN, verdict : {"none"} \cup Settled]]
  /\ broadcast \in [Transfers -> BOOLEAN] /\ level \in [Transfers -> Levels]
  /\ err \in [Transfers -> BOOLEAN] /\ expired \in [Transfers -> BOOLEAN]
  /\ overtaken \in [Transfers -> BOOLEAN]

Init ==
  /\ status = [t \in Transfers |-> "absent"] /\ signed = [t \in Transfers |-> FALSE]
  /\ started = [t \in Transfers |-> FALSE] /\ aged = [t \in Transfers |-> FALSE]
  /\ rec = [t \in Chunks |-> "none"] /\ batch = "absent" /\ breq = "idle"
  /\ req = [t \in Transfers |-> "idle"] /\ job = [j \in Jobs |-> Idle]
  /\ broadcast = [t \in Transfers |-> FALSE] /\ level = [t \in Transfers |-> "none"]
  /\ err = [t \in Transfers |-> FALSE] /\ expired = [t \in Transfers |-> FALSE]
  /\ overtaken = [t \in Transfers |-> FALSE]

-----------------------------------------------------------------------------
(* Writes both sides share *)

deriveTransferBatchStatus(statuses) ==
  LET all == {statuses[t] : t \in DOMAIN statuses} IN
  IF all \cap {"pending", "processing"} # {} THEN "processing"
  ELSE IF all \subseteq {"confirmed"} THEN "confirmed"
  ELSE IF "confirmed" \in all THEN "partially_failed" ELSE "failed"

(* The row is still processing and, for a chunk, has recipients linked:    *)
(* settleTransferBatch rolls back when it has none.                        *)
Settleable(t) == status[t] = "processing" /\ (t \in Chunks => rec[t] = "processing")

(* Slip: the status is not expected to be processing.                       *)
UpdateTerminalTransfer_Unguarded(t, verdict) ==
  IF status[t] # "absent"
  THEN /\ status' = [status EXCEPT ![t] = verdict]
       /\ aged' = [aged EXCEPT ![t] = FALSE]
       /\ IF t \in Chunks
          THEN /\ rec' = [rec EXCEPT ![t] = IF verdict = "failed" THEN "failed" ELSE "confirmed"]
               /\ batch' = deriveTransferBatchStatus(rec')
          ELSE UNCHANGED <<rec, batch>>
  ELSE UNCHANGED <<status, aged, rec, batch>>

(* Slip: the batch is left as it is.                                        *)
UpdateTerminalTransfer_NoRecompute(t, verdict) ==
  IF Settleable(t)
  THEN /\ status' = [status EXCEPT ![t] = verdict]
       /\ aged' = [aged EXCEPT ![t] = FALSE]
       /\ IF t \in Chunks
          THEN /\ rec' = [rec EXCEPT ![t] = IF verdict = "failed" THEN "failed" ELSE "confirmed"]
               /\ batch' = batch
          ELSE UNCHANGED <<rec, batch>>
  ELSE UNCHANGED <<status, aged, rec, batch>>

(* updateTransfer with expectedStatus "processing", and settleTransferBatch *)
(* for a chunk: claim the row, settle its recipients, recompute the batch,  *)
(* or leave everything alone.                                               *)
UpdateTerminalTransfer(t, verdict) ==
  IF Settleable(t)
  THEN /\ status' = [status EXCEPT ![t] = verdict]
       /\ aged' = [aged EXCEPT ![t] = FALSE]
       /\ IF t \in Chunks
          THEN /\ rec' = [rec EXCEPT ![t] = IF verdict = "failed" THEN "failed" ELSE "confirmed"]
               /\ batch' = deriveTransferBatchStatus(rec')
          ELSE UNCHANGED <<rec, batch>>
  ELSE UNCHANGED <<status, aged, rec, batch>>

-----------------------------------------------------------------------------
(* Requests *)

CreateTransferBatch ==
  /\ breq = "idle" /\ Chunks # {}
  /\ batch' = "processing" /\ rec' = [t \in Chunks |-> "pending"]
  /\ breq' = "running"
  /\ UNCHANGED <<row, req, job, chain, overtaken>>

(* A chunk inserts its transfer and links its recipients in one            *)
(* transaction; when that throws, the chunk is rejected, without a row or, *)
(* if only the reply of its COMMIT was lost, with one.                     *)
CreateTransfer(t) ==
  /\ req[t] = "idle" /\ (t \in Chunks => breq = "running")
  /\ \/ /\ status' = [status EXCEPT ![t] = "processing"]
        /\ rec' = IF t \in Chunks THEN [rec EXCEPT ![t] = "processing"] ELSE rec
        /\ req' = [req EXCEPT ![t] = "created"]
     \/ /\ t \in Chunks /\ req' = [req EXCEPT ![t] = "rejected"]
        /\ \/ UNCHANGED <<status, rec>>
           \/ /\ status' = [status EXCEPT ![t] = "processing"]
              /\ rec' = [rec EXCEPT ![t] = "processing"]
  /\ UNCHANGED <<signed, started, aged, batch, breq, job, chain, overtaken>>

(* What follows the creation of a chunk throws before anything is signed,  *)
(* or its failure cannot be recorded: the row is left to the tracking job. *)
ChunkThrows(t) ==
  /\ t \in Chunks /\ req[t] \in {"created", "failing"}
  /\ req' = [req EXCEPT ![t] = "unresolved"]
  /\ UNCHANGED <<row, batchVars, job, chain, overtaken>>

(* Simulation, signing or the sponsorship budget refuses. *)
FailBeforeStart(t) ==
  /\ req[t] \in {"created", "signed"}
  /\ req' = [req EXCEPT ![t] = "failing"]
  /\ UNCHANGED <<row, batchVars, job, chain, overtaken>>

PersistSigned(t) ==
  /\ req[t] = "created"
  /\ IF status[t] = "processing"
     THEN /\ signed' = [signed EXCEPT ![t] = TRUE] /\ aged' = [aged EXCEPT ![t] = FALSE]
          /\ \E r \in {"signed", "failing"} : req' = [req EXCEPT ![t] = r]
     ELSE req' = [req EXCEPT ![t] = "failing"] /\ UNCHANGED <<signed, aged>>
  /\ UNCHANGED <<status, started, batchVars, job, chain, overtaken>>

(* When the reply is lost, hasStarted reads the marker back: a marker that *)
(* is set, or cannot be read, leaves the row to the tracking job.          *)
MarkStarted(t) ==
  /\ req[t] = "signed"
  /\ IF status[t] = "processing"
     THEN /\ started' = [started EXCEPT ![t] = TRUE] /\ aged' = [aged EXCEPT ![t] = FALSE]
          /\ \E r \in {"started", "unresolved"} : req' = [req EXCEPT ![t] = r]
     ELSE req' = [req EXCEPT ![t] = "failing"] /\ UNCHANGED <<started, aged>>
  /\ UNCHANGED <<status, signed, batchVars, job, chain, overtaken>>

(* The first answer of the node is a definite preflight refusal, or it     *)
(* takes the transaction, or nobody knows: an error after a transient      *)
(* failure, or a failure of the sponsorship accounting, proves nothing.    *)
SendTransaction(t) ==
  /\ req[t] = "started"
  /\ \/ req' = [req EXCEPT ![t] = "failing"] /\ UNCHANGED broadcast
     \/ /\ broadcast' = [broadcast EXCEPT ![t] = TRUE]
        /\ \E r \in {"sent", "unresolved"} : req' = [req EXCEPT ![t] = r]
     \/ req' = [req EXCEPT ![t] = "unresolved"] /\ UNCHANGED broadcast
  /\ UNCHANGED <<row, batchVars, job, level, err, expired, overtaken>>

(* confirmTransaction: an error at any commitment is a verdict; a chunk    *)
(* does not wait, and the wait may time out.                               *)
ConfirmTransaction(t) ==
  /\ req[t] = "sent"
  /\ \/ /\ t \notin Chunks /\ level[t] # "none"
        /\ \/ err[t] /\ req' = [req EXCEPT ![t] = "failing"]
           \/ /\ ~err[t] /\ level[t] # "processed"
              /\ req' = [req EXCEPT ![t] = "seen"]
     \/ req' = [req EXCEPT ![t] = "unresolved"]
  /\ UNCHANGED <<row, batchVars, job, chain, overtaken>>

UpdateTransferRecord(t) ==
  /\ req[t] \in {"seen", "failing"}
  /\ UpdateTerminalTransfer(t, IF req[t] = "seen" THEN "confirmed" ELSE "failed")
  /\ req' = [req EXCEPT ![t] = "done"]
  /\ UNCHANGED <<signed, started, breq, job, chain, overtaken>>

(* All chunks have settled one way or another. *)
ChunksDone ==
  /\ breq = "running"
  /\ \A t \in Chunks : req[t] \in {"rejected", "unresolved", "done"}
  /\ breq' = "finishing"
  /\ UNCHANGED <<row, rec, batch, req, job, chain, overtaken>>

(* Slip: the recipients of every chunk that is left open are failed.       *)
FailUnlinkedRecipients_AlsoUnresolved(t) ==
  /\ breq = "finishing" /\ req[t] \in {"rejected", "unresolved"}
  /\ rec' = [rec EXCEPT ![t] = "failed"]
  /\ UNCHANGED <<row, batch, breq, req, job, chain, overtaken>>

(* failUnlinkedRecipients: whom the request did not see linked, by its own *)
(* record.  The UPDATE asks neither for a status nor for a missing link,   *)
(* and clears the link, so a chunk that was committed after all loses its  *)
(* recipients.                                                             *)
FailUnlinkedRecipients(t) ==
  /\ breq = "finishing" /\ req[t] = "rejected"
  /\ rec' = [rec EXCEPT ![t] = "failed"]
  /\ UNCHANGED <<row, batch, breq, req, job, chain, overtaken>>

RecomputeTransferBatchStatus ==
  /\ breq = "finishing"
  /\ \A t \in Chunks : req[t] = "rejected" => rec[t] = "failed"
  /\ batch' = deriveTransferBatchStatus(rec)
  /\ breq' = "done"
  /\ UNCHANGED <<row, rec, req, job, chain, overtaken>>

(* The process stops; a batch takes all its chunks with it. *)
Crash(t) ==
  /\ t \notin Chunks /\ req[t] \in Running
  /\ req' = [req EXCEPT ![t] = "dead"]
  /\ UNCHANGED <<row, batchVars, job, chain, overtaken>>

CrashBatch ==
  /\ breq \in {"running", "finishing"}
  /\ breq' = "dead"
  /\ req' = [t \in Transfers |-> IF t \in Chunks /\ req[t] \in Running \cup {"idle"}
                                 THEN "dead" ELSE req[t]]
  /\ UNCHANGED <<row, rec, batch, job, chain, overtaken>>

-----------------------------------------------------------------------------
(* The tracking job.  A pass works through the rows it listed; here a pass *)
(* is followed for one row at a time.                                      *)

Holds(j, record) == job' = [job EXCEPT ![j] = record]
Verdict(j, v) == Holds(j, [job[j] EXCEPT !.pc = "verdict", !.verdict = v]) /\ UNCHANGED aged
Continue(j, pc) == Holds(j, [job[j] EXCEPT !.pc = pc]) /\ UNCHANGED aged

(* keepStartedSubmissionForReconciliation stamps the row and leaves it. *)
Rotate(j) ==
  /\ Holds(j, Idle)
  /\ aged' = [aged EXCEPT ![job[j].t] = @ /\ status[job[j].t] # "processing"]

(* recoverStuckProcessingTransfers lists unsigned rows that stood still. *)
ListStuck(j, t) ==
  /\ job[j] = Idle /\ status[t] = "processing" /\ ~signed[t] /\ aged[t]
  /\ Holds(j, [pc |-> "verdict", t |-> t, signed |-> FALSE,
              started |-> started[t], verdict |-> "failed"])
  /\ UNCHANGED <<row, batchVars, req, chain, overtaken>>

(* Slip: rows that were signed and never started are not listed.            *)
ListSigned_StartedOnly(j, t) ==
  /\ job[j] = Idle /\ status[t] = "processing" /\ signed[t] /\ started[t]
  /\ Holds(j, [pc |-> "listed", t |-> t, signed |-> TRUE,
              started |-> started[t], verdict |-> "none"])
  /\ UNCHANGED <<row, batchVars, req, chain, overtaken>>

ListSigned(j, t) ==
  /\ job[j] = Idle /\ status[t] = "processing" /\ signed[t]
  /\ Holds(j, [pc |-> "listed", t |-> t, signed |-> TRUE,
              started |-> started[t], verdict |-> "none"])
  /\ UNCHANGED <<row, batchVars, req, chain, overtaken>>

(* Slip: a processed transaction counts as confirmed.                       *)
OnChainVerdict_Processed(j) ==
  LET t == job[j].t IN
  /\ level[t] # "none"
  /\ IF err[t] THEN Verdict(j, "failed")
     ELSE IF TRUE THEN Verdict(j, IF level[t] = "processed" THEN "confirmed" ELSE level[t])
     ELSE Rotate(j)

(* applyOnChainVerdict on a status the node returned; a processed one      *)
(* without an error is not a verdict.                                      *)
OnChainVerdict(j) ==
  LET t == job[j].t IN
  /\ level[t] # "none"
  /\ IF err[t] THEN Verdict(j, "failed")
     ELSE IF level[t] \in {"confirmed", "finalized"} THEN Verdict(j, level[t])
     ELSE Rotate(j)

(* The node's recent cache; it may miss what the ledger has. *)
GetSignatureStatuses(j) ==
  /\ job[j].pc = "listed"
  /\ OnChainVerdict(j) \/ Continue(j, "missed")
  /\ UNCHANGED <<status, signed, started, batchVars, req, chain, overtaken>>

(* Past its block height, an unstarted transaction is failed; a started    *)
(* one is looked up in the archive.  Otherwise the row is kept and rotated. *)
GetBlockHeight(j) ==
  LET t == job[j].t IN
  /\ job[j].pc = "missed"
  /\ \/ expired[t] /\ ~job[j].started /\ Verdict(j, "failed")
     \/ expired[t] /\ job[j].started /\ Continue(j, "archive")
     \/ ~expired[t] /\ Rotate(j)
  /\ UNCHANGED <<status, signed, started, batchVars, req, chain, overtaken>>

(* A started transaction that the archive does not have stays processing. *)
GetArchivedStatuses(j) ==
  LET t == job[j].t IN
  /\ job[j].pc = "archive"
  /\ OnChainVerdict(j) \/ (level[t] = "none" /\ Rotate(j))
  /\ UNCHANGED <<status, signed, started, batchVars, req, chain, overtaken>>

ApplyVerdict(j) ==
  LET t == job[j].t IN
  /\ job[j].pc = "verdict"
  /\ UpdateTerminalTransfer(t, job[j].verdict)
  /\ overtaken' = [overtaken EXCEPT ![t] =
       @ \/ job[j].signed # signed[t] \/ job[j].started # started[t]]
  /\ Holds(j, Idle)
  /\ UNCHANGED <<signed, started, breq, req, chain>>

(* Slip: what the archive lacks has failed.                                 *)
HistoryUnavailable_FailsAbsent(j) ==
  /\ job[j].pc \in {"missed", "archive"}
  /\ IF job[j].pc = "archive" THEN Verdict(j, "failed") ELSE Rotate(j)
  /\ UNCHANGED <<status, signed, started, batchVars, req, chain, overtaken>>

(* getBlockHeight or the archive does not answer, or the archive of this   *)
(* node lacks the transaction: absence proves nothing once started.         *)
HistoryUnavailable(j) ==
  /\ job[j].pc \in {"missed", "archive"}
  /\ Rotate(j)
  /\ UNCHANGED <<status, signed, started, batchVars, req, chain, overtaken>>

(* The pass stops, or the recent cache or the database does not answer. *)
JobGivesUp(j) ==
  /\ job[j] # Idle
  /\ Holds(j, Idle)
  /\ UNCHANGED <<row, batchVars, req, chain, overtaken>>

(* finalizeConfirmedTransfers: upgrade only, guarded on still confirmed. *)
AdvanceConfirmedTransfer(t) ==
  /\ status[t] = "confirmed" /\ signed[t] /\ level[t] = "finalized" /\ ~err[t]
  /\ status' = [status EXCEPT ![t] = "finalized"]
  /\ UNCHANGED <<signed, started, aged, batchVars, req, job, chain, overtaken>>

-----------------------------------------------------------------------------
(* Time and the chain *)

Ages(t) ==
  /\ status[t] = "processing" /\ ~aged[t]
  /\ aged' = [aged EXCEPT ![t] = TRUE]
  /\ UNCHANGED <<status, signed, started, batchVars, req, job, chain, overtaken>>

Expires(t) ==
  /\ signed[t] /\ ~expired[t]
  /\ expired' = [expired EXCEPT ![t] = TRUE]
  /\ UNCHANGED <<row, batchVars, req, job, broadcast, level, err, overtaken>>

Lands(t) ==
  /\ broadcast[t] /\ ~expired[t] /\ level[t] = "none"
  /\ level' = [level EXCEPT ![t] = "processed"]
  /\ \E e \in BOOLEAN : err' = [err EXCEPT ![t] = e]
  /\ UNCHANGED <<row, batchVars, req, job, broadcast, expired, overtaken>>

Deepens(t) ==
  /\ level[t] \in {"processed", "confirmed"}
  /\ level' = [level EXCEPT ![t] = IF @ = "processed" THEN "confirmed" ELSE "finalized"]
  /\ UNCHANGED <<row, batchVars, req, job, broadcast, err, expired, overtaken>>

ForkDropped(t) ==
  /\ level[t] = "processed"
  /\ level' = [level EXCEPT ![t] = "none"] /\ err' = [err EXCEPT ![t] = FALSE]
  /\ overtaken' = [overtaken EXCEPT ![t] = TRUE]
  /\ UNCHANGED <<row, batchVars, req, job, broadcast, expired>>

RequestStep(t) ==
  \/ CreateTransfer(t) \/ FailBeforeStart(t) \/ PersistSigned(t) \/ MarkStarted(t)
  \/ SendTransaction(t) \/ ConfirmTransaction(t) \/ UpdateTransferRecord(t)
  \/ ChunkThrows(t)

JobStep(j) ==
  GetSignatureStatuses(j) \/ GetBlockHeight(j) \/ GetArchivedStatuses(j) \/ ApplyVerdict(j)

Next ==
  \/ CreateTransferBatch \/ ChunksDone \/ RecomputeTransferBatchStatus \/ CrashBatch
  \/ \E t \in Chunks : FailUnlinkedRecipients(t)
  \/ \E t \in Transfers :
       \/ RequestStep(t) \/ Crash(t) \/ AdvanceConfirmedTransfer(t)
       \/ Ages(t) \/ Expires(t) \/ Lands(t) \/ Deepens(t) \/ ForkDropped(t)
       \/ \E j \in Jobs : ListStuck(j, t) \/ ListSigned(j, t)
  \/ \E j \in Jobs : JobStep(j) \/ HistoryUnavailable(j) \/ JobGivesUp(j)

Spec == Init /\ [][Next]_vars

(* Time passes and blocks are built.  The job runs every minute over the   *)
(* least recently updated rows, rotates what it cannot resolve, and its    *)
(* calls succeed again and again.                                          *)
Fairness ==
  /\ \A t \in Transfers :
       /\ WF_vars(Ages(t)) /\ WF_vars(Expires(t)) /\ WF_vars(Deepens(t))
       /\ WF_vars(AdvanceConfirmedTransfer(t))
       /\ SF_vars(\E j \in Jobs : ListStuck(j, t) \/ ListSigned(j, t))
  /\ SF_vars(\E j \in Jobs : GetSignatureStatuses(j))
  /\ SF_vars(\E j \in Jobs : GetBlockHeight(j))
  /\ SF_vars(\E j \in Jobs : GetArchivedStatuses(j))
  /\ SF_vars(\E j \in Jobs : ApplyVerdict(j))

FairSpec == Spec /\ Fairness

-----------------------------------------------------------------------------
(* Correctness *)

(* A transfer is reported confirmed or finalized only when the chain has   *)
(* it, without an error, at that commitment or deeper: a processed one may *)
(* be dropped with its fork.                                               *)
ConfirmedIsOnChain ==
  \A t \in Transfers :
    /\ status[t] = "confirmed" => level[t] \in {"confirmed", "finalized"} /\ ~err[t]
    /\ status[t] = "finalized" => level[t] = "finalized" /\ ~err[t]

(* A transfer is not reported failed while its funds moved or may still    *)
(* move (applyOnChainVerdict's "durable proof that broadcast never         *)
(* started"), with two exceptions the code has no answer to: the request   *)
(* signed or started the row after the pass listed it, or the error was    *)
(* seen on a fork that is gone.                                            *)
FailedDidNotMove ==
  \A t \in Transfers : status[t] = "failed" /\ ~overtaken[t] =>
    err[t] \/ (level[t] = "none" /\ ~(broadcast[t] /\ ~expired[t]))

(* Late observations of the request or of an overlapping pass never change *)
(* a settled row, except from confirmed to finalized.                      *)
SettledStays ==
  [][\A t \in Transfers :
       status[t] \in Settled => \/ status'[t] = status[t]
                                \/ status[t] = "confirmed" /\ status'[t] = "finalized"]_vars

(* A chunk that was committed while its request saw it fail, and whose     *)
(* recipients the request then failed and unlinked: nobody can settle it,  *)
(* and nothing was or will be signed for it.                               *)
Orphan(t) == rec[t] = "failed" /\ ~signed[t] /\ req[t] = "rejected"

(* Recipients and their chunk agree, whoever settled the chunk and in      *)
(* whatever order requests, passes and lost replies come: recipients of an *)
(* open chunk are open, or nothing was and will be paid for them; those of *)
(* a settled one have its outcome.                                         *)
RecipientsFollowChunk ==
  \A t \in Chunks :
    CASE status[t] = "absent" -> rec[t] \in {"none", "pending", "failed"}
      [] status[t] = "processing" -> rec[t] = "processing" \/ Orphan(t)
      [] status[t] = "failed" -> rec[t] = "failed"
      [] OTHER -> rec[t] = "confirmed"

(* The batch says what its recipients say, while its chunks settle in any  *)
(* order from requests and passes, unless its request stopped before the   *)
(* final recompute.                                                        *)
BatchIsDerived ==
  breq \in {"running", "done"} => batch = deriveTransferBatchStatus(rec)

(* What landed is recorded, and what never started does not stay pending,  *)
(* whatever became of the request.                                         *)
OutcomeIsRecorded ==
  \A t \in Transfers :
    (status[t] = "processing" /\ (level[t] = "finalized" \/ ~started[t]))
      ~> (status[t] \in Settled \/ (started[t] /\ level[t] = "none"))
=============================================================================
