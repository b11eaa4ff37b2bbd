----------------------- MODULE PaymentTransfersProofs -----------------------
(***************************************************************************)
(* What the rows of transfers, recipients and batches say of the chain,    *)
(* for any transfers, chunks and overlapping passes of the tracking job.   *)
(***************************************************************************)
EXTENDS PaymentTransfers, TLAPS

(* A pass that is not idle holds a row, and a verdict where it has one. *)
Holding ==
  \A j \in Jobs : /\ job[j].pc # "idle" => job[j].t \in Transfers
                  /\ job[j].pc = "idle" => job[j] = Idle
                  /\ job[j].pc = "verdict" => job[j].verdict \in Settled

(* The row is written when its request begins. *)
Fresh == \A t \in Transfers : req[t] = "idle" => status[t] = "absent"

(* Signed before marked, marked before sent, sent before landed. *)
Marks ==
  \A t \in Transfers : /\ started[t] \/ req[t] = "signed" => signed[t]
                       /\ broadcast[t] \/ req[t] \in {"started", "sent", "seen"} => started[t]
                       /\ level[t] # "none" => broadcast[t]
                       /\ err[t] => level[t] # "none"
                       /\ req[t] \in {"idle", "created", "signed", "started"} => ~broadcast[t]

Deep(t) == level[t] \in {"confirmed", "finalized"} /\ ~err[t]

(* What the request or a pass is about to write of a success. *)
Successes ==
  /\ \A t \in Transfers : req[t] = "seen" => Deep(t)
  /\ \A j \in Jobs : job[j].pc = "verdict" =>
       /\ job[j].verdict = "confirmed" => Deep(job[j].t)
       /\ job[j].verdict = "finalized" => Deep(job[j].t) /\ level[job[j].t] = "finalized"

(* What they are about to write of a failure. *)
Failures ==
  /\ \A t \in Transfers : req[t] = "failing" => err[t] \/ overtaken[t] \/ ~broadcast[t]
  /\ \A j \in Jobs : job[j].pc = "verdict" /\ job[j].verdict = "failed" =>
       err[job[j].t] \/ overtaken[job[j].t] \/ ~job[j].started

(* FailedDidNotMove, strengthened: nothing is sent any more. *)
FailedUnsent ==
  \A t \in Transfers : status[t] = "failed" /\ ~overtaken[t] =>
    err[t] \/ (~broadcast[t] /\ req[t] # "started")

(* What is not begun, or was rejected, is never signed. *)
Unsigned == \A t \in Transfers : req[t] \in {"idle", "rejected"} => ~signed[t]

(* Chunks are executed by the request that created the batch. *)
BatchRequest ==
  \A t \in Chunks : /\ breq = "idle" => status[t] = "absent"
                    /\ breq = "running" /\ status[t] = "absent" => rec[t] = "pending"

-----------------------------------------------------------------------------
(* Types *)

JobRecords == [pc : {"idle", "listed", "missed", "archive", "verdict"},
               t : Transfers \cup {NoTransfer}, signed : BOOLEAN,
               started : BOOLEAN, verdict : {"none"} \cup Settled]

LEMMA IdleType == Idle \in JobRecords
BY DEF Idle, JobRecords

LEMMA TypesInit == Init => TypeOK
BY IdleType DEF Init, TypeOK, Levels, Requests, Running, RecStatuses, JobRecords

LEMMA DerivedType ==
  ASSUME NEW r PROVE deriveTransferBatchStatus(r) \in {"processing", "confirmed", "partially_failed", "failed"}
BY DEF deriveTransferBatchStatus

LEMMA TerminalType ==
  ASSUME TypeOK, NEW t \in Transfers, NEW v \in Settled, UpdateTerminalTransfer(t, v)
  PROVE  /\ status' \in [Transfers -> {"absent", "processing"} \cup Settled]
         /\ aged' \in [Transfers -> BOOLEAN] /\ rec' \in [Chunks -> RecStatuses]
         /\ batch' \in {"absent", "processing", "confirmed", "partially_failed", "failed"}
<1>1. CASE ~Settleable(t)
  BY <1>1 DEF UpdateTerminalTransfer, TypeOK
<1>2. CASE Settleable(t)
  <2>1. status' \in [Transfers -> {"absent", "processing"} \cup Settled] /\ aged' \in [Transfers -> BOOLEAN]
    BY <1>2 DEF UpdateTerminalTransfer, TypeOK
  <2>2. CASE t \in Chunks
    <3>1. batch' = deriveTransferBatchStatus(rec')
          /\ rec' = [rec EXCEPT ![t] = IF v = "failed" THEN "failed" ELSE "confirmed"]
      BY <1>2, <2>2 DEF UpdateTerminalTransfer
    <3>2. QED BY <2>1, <2>2, <3>1, DerivedType DEF TypeOK, RecStatuses
  <2>3. CASE t \notin Chunks
    BY <1>2, <2>1, <2>3 DEF UpdateTerminalTransfer, TypeOK
  <2>4. QED BY <2>2, <2>3
<1>3. QED BY <1>1, <1>2

(* A pass asks the node about its row, without writing a verdict. *)
JobAsks(j) ==
  \/ GetSignatureStatuses(j) \/ GetBlockHeight(j) \/ GetArchivedStatuses(j)
  \/ HistoryUnavailable(j) \/ JobGivesUp(j)

Proven(j, v) ==
  /\ v = "confirmed" => Deep(job[j].t)
  /\ v = "finalized" => Deep(job[j].t) /\ level[job[j].t] = "finalized"
  /\ v = "failed" => err[job[j].t] \/ ~job[j].started

Learns(j) ==
  \/ job' = [job EXCEPT ![j] = Idle]
  \/ \E pc \in {"missed", "archive"} : job' = [job EXCEPT ![j] = [job[j] EXCEPT !.pc = pc]]
  \/ \E v \in Settled :
       Proven(j, v) /\ job' = [job EXCEPT ![j] = [job[j] EXCEPT !.pc = "verdict", !.verdict = v]]

LEMMA JobMoves ==
  ASSUME TypeOK, Holding, NEW j \in Jobs, JobAsks(j)
  PROVE  /\ Learns(j) /\ job[j].pc # "idle" /\ job[j].t \in Transfers
         /\ aged' = aged \/ \E b \in BOOLEAN : aged' = [aged EXCEPT ![job[j].t] = b]
         /\ UNCHANGED <<status, signed, started, batchVars, req, chain, overtaken>>
<1> USE DEF Holds, Verdict, Continue, Rotate, Settled, Learns, Proven
<1>1. ASSUME OnChainVerdict(j), job[j].t \in Transfers
      PROVE  /\ Learns(j)
             /\ aged' = aged \/ \E b \in BOOLEAN : aged' = [aged EXCEPT ![job[j].t] = b]
  <2>1. CASE err[job[j].t]
    BY <1>1, <2>1 DEF OnChainVerdict
  <2>2. CASE ~err[job[j].t] /\ level[job[j].t] \in {"confirmed", "finalized"}
    BY <1>1, <2>2 DEF OnChainVerdict, Deep
  <2>3. CASE ~err[job[j].t] /\ level[job[j].t] \notin {"confirmed", "finalized"}
    BY <1>1, <2>3 DEF OnChainVerdict, TypeOK
  <2>4. QED BY <2>1, <2>2, <2>3
<1>2. CASE GetSignatureStatuses(j)
  BY <1>1, <1>2 DEF GetSignatureStatuses, Holding
<1>3. CASE GetBlockHeight(j)
  <2>1. job[j].t \in Transfers
    BY <1>3 DEF GetBlockHeight, Holding
  <2>2. CASE Rotate(j)
    BY <1>3, <2>1, <2>2 DEF GetBlockHeight, TypeOK
  <2>3. CASE ~Rotate(j)
    BY <1>3, <2>1, <2>3 DEF GetBlockHeight
  <2>4. QED BY <2>2, <2>3
<1>4. CASE GetArchivedStatuses(j)
  BY <1>1, <1>4 DEF GetArchivedStatuses, Holding, TypeOK
<1>5. CASE HistoryUnavailable(j)
  BY <1>5 DEF HistoryUnavailable, Holding, TypeOK
<1>6. CASE JobGivesUp(j)
  BY <1>6 DEF JobGivesUp, Holding, TypeOK, row
<1>7. QED BY <1>2, <1>3, <1>4, <1>5, <1>6 DEF JobAsks
LEMMA HoldingStep == TypeOK /\ Holding /\ [Next]_vars => Holding'
<1> SUFFICES ASSUME TypeOK, Holding, [Next]_vars PROVE Holding'
  OBVIOUS
<1> DEFINE Good(r) == /\ r.pc # "idle" => r.t \in Transfers
                      /\ r.pc = "idle" => r = Idle
                      /\ r.pc = "verdict" => r.verdict \in Settled
<1>1. ASSUME NEW j \in Jobs, NEW r, job' = [job EXCEPT ![j] = r], Good(r) PROVE Holding'
  BY <1>1 DEF Holding, TypeOK
<1>2. Good(Idle)
  BY DEF Idle
<1>3. ASSUME NEW j \in Jobs, JobAsks(j) PROVE Holding'
  <2>1. CASE job' = [job EXCEPT ![j] = Idle]
    BY <1>1, <1>2, <2>1
  <2>2. ASSUME NEW pc \in {"missed", "archive"}, job[j].t \in Transfers,
               job' = [job EXCEPT ![j] = [job[j] EXCEPT !.pc = pc]]
        PROVE  Holding'
    <3>1. Good([job[j] EXCEPT !.pc = pc])
      BY <2>2 DEF TypeOK
    <3>2. QED BY <1>1, <2>2, <3>1
  <2>3. ASSUME NEW v \in Settled, job[j].t \in Transfers,
               job' = [job EXCEPT ![j] = [job[j] EXCEPT !.pc = "verdict", !.verdict = v]]
        PROVE  Holding'
    <3>1. Good([job[j] EXCEPT !.pc = "verdict", !.verdict = v])
      BY <2>3 DEF TypeOK
    <3>2. QED BY <1>1, <2>3, <3>1
  <2>4. Learns(j) /\ job[j].t \in Transfers
    BY <1>3, JobMoves
  <2>5. QED BY <2>1, <2>2, <2>3, <2>4, Zenon DEF Learns
<1>4. ASSUME NEW j \in Jobs, ApplyVerdict(j) PROVE Holding'
  BY <1>1, <1>2, <1>4 DEF ApplyVerdict, Holds
<1>5. ASSUME NEW j \in Jobs, NEW t \in Transfers, ListStuck(j, t) PROVE Holding'
  <2> DEFINE r == [pc |-> "verdict", t |-> t, signed |-> FALSE, started |-> started[t], verdict |-> "failed"]
  <2>1. Good(r)
    BY DEF Settled
  <2>2. job' = [job EXCEPT ![j] = r]
    BY <1>5 DEF ListStuck, Holds
  <2>3. QED BY <1>1, <2>1, <2>2
<1>6. ASSUME NEW j \in Jobs, NEW t \in Transfers, ListSigned(j, t) PROVE Holding'
  <2> DEFINE r == [pc |-> "listed", t |-> t, signed |-> TRUE, started |-> started[t], verdict |-> "none"]
  <2>1. Good(r)
    OBVIOUS
  <2>2. job' = [job EXCEPT ![j] = r]
    BY <1>6 DEF ListSigned, Holds
  <2>3. QED BY <1>1, <2>1, <2>2
<1>7. CASE UNCHANGED job
  BY <1>7 DEF Holding
<1>8. QED
  BY <1>3, <1>4, <1>5, <1>6, <1>7 DEF Next, vars, JobStep, JobAsks, RequestStep, ChunkThrows, CreateTransferBatch, ChunksDone,
    RecomputeTransferBatchStatus, CrashBatch, FailUnlinkedRecipients, Crash, AdvanceConfirmedTransfer,
    Ages, Expires, Lands, Deepens, ForkDropped, CreateTransfer, FailBeforeStart, PersistSigned,
    MarkStarted, SendTransaction, ConfirmTransaction, UpdateTransferRecord

LEMMA TypesStep == TypeOK /\ Holding /\ [Next]_vars => TypeOK'
<1> SUFFICES ASSUME TypeOK, Holding, [Next]_vars PROVE TypeOK'
  OBVIOUS
<1> USE DEF row, batchVars, chain
<1>1. CASE CreateTransferBatch \/ ChunksDone \/ CrashBatch
  BY <1>1 DEF TypeOK, CreateTransferBatch, ChunksDone, CrashBatch, RecStatuses, Requests
<1>2. CASE RecomputeTransferBatchStatus
  BY <1>2, DerivedType DEF TypeOK, RecomputeTransferBatchStatus
<1>3. ASSUME NEW t \in Chunks, FailUnlinkedRecipients(t) PROVE TypeOK'
  BY <1>3 DEF TypeOK, FailUnlinkedRecipients, RecStatuses
<1>4. ASSUME NEW t \in Transfers, RequestStep(t) PROVE TypeOK'
  <2>1. CASE CreateTransfer(t)
    BY <2>1 DEF TypeOK, CreateTransfer, RecStatuses, Requests, Running
  <2>2. CASE FailBeforeStart(t) \/ PersistSigned(t) \/ ChunkThrows(t)
    BY <2>2 DEF TypeOK, FailBeforeStart, PersistSigned, ChunkThrows, Requests, Running
  <2>3. CASE MarkStarted(t) \/ SendTransaction(t)
    BY <2>3 DEF TypeOK, MarkStarted, SendTransaction, Requests, Running
  <2>4. CASE ConfirmTransaction(t)
    BY <2>4 DEF TypeOK, ConfirmTransaction, Requests, Running
  <2>5. CASE UpdateTransferRecord(t)
    <3>1. PICK v \in Settled : UpdateTerminalTransfer(t, v)
      BY <2>5 DEF UpdateTransferRecord, Settled
    <3>2. QED BY <2>5, <3>1, TerminalType DEF TypeOK, UpdateTransferRecord, Requests, Running
  <2>6. QED BY <1>4, <2>1, <2>2, <2>3, <2>4, <2>5 DEF RequestStep
<1>5. ASSUME NEW t \in Transfers,
             Crash(t) \/ AdvanceConfirmedTransfer(t) \/ Ages(t) \/ Expires(t)
      PROVE  TypeOK'
  <2>1. CASE Crash(t)
    BY <2>1 DEF TypeOK, Crash, Requests
  <2>2. CASE AdvanceConfirmedTransfer(t)
    BY <2>2 DEF TypeOK, AdvanceConfirmedTransfer, Settled
  <2>3. CASE Ages(t) \/ Expires(t)
    BY <2>3 DEF TypeOK, Ages, Expires
  <2>4. QED BY <1>5, <2>1, <2>2, <2>3
<1>6. ASSUME NEW t \in Transfers, Lands(t) \/ Deepens(t) \/ ForkDropped(t) PROVE TypeOK'
  <2>1. CASE Lands(t)
    BY <2>1 DEF TypeOK, Lands, Levels
  <2>2. CASE Deepens(t)
    BY <2>2 DEF TypeOK, Deepens, Levels
  <2>3. CASE ForkDropped(t)
    BY <2>3 DEF TypeOK, ForkDropped, Levels
  <2>4. QED BY <1>6, <2>1, <2>2, <2>3
<1>7. ASSUME NEW t \in Transfers, NEW j \in Jobs, ListStuck(j, t) \/ ListSigned(j, t) PROVE TypeOK'
  <2>1. PICK r \in JobRecords : job' = [job EXCEPT ![j] = r]
    <3>1. CASE ListStuck(j, t)
      BY <3>1 DEF TypeOK, ListStuck, Holds, Settled, JobRecords
    <3>2. CASE ListSigned(j, t)
      BY <3>2 DEF TypeOK, ListSigned, Holds, JobRecords
    <3>3. QED BY <1>7, <3>1, <3>2
  <2>2. job' \in [Jobs -> JobRecords]
    BY <2>1 DEF TypeOK, JobRecords
  <2>3. QED BY <1>7, <2>2 DEF TypeOK, ListStuck, ListSigned, JobRecords
<1>8. ASSUME NEW j \in Jobs, ApplyVerdict(j) PROVE TypeOK'
  <2>1. job[j].t \in Transfers /\ job[j].verdict \in Settled
    BY <1>8 DEF ApplyVerdict, Holding
  <2>2. /\ status' \in [Transfers -> {"absent", "processing"} \cup Settled]
        /\ aged' \in [Transfers -> BOOLEAN] /\ rec' \in [Chunks -> RecStatuses]
        /\ batch' \in {"absent", "processing", "confirmed", "partially_failed", "failed"}
    BY <1>8, <2>1, TerminalType DEF ApplyVerdict
  <2>3. overtaken' \in [Transfers -> BOOLEAN]
    BY <1>8, <2>1 DEF ApplyVerdict, TypeOK
  <2>4. job' \in [Jobs -> JobRecords]
    BY <1>8, IdleType DEF ApplyVerdict, Holds, TypeOK, JobRecords
  <2>5. QED BY <1>8, <2>2, <2>3, <2>4 DEF ApplyVerdict, TypeOK, JobRecords
<1>9. ASSUME NEW j \in Jobs, JobAsks(j) PROVE TypeOK'
  <2>1. job' \in [Jobs -> JobRecords]
    <3>1. job \in [Jobs -> JobRecords]
      BY DEF TypeOK, JobRecords
    <3>2. CASE job' = [job EXCEPT ![j] = Idle]
      BY <3>1, <3>2, IdleType
    <3>3. ASSUME NEW pc \in {"missed", "archive"}, job' = [job EXCEPT ![j] = [job[j] EXCEPT !.pc = pc]]
          PROVE  job' \in [Jobs -> JobRecords]
      BY <3>1, <3>3 DEF JobRecords
    <3>4. ASSUME NEW v \in Settled,
                 job' = [job EXCEPT ![j] = [job[j] EXCEPT !.pc = "verdict", !.verdict = v]]
          PROVE  job' \in [Jobs -> JobRecords]
      BY <3>1, <3>4 DEF JobRecords
    <3>5. Learns(j)
      BY <1>9, JobMoves
    <3>6. QED BY <3>2, <3>3, <3>4, <3>5, Zenon DEF Learns
  <2>2. aged' \in [Transfers -> BOOLEAN]
    BY <1>9, JobMoves DEF TypeOK
  <2>3. UNCHANGED <<status, signed, started, batchVars, req, chain, overtaken>>
    BY <1>9, JobMoves
  <2>4. QED BY <2>1, <2>2, <2>3 DEF TypeOK, JobRecords
<1>10. CASE UNCHANGED vars
  BY <1>10 DEF TypeOK, vars
<1>11. QED
  BY <1>1, <1>2, <1>3, <1>4, <1>5, <1>6, <1>7, <1>8, <1>9, <1>10 DEF Next, JobStep, JobAsks

(* The variables of transfers, batches and passes keep their types         *)
(* (TypeOK).                                                               *)
THEOREM Typed == Spec => []TypeOK
<1>1. Init => Holding
  BY DEF Init, Holding, Idle
<1>2. QED BY <1>1, TypesInit, TypesStep, HoldingStep, PTL DEF Spec
-----------------------------------------------------------------------------
(* How a row is settled *)

(* A row that is written again was processing. *)
Settles(t, v) ==
  /\ status[t] = "processing" /\ status' = [status EXCEPT ![t] = v]
  /\ IF t \in Chunks
     THEN /\ rec' = [rec EXCEPT ![t] = IF v = "failed" THEN "failed" ELSE "confirmed"]
          /\ batch' = deriveTransferBatchStatus(rec')
     ELSE UNCHANGED <<rec, batch>>

LEMMA TerminalSettles ==
  ASSUME NEW t, NEW v, UpdateTerminalTransfer(t, v)
  PROVE  Settles(t, v) \/ UNCHANGED <<status, rec, batch>>
BY DEF UpdateTerminalTransfer, Settles, Settleable

(* The request and the passes write the verdict they hold. *)
LEMMA RequestWrites ==
  ASSUME NEW t \in Transfers, UpdateTransferRecord(t)
  PROVE  /\ \/ req[t] = "seen" /\ Settles(t, "confirmed")
            \/ req[t] = "failing" /\ Settles(t, "failed")
            \/ UNCHANGED <<status, rec, batch>>
         /\ req' = [req EXCEPT ![t] = "done"]
         /\ UNCHANGED <<signed, started, breq, job, chain, overtaken>>
<1>1. CASE req[t] = "seen"
  BY <1>1, TerminalSettles DEF UpdateTransferRecord
<1>2. CASE req[t] # "seen"
  BY <1>2, TerminalSettles DEF UpdateTransferRecord
<1>3. QED BY <1>1, <1>2

LEMMA JobWrites ==
  ASSUME NEW j \in Jobs, ApplyVerdict(j)
  PROVE  /\ Settles(job[j].t, job[j].verdict) \/ UNCHANGED <<status, rec, batch>>
         /\ job' = [job EXCEPT ![j] = Idle] /\ UNCHANGED <<signed, started, breq, req, chain>>
         /\ overtaken' = [overtaken EXCEPT ![job[j].t] =
              @ \/ job[j].signed # signed[job[j].t] \/ job[j].started # started[job[j].t]]
BY TerminalSettles DEF ApplyVerdict, Holds

LEMMA FreshStep == TypeOK /\ Holding /\ Fresh /\ [Next]_vars => Fresh'
<1> SUFFICES ASSUME TypeOK, Holding, Fresh, [Next]_vars PROVE Fresh'
  OBVIOUS
<1> USE DEF Fresh, row, batchVars
<1>1. CASE CreateTransferBatch \/ ChunksDone \/ CrashBatch \/ RecomputeTransferBatchStatus
  BY <1>1 DEF TypeOK, CreateTransferBatch, ChunksDone, CrashBatch, RecomputeTransferBatchStatus
<1>2. ASSUME NEW t \in Chunks, FailUnlinkedRecipients(t) PROVE Fresh'
  BY <1>2 DEF FailUnlinkedRecipients
<1>3. ASSUME NEW t \in Transfers, RequestStep(t) PROVE Fresh'
  <2>1. CASE CreateTransfer(t) \/ FailBeforeStart(t) \/ ChunkThrows(t)
    BY <2>1 DEF TypeOK, CreateTransfer, FailBeforeStart, ChunkThrows
  <2>2. CASE PersistSigned(t) \/ MarkStarted(t)
    BY <2>2 DEF TypeOK, PersistSigned, MarkStarted
  <2>3. CASE SendTransaction(t) \/ ConfirmTransaction(t)
    BY <2>3 DEF TypeOK, SendTransaction, ConfirmTransaction
  <2>4. CASE UpdateTransferRecord(t)
    BY <2>4, RequestWrites DEF TypeOK, Settles
  <2>5. QED BY <1>3, <2>1, <2>2, <2>3, <2>4 DEF RequestStep
<1>4. ASSUME NEW t \in Transfers, Crash(t) \/ AdvanceConfirmedTransfer(t) PROVE Fresh'
  BY <1>4 DEF TypeOK, Crash, AdvanceConfirmedTransfer
<1>5. ASSUME NEW j \in Jobs, ApplyVerdict(j) PROVE Fresh'
  <2>1. job[j].t \in Transfers
    BY <1>5 DEF ApplyVerdict, Holding
  <2>2. QED BY <1>5, <2>1, JobWrites DEF TypeOK, Settles
<1>6. CASE UNCHANGED <<status, req>>
  BY <1>6
<1>7. QED
  BY <1>1, <1>2, <1>3, <1>4, <1>5, <1>6, JobMoves DEF Next, vars, JobStep, JobAsks, Ages, Expires, Lands,
    Deepens, ForkDropped, ListStuck, ListSigned

LEMMA MarksStep == TypeOK /\ Holding /\ Marks /\ [Next]_vars => Marks'
<1> SUFFICES ASSUME TypeOK, Holding, Marks, [Next]_vars PROVE Marks'
  OBVIOUS
<1> USE DEF Marks, row, batchVars, chain
<1>1. CASE CreateTransferBatch \/ ChunksDone \/ CrashBatch \/ RecomputeTransferBatchStatus
  BY <1>1 DEF TypeOK, CreateTransferBatch, ChunksDone, CrashBatch, RecomputeTransferBatchStatus
<1>2. ASSUME NEW t \in Chunks, FailUnlinkedRecipients(t) PROVE Marks'
  BY <1>2 DEF FailUnlinkedRecipients
<1>3. ASSUME NEW t \in Transfers, RequestStep(t) PROVE Marks'
  <2>1. CASE CreateTransfer(t) \/ FailBeforeStart(t) \/ ChunkThrows(t)
    BY <2>1 DEF TypeOK, CreateTransfer, FailBeforeStart, ChunkThrows
  <2>2. CASE PersistSigned(t) \/ MarkStarted(t)
    BY <2>2 DEF TypeOK, PersistSigned, MarkStarted
  <2>3. CASE SendTransaction(t) \/ ConfirmTransaction(t)
    BY <2>3 DEF TypeOK, SendTransaction, ConfirmTransaction
  <2>4. CASE UpdateTransferRecord(t)
    BY <2>4, RequestWrites DEF TypeOK
  <2>5. QED BY <1>3, <2>1, <2>2, <2>3, <2>4 DEF RequestStep
<1>4. ASSUME NEW t \in Transfers, Crash(t) \/ Lands(t) \/ Deepens(t) \/ ForkDropped(t) PROVE Marks'
  BY <1>4 DEF TypeOK, Crash, Lands, Deepens, ForkDropped
<1>5. CASE UNCHANGED <<signed, started, req, broadcast, level, err>>
  BY <1>5
<1>6. QED
  BY <1>1, <1>2, <1>3, <1>4, <1>5, JobMoves, JobWrites DEF Next, vars, JobStep, JobAsks, Ages, Expires,
    AdvanceConfirmedTransfer, ListStuck, ListSigned
-----------------------------------------------------------------------------
(* The chain *)

(* What is confirmed on chain stays there. *)
LEMMA DeepStays ==
  ASSUME TypeOK, Holding, [Next]_vars, NEW t \in Transfers, Deep(t)
  PROVE  Deep(t)' /\ (level[t] = "finalized" => level'[t] = "finalized")
<1> USE DEF Deep, row, batchVars, chain
<1>1. ASSUME NEW u \in Transfers, Lands(u) \/ Deepens(u) \/ ForkDropped(u)
      PROVE  Deep(t)' /\ (level[t] = "finalized" => level'[t] = "finalized")
  BY <1>1 DEF TypeOK, Lands, Deepens, ForkDropped
<1>2. CASE UNCHANGED <<level, err>>
  BY <1>2
<1>3. QED
  BY <1>1, <1>2, JobMoves, JobWrites, RequestWrites DEF Next, vars, JobStep, JobAsks, RequestStep, ChunkThrows, CreateTransferBatch, ChunksDone,
    CrashBatch, RecomputeTransferBatchStatus, FailUnlinkedRecipients, CreateTransfer, FailBeforeStart,
    PersistSigned, MarkStarted, SendTransaction, ConfirmTransaction, Crash, AdvanceConfirmedTransfer,
    Ages, Expires, ListStuck, ListSigned

(* An error stays, or the fork that had it is gone. *)
LEMMA ErrorStays ==
  ASSUME TypeOK, Holding, Marks, [Next]_vars, NEW t \in Transfers, err[t] \/ overtaken[t]
  PROVE  err'[t] \/ overtaken'[t]
<1> USE DEF row, batchVars, chain
<1>1. ASSUME NEW u \in Transfers, Lands(u) \/ Deepens(u) \/ ForkDropped(u)
      PROVE  err'[t] \/ overtaken'[t]
  BY <1>1 DEF TypeOK, Lands, Deepens, ForkDropped, Marks
<1>2. ASSUME NEW j \in Jobs, ApplyVerdict(j) PROVE err'[t] \/ overtaken'[t]
  <2>1. job[j].t \in Transfers
    BY <1>2 DEF ApplyVerdict, Holding
  <2>2. QED BY <1>2, <2>1, JobWrites DEF TypeOK
<1>3. CASE UNCHANGED <<err, overtaken>>
  BY <1>3
<1>4. QED
  BY <1>1, <1>2, <1>3, JobMoves, RequestWrites DEF Next, vars, JobStep, JobAsks, RequestStep, ChunkThrows, CreateTransferBatch, ChunksDone,
    CrashBatch, RecomputeTransferBatchStatus, FailUnlinkedRecipients, CreateTransfer, FailBeforeStart,
    PersistSigned, MarkStarted, SendTransaction, ConfirmTransaction, Crash, AdvanceConfirmedTransfer,
    Ages, Expires, ListStuck, ListSigned

(* A pass has a verdict because it had it, or because it just reached it. *)
LEMMA VerdictReached ==
  ASSUME TypeOK, Holding, Marks, [Next]_vars, NEW j \in Jobs, job'[j].pc = "verdict"
  PROVE  \/ job'[j] = job[j]
         \/ /\ job'[j].t \in Transfers
            /\ \/ job'[j].t = job[j].t /\ job'[j].started = job[j].started /\ Proven(j, job'[j].verdict)
               \/ job'[j].verdict = "failed" /\ ~job'[j].started
<1> USE DEF row, batchVars, chain
<1>1. ASSUME NEW i \in Jobs, JobAsks(i)
      PROVE  \/ job'[j] = job[j]
             \/ /\ job'[j].t \in Transfers /\ job'[j].t = job[j].t
                /\ job'[j].started = job[j].started /\ Proven(j, job'[j].verdict)
  <2>1. Learns(i) /\ job[i].t \in Transfers
    BY <1>1, JobMoves
  <2>2. CASE i # j
    <3>1. \E r : job' = [job EXCEPT ![i] = r]
      BY <2>1, Zenon DEF Learns
    <3>2. QED BY <2>2, <3>1 DEF TypeOK
  <2>3. CASE i = j
    <3>1. /\ job' # [job EXCEPT ![j] = Idle]
          /\ \A pc \in {"missed", "archive"} : job' # [job EXCEPT ![j] = [job[j] EXCEPT !.pc = pc]]
      BY DEF TypeOK, Idle
    <3>2. PICK v \in Settled : Proven(j, v)
             /\ job' = [job EXCEPT ![j] = [job[j] EXCEPT !.pc = "verdict", !.verdict = v]]
      BY <2>1, <2>3, <3>1, Zenon DEF Learns
    <3>3. job'[j] = [job[j] EXCEPT !.pc = "verdict", !.verdict = v]
      BY <3>2 DEF TypeOK
    <3>4. job'[j].verdict = v /\ job'[j].t = job[j].t /\ job'[j].started = job[j].started
      BY <3>3 DEF TypeOK
    <3>5. QED BY <2>1, <2>3, <3>2, <3>4
  <2>4. QED BY <2>2, <2>3
<1>2. ASSUME NEW i \in Jobs, NEW t \in Transfers, ListStuck(i, t) \/ ListSigned(i, t)
      PROVE  \/ job'[j] = job[j]
             \/ job'[j].t \in Transfers /\ job'[j].verdict = "failed" /\ ~job'[j].started
  <2>1. CASE i # j
    BY <1>2, <2>1 DEF ListStuck, ListSigned, Holds, TypeOK
  <2>2. CASE i = j
    BY <1>2, <2>2 DEF ListStuck, ListSigned, Holds, TypeOK, Marks
  <2>3. QED BY <2>1, <2>2
<1>3. ASSUME NEW i \in Jobs, ApplyVerdict(i) PROVE job'[j] = job[j]
  BY <1>3, JobWrites DEF TypeOK, Idle
<1>4. CASE UNCHANGED job
  BY <1>4
<1>5. QED
  BY <1>1, <1>2, <1>3, <1>4, RequestWrites DEF Next, vars, JobStep, JobAsks, RequestStep, ChunkThrows, CreateTransferBatch,
    ChunksDone, CrashBatch, RecomputeTransferBatchStatus, FailUnlinkedRecipients, CreateTransfer,
    FailBeforeStart, PersistSigned, MarkStarted, SendTransaction, ConfirmTransaction, Crash,
    AdvanceConfirmedTransfer, Ages, Expires, Lands, Deepens, ForkDropped

(* A request holds a verdict because it just reached it, or had it. *)
LEMMA RequestReached ==
  ASSUME TypeOK, Holding, Marks, [Next]_vars, NEW t \in Transfers, req'[t] # req[t]
  PROVE  /\ req'[t] = "seen" => Deep(t)
         /\ req'[t] = "failing" => UNCHANGED <<err, broadcast, overtaken>> /\ (err[t] \/ ~broadcast[t])
<1> USE DEF row, batchVars, chain
<1>1. ASSUME NEW u \in Transfers, RequestStep(u)
      PROVE  /\ req'[t] = "seen" => Deep(t)
             /\ req'[t] = "failing" => UNCHANGED <<err, broadcast, overtaken>> /\ (err[t] \/ ~broadcast[t])
  <2>1. CASE CreateTransfer(u) \/ FailBeforeStart(u) \/ ChunkThrows(u)
    BY <2>1 DEF TypeOK, Marks, CreateTransfer, FailBeforeStart, ChunkThrows
  <2>2. CASE PersistSigned(u) \/ MarkStarted(u)
    BY <2>2 DEF TypeOK, Marks, PersistSigned, MarkStarted
  <2>3. CASE SendTransaction(u)
    BY <2>3 DEF TypeOK, Marks, SendTransaction
  <2>4. CASE ConfirmTransaction(u)
    BY <2>4 DEF TypeOK, ConfirmTransaction, Deep, Levels
  <2>5. CASE UpdateTransferRecord(u)
    BY <2>5, RequestWrites DEF TypeOK
  <2>6. QED BY <1>1, <2>1, <2>2, <2>3, <2>4, <2>5 DEF RequestStep
<1>2. ASSUME NEW u \in Transfers, Crash(u) PROVE req'[t] = "dead"
  BY <1>2 DEF TypeOK, Crash
<1>3. CASE CrashBatch
  BY <1>3 DEF TypeOK, CrashBatch
<1>4. CASE UNCHANGED req
  BY <1>4
<1>5. QED
  BY <1>1, <1>2, <1>3, <1>4, JobMoves, JobWrites DEF Next, vars, JobStep, JobAsks, CreateTransferBatch, ChunksDone,
    RecomputeTransferBatchStatus, FailUnlinkedRecipients, AdvanceConfirmedTransfer, Ages, Expires, Lands,
    Deepens, ForkDropped, ListStuck, ListSigned
LEMMA SuccessesStep == TypeOK /\ Holding /\ Marks /\ Successes /\ [Next]_vars => Successes'
<1> SUFFICES ASSUME TypeOK, Holding, Marks, Successes, [Next]_vars PROVE Successes'
  OBVIOUS
<1>1. ASSUME NEW t \in Transfers, req'[t] = "seen" PROVE Deep(t)'
  <2>1. Deep(t)
    BY <1>1, RequestReached DEF Successes
  <2>2. QED BY <2>1, DeepStays
<1>2. ASSUME NEW j \in Jobs, job'[j].pc = "verdict"
      PROVE  /\ job'[j].verdict = "confirmed" =>
                  level'[job'[j].t] \in {"confirmed", "finalized"} /\ ~err'[job'[j].t]
             /\ job'[j].verdict = "finalized" => level'[job'[j].t] = "finalized" /\ ~err'[job'[j].t]
  <2>1. job'[j].t \in Transfers
    BY <1>2, VerdictReached DEF Holding
  <2>2. /\ job'[j].verdict = "confirmed" => Deep(job'[j].t)
        /\ job'[j].verdict = "finalized" => Deep(job'[j].t) /\ level[job'[j].t] = "finalized"
    BY <1>2, VerdictReached DEF Successes, Proven, Deep
  <2>3. \A t \in Transfers : Deep(t) =>
          /\ level'[t] \in {"confirmed", "finalized"} /\ ~err'[t]
          /\ level[t] = "finalized" => level'[t] = "finalized"
    BY DeepStays DEF Deep
  <2>4. QED BY <2>1, <2>2, <2>3
<1>3. QED BY <1>1, <1>2 DEF Successes, Deep

(* Only a marked request hands its transaction to a node. *)
LEMMA BroadcastReached ==
  ASSUME TypeOK, Holding, [Next]_vars, NEW t \in Transfers, broadcast'[t] # broadcast[t]
  PROVE  req[t] = "started" /\ req'[t] \in {"sent", "unresolved"} /\ UNCHANGED status
<1> USE DEF row, batchVars, chain
<1>1. ASSUME NEW u \in Transfers, SendTransaction(u)
      PROVE  req[t] = "started" /\ req'[t] \in {"sent", "unresolved"} /\ UNCHANGED status
  BY <1>1 DEF TypeOK, SendTransaction
<1>2. CASE UNCHANGED broadcast
  BY <1>2
<1>3. QED
  BY <1>1, <1>2, JobMoves, JobWrites, RequestWrites DEF Next, vars, JobStep, JobAsks, RequestStep, ChunkThrows,
    CreateTransferBatch, ChunksDone, CrashBatch, RecomputeTransferBatchStatus, FailUnlinkedRecipients,
    CreateTransfer, FailBeforeStart, PersistSigned, MarkStarted, ConfirmTransaction, Crash,
    AdvanceConfirmedTransfer, Ages, Expires, Lands, Deepens, ForkDropped, ListStuck, ListSigned

LEMMA FailuresStep == TypeOK /\ Holding /\ Marks /\ Failures /\ [Next]_vars => Failures'
<1> SUFFICES ASSUME TypeOK, Holding, Marks, Failures, [Next]_vars PROVE Failures'
  OBVIOUS
<1>1. ASSUME NEW t \in Transfers, req'[t] = "failing" PROVE err'[t] \/ overtaken'[t] \/ ~broadcast'[t]
  <2>1. CASE req'[t] # req[t]
    BY <1>1, <2>1, RequestReached
  <2>2. CASE req'[t] = req[t]
    <3>1. err[t] \/ overtaken[t] \/ ~broadcast[t]
      BY <1>1, <2>2 DEF Failures
    <3>2. broadcast'[t] = broadcast[t]
      BY <1>1, <2>2, BroadcastReached
    <3>3. QED BY <3>1, <3>2, ErrorStays
  <2>3. QED BY <2>1, <2>2
<1>2. ASSUME NEW j \in Jobs, job'[j].pc = "verdict", job'[j].verdict = "failed"
      PROVE  err'[job'[j].t] \/ overtaken'[job'[j].t] \/ ~job'[j].started
  <2>1. job'[j].t \in Transfers
    BY <1>2, VerdictReached DEF Holding
  <2>2. err[job'[j].t] \/ overtaken[job'[j].t] \/ ~job'[j].started
    BY <1>2, VerdictReached DEF Failures, Proven
  <2>3. \A t \in Transfers : err[t] \/ overtaken[t] => err'[t] \/ overtaken'[t]
    BY ErrorStays
  <2>4. QED BY <2>1, <2>2, <2>3
<1>3. QED BY <1>1, <1>2 DEF Failures

-----------------------------------------------------------------------------
(* What the rows report *)

(* A row is written when it is created, settled or finalized. *)
LEMMA StatusMoves ==
  ASSUME TypeOK, Holding, [Next]_vars, NEW t \in Transfers, status'[t] # status[t]
  PROVE  \/ req[t] = "idle" /\ status'[t] = "processing"
         \/ status[t] = "processing" /\ status'[t] = "confirmed" /\ req[t] = "seen" /\ UNCHANGED chain
         \/ /\ status[t] = "processing" /\ status'[t] = "failed" /\ req[t] = "failing"
            /\ req'[t] = "done" /\ UNCHANGED <<chain, overtaken>>
         \/ /\ status[t] = "processing" /\ UNCHANGED <<chain, req, started>>
            /\ \E j \in Jobs : /\ job[j].pc = "verdict" /\ job[j].t = t /\ status'[t] = job[j].verdict
                               /\ ~overtaken'[t] => ~overtaken[t] /\ job[j].started = started[t]
         \/ /\ status[t] = "confirmed" /\ status'[t] = "finalized" /\ level[t] = "finalized"
            /\ UNCHANGED chain
<1> USE DEF row, batchVars, chain
<1>1. ASSUME NEW u \in Transfers, CreateTransfer(u) PROVE req[t] = "idle" /\ status'[t] = "processing"
  BY <1>1 DEF TypeOK, CreateTransfer
<1>2. ASSUME NEW u \in Transfers, UpdateTransferRecord(u)
      PROVE  \/ status[t] = "processing" /\ status'[t] = "confirmed" /\ req[t] = "seen" /\ UNCHANGED chain
             \/ /\ status[t] = "processing" /\ status'[t] = "failed" /\ req[t] = "failing"
                /\ req'[t] = "done" /\ UNCHANGED <<chain, overtaken>>
  <2>1. /\ \/ req[u] = "seen" /\ Settles(u, "confirmed")
           \/ req[u] = "failing" /\ Settles(u, "failed")
        /\ req' = [req EXCEPT ![u] = "done"] /\ UNCHANGED <<chain, overtaken>>
    BY <1>2, RequestWrites
  <2>2. u = t /\ status[t] = "processing"
    BY <2>1 DEF TypeOK, Settles
  <2>3. QED BY <2>1, <2>2 DEF TypeOK, Settles
<1>3. ASSUME NEW j \in Jobs, ApplyVerdict(j)
      PROVE  /\ status[t] = "processing" /\ UNCHANGED <<chain, req, started>>
             /\ job[j].pc = "verdict" /\ job[j].t = t /\ status'[t] = job[j].verdict
             /\ ~overtaken'[t] => ~overtaken[t] /\ job[j].started = started[t]
  <2>1. job[j].pc = "verdict" /\ job[j].t \in Transfers
    BY <1>3 DEF ApplyVerdict, Holding
  <2>2. QED BY <1>3, <2>1, JobWrites DEF TypeOK, Settles
<1>4. ASSUME NEW u \in Transfers, AdvanceConfirmedTransfer(u)
      PROVE  status[t] = "confirmed" /\ status'[t] = "finalized" /\ level[t] = "finalized" /\ UNCHANGED chain
  BY <1>4 DEF TypeOK, AdvanceConfirmedTransfer
<1>5. CASE \E j \in Jobs : JobAsks(j)
  <2>1. UNCHANGED status
    BY <1>5, JobMoves
  <2>2. QED BY <2>1
<1>6. CASE /\ ~\E u \in Transfers : CreateTransfer(u) \/ UpdateTransferRecord(u) \/ AdvanceConfirmedTransfer(u)
           /\ ~\E j \in Jobs : ApplyVerdict(j) \/ JobAsks(j)
  <2>1. UNCHANGED status
    BY <1>6 DEF Next, vars, JobStep, JobAsks, RequestStep, ChunkThrows, CreateTransferBatch, ChunksDone, CrashBatch,
      RecomputeTransferBatchStatus, FailUnlinkedRecipients, FailBeforeStart, PersistSigned, MarkStarted,
      SendTransaction, ConfirmTransaction, Crash, Ages, Expires, Lands, Deepens, ForkDropped, ListStuck,
      ListSigned
  <2>2. QED BY <2>1
<1>7. QED BY <1>1, <1>2, <1>3, <1>4, <1>5, <1>6

LEMMA ConfirmedStep ==
  TypeOK /\ Holding /\ Fresh /\ Successes /\ ConfirmedIsOnChain /\ [Next]_vars => ConfirmedIsOnChain'
<1> SUFFICES ASSUME TypeOK, Holding, Fresh, Successes, ConfirmedIsOnChain, [Next]_vars,
                    NEW t \in Transfers, status'[t] \in {"confirmed", "finalized"}
             PROVE  Deep(t)' /\ (status'[t] = "finalized" => level'[t] = "finalized")
  BY DEF ConfirmedIsOnChain, Deep
<1>1. Deep(t) /\ (status'[t] = "finalized" => level[t] = "finalized")
  <2>1. CASE status'[t] = status[t]
    BY <2>1 DEF ConfirmedIsOnChain, Deep
  <2>2. CASE status'[t] # status[t]
    BY <2>2, StatusMoves DEF Successes, ConfirmedIsOnChain, Deep
  <2>3. QED BY <2>1, <2>2
<1>2. QED BY <1>1, DeepStays

(* A request goes on to its submission only while its row is processing. *)
LEMMA StartedReached ==
  ASSUME TypeOK, Holding, [Next]_vars, NEW t \in Transfers, req'[t] = "started"
  PROVE  req[t] = "started" \/ (status[t] = "processing" /\ UNCHANGED status)
<1> USE DEF row, batchVars, chain
<1>1. ASSUME NEW u \in Transfers, RequestStep(u)
      PROVE  req[t] = "started" \/ (status[t] = "processing" /\ UNCHANGED status)
  <2>1. CASE CreateTransfer(u) \/ FailBeforeStart(u) \/ ChunkThrows(u)
    BY <2>1 DEF TypeOK, CreateTransfer, FailBeforeStart, ChunkThrows
  <2>2. CASE PersistSigned(u) \/ MarkStarted(u)
    BY <2>2 DEF TypeOK, PersistSigned, MarkStarted
  <2>3. CASE SendTransaction(u) \/ ConfirmTransaction(u)
    BY <2>3 DEF TypeOK, SendTransaction, ConfirmTransaction
  <2>4. CASE UpdateTransferRecord(u)
    BY <2>4, RequestWrites DEF TypeOK
  <2>5. QED BY <1>1, <2>1, <2>2, <2>3, <2>4 DEF RequestStep
<1>2. ASSUME NEW u \in Transfers, Crash(u) PROVE req[t] = "started"
  BY <1>2 DEF TypeOK, Crash
<1>3. CASE CrashBatch
  BY <1>3 DEF TypeOK, CrashBatch
<1>4. CASE UNCHANGED req
  BY <1>4
<1>5. QED
  BY <1>1, <1>2, <1>3, <1>4, JobMoves, JobWrites DEF Next, vars, JobStep, JobAsks, CreateTransferBatch, ChunksDone,
    RecomputeTransferBatchStatus, FailUnlinkedRecipients, AdvanceConfirmedTransfer, Ages, Expires, Lands,
    Deepens, ForkDropped, ListStuck, ListSigned

LEMMA FailedStep ==
  TypeOK /\ Holding /\ Marks /\ Failures /\ FailedUnsent /\ [Next]_vars => FailedUnsent'
<1> SUFFICES ASSUME TypeOK, Holding, Marks, Failures, FailedUnsent, [Next]_vars,
                    NEW t \in Transfers, status'[t] = "failed", ~overtaken'[t], ~err'[t]
             PROVE  ~broadcast'[t] /\ req'[t] # "started"
  BY DEF FailedUnsent
<1>1. ~err[t] /\ ~overtaken[t]
  BY ErrorStays
<1>2. CASE status[t] = "failed"
  <2>1. ~broadcast[t] /\ req[t] # "started"
    BY <1>1, <1>2 DEF FailedUnsent
  <2>2. broadcast'[t] = broadcast[t]
    BY <2>1, BroadcastReached
  <2>3. QED BY <1>2, <2>1, <2>2, StartedReached
<1>3. CASE status[t] # "failed"
  <2>1. CASE req[t] = "failing" /\ req'[t] = "done" /\ UNCHANGED chain
    BY <1>1, <2>1 DEF Failures, chain
  <2>2. ASSUME NEW j \in Jobs, job[j].pc = "verdict", job[j].t = t, status'[t] = job[j].verdict,
               job[j].started = started[t], UNCHANGED <<chain, req>>
        PROVE  ~broadcast'[t] /\ req'[t] # "started"
    <3>1. ~started[t]
      BY <1>1, <2>2 DEF Failures
    <3>2. QED BY <2>2, <3>1 DEF Marks, chain
  <2>3. QED BY <1>3, <2>1, <2>2, StatusMoves
<1>4. QED BY <1>2, <1>3
-----------------------------------------------------------------------------
(* The batch and its recipients *)

LEMMA DerivedProcessing ==
  ASSUME NEW r, NEW t \in DOMAIN r, r[t] \in {"pending", "processing"}
  PROVE  deriveTransferBatchStatus(r) = "processing"
<1>1. r[t] \in {r[u] : u \in DOMAIN r} \cap {"pending", "processing"}
  OBVIOUS
<1>2. QED BY <1>1 DEF deriveTransferBatchStatus

BatchInv == BatchRequest /\ RecipientsFollowChunk /\ BatchIsDerived

(* A rejected chunk stays rejected. *)
LEMMA RejectedStays ==
  ASSUME TypeOK, Holding, [Next]_vars, NEW t \in Transfers, req[t] = "rejected"
  PROVE  req'[t] = "rejected" /\ signed'[t] = signed[t]
<1> USE DEF row, batchVars, chain
<1>1. ASSUME NEW u \in Transfers, RequestStep(u) PROVE req'[t] = "rejected" /\ signed'[t] = signed[t]
  <2>1. CASE CreateTransfer(u) \/ FailBeforeStart(u) \/ ChunkThrows(u)
    BY <2>1 DEF TypeOK, CreateTransfer, FailBeforeStart, ChunkThrows
  <2>2. CASE PersistSigned(u) \/ MarkStarted(u)
    BY <2>2 DEF TypeOK, PersistSigned, MarkStarted
  <2>3. CASE SendTransaction(u) \/ ConfirmTransaction(u)
    BY <2>3 DEF TypeOK, SendTransaction, ConfirmTransaction
  <2>4. CASE UpdateTransferRecord(u)
    BY <2>4, RequestWrites DEF TypeOK, UpdateTransferRecord
  <2>5. QED BY <1>1, <2>1, <2>2, <2>3, <2>4 DEF RequestStep
<1>2. CASE CrashBatch
  BY <1>2 DEF TypeOK, CrashBatch, Running
<1>3. ASSUME NEW u \in Transfers, Crash(u) PROVE req'[t] = "rejected" /\ signed'[t] = signed[t]
  BY <1>3 DEF TypeOK, Crash, Running
<1>4. CASE UNCHANGED <<req, signed>>
  BY <1>4
<1>5. QED
  BY <1>1, <1>2, <1>3, <1>4, JobMoves, JobWrites DEF Next, vars, JobStep, JobAsks, CreateTransferBatch, ChunksDone,
    RecomputeTransferBatchStatus, FailUnlinkedRecipients, AdvanceConfirmedTransfer, Ages, Expires, Lands,
    Deepens, ForkDropped, ListStuck, ListSigned

LEMMA UnsignedStep == TypeOK /\ Holding /\ Unsigned /\ [Next]_vars => Unsigned'
<1> SUFFICES ASSUME TypeOK, Holding, Unsigned, [Next]_vars, NEW t \in Transfers,
                    req'[t] \in {"idle", "rejected"}
             PROVE  ~signed'[t]
  BY DEF Unsigned
<1> USE DEF Unsigned, row, batchVars, chain
<1>1. ASSUME NEW u \in Transfers, RequestStep(u) PROVE ~signed'[t]
  <2>1. CASE CreateTransfer(u) \/ FailBeforeStart(u) \/ ChunkThrows(u)
    BY <2>1 DEF TypeOK, CreateTransfer, FailBeforeStart, ChunkThrows
  <2>2. CASE PersistSigned(u) \/ MarkStarted(u)
    BY <2>2 DEF TypeOK, PersistSigned, MarkStarted
  <2>3. CASE SendTransaction(u) \/ ConfirmTransaction(u)
    BY <2>3 DEF TypeOK, SendTransaction, ConfirmTransaction
  <2>4. CASE UpdateTransferRecord(u)
    BY <2>4, RequestWrites DEF TypeOK
  <2>5. QED BY <1>1, <2>1, <2>2, <2>3, <2>4 DEF RequestStep
<1>2. CASE CrashBatch
  BY <1>2 DEF TypeOK, CrashBatch
<1>3. ASSUME NEW u \in Transfers, Crash(u) PROVE ~signed'[t]
  BY <1>3 DEF TypeOK, Crash
<1>4. CASE UNCHANGED <<req, signed>>
  BY <1>4
<1>5. QED
  BY <1>1, <1>2, <1>3, <1>4, JobMoves, JobWrites DEF Next, vars, JobStep, JobAsks, CreateTransferBatch, ChunksDone,
    RecomputeTransferBatchStatus, FailUnlinkedRecipients, AdvanceConfirmedTransfer, Ages, Expires, Lands,
    Deepens, ForkDropped, ListStuck, ListSigned

(* An orphan stays one while its recipients are left alone. *)
Stays(u) == req[u] = "rejected" => req'[u] = "rejected" /\ signed'[u] = signed[u]

LEMMA OrphanStays ==
  ASSUME NEW u, Stays(u), rec'[u] = rec[u] PROVE Orphan(u) => Orphan(u)'
BY DEF Orphan, Stays

LEMMA SettlesBatch ==
  ASSUME TypeOK, BatchInv, NEW t \in Transfers, NEW v \in Settled, Settles(t, v), UNCHANGED breq,
         \A u \in Chunks : Stays(u)
  PROVE  BatchInv'
<1> USE DEF BatchInv
<1>0. \A u \in Chunks : rec'[u] = rec[u] => (Orphan(u) => Orphan(u)')
  BY OrphanStays
<1>1. CASE t \in Chunks
  <2>1. BatchRequest' /\ RecipientsFollowChunk'
    BY <1>0, <1>1 DEF TypeOK, BatchRequest, RecipientsFollowChunk, Settles, Settled
  <2>2. BatchIsDerived'
    BY <1>1 DEF Settles, BatchIsDerived
  <2>3. QED BY <2>1, <2>2
<1>2. CASE t \notin Chunks
  BY <1>0, <1>2, TransferAssumption DEF TypeOK, BatchRequest, RecipientsFollowChunk, BatchIsDerived, Settles
<1>3. QED BY <1>1, <1>2

LEMMA BatchStep ==
  /\ TypeOK /\ Holding /\ Fresh /\ Marks /\ Unsigned /\ ConfirmedIsOnChain /\ BatchInv /\ [Next]_vars
    => BatchInv'
<1> SUFFICES ASSUME TypeOK, Holding, Fresh, Marks, Unsigned, ConfirmedIsOnChain, BatchInv, [Next]_vars
             PROVE  BatchInv'
  OBVIOUS
<1> USE TransferAssumption DEF BatchInv, row, batchVars
<1>0. \A u \in Chunks : Stays(u) /\ (rec'[u] = rec[u] => (Orphan(u) => Orphan(u)'))
  <2>1. ASSUME NEW u \in Chunks PROVE Stays(u)
    BY RejectedStays DEF Stays
  <2>2. QED BY <2>1, OrphanStays
<1>1. CASE CreateTransferBatch
  <2>1. BatchRequest' /\ RecipientsFollowChunk'
    BY <1>0, <1>1 DEF TypeOK, BatchRequest, RecipientsFollowChunk, CreateTransferBatch
  <2>2. deriveTransferBatchStatus(rec') = "processing"
    <3>1. PICK t : t \in Chunks
      BY <1>1 DEF CreateTransferBatch
    <3>2. t \in DOMAIN rec' /\ rec'[t] = "pending"
      BY <1>1, <3>1 DEF CreateTransferBatch
    <3>3. QED BY <3>2, DerivedProcessing
  <2>3. QED BY <1>1, <2>1, <2>2 DEF CreateTransferBatch, BatchIsDerived
<1>2. CASE ChunksDone \/ CrashBatch \/ RecomputeTransferBatchStatus
  BY <1>0, <1>2 DEF BatchRequest, RecipientsFollowChunk, BatchIsDerived, ChunksDone, CrashBatch,
    RecomputeTransferBatchStatus
<1>3. ASSUME NEW t \in Chunks, FailUnlinkedRecipients(t) PROVE BatchInv'
  <2>1. /\ breq = "finishing" /\ req[t] = "rejected" /\ rec' = [rec EXCEPT ![t] = "failed"]
        /\ UNCHANGED <<status, signed, batch, breq, req>>
    BY <1>3 DEF FailUnlinkedRecipients
  <2>2. ~signed[t] /\ status[t] \notin {"confirmed", "finalized"}
    BY <2>1 DEF Unsigned, Marks, ConfirmedIsOnChain
  <2>3. Orphan(t)' /\ rec'[t] = "failed"
    BY <2>1, <2>2 DEF Orphan, TypeOK
  <2>4. RecipientsFollowChunk'
    <3>1. ASSUME NEW u \in Chunks, u # t PROVE rec'[u] = rec[u] /\ (Orphan(u) => Orphan(u)')
      BY <1>0, <2>1, <3>1 DEF TypeOK
    <3>2. QED BY <2>1, <2>2, <2>3, <3>1 DEF RecipientsFollowChunk, TypeOK, Settled
  <2>5. QED BY <2>1, <2>4 DEF BatchRequest, BatchIsDerived, TypeOK
<1>4. ASSUME NEW t \in Transfers, CreateTransfer(t) PROVE BatchInv'
  <2>1. CASE t \in Chunks /\ status' # status
    <3>1. /\ breq = "running" /\ rec[t] = "pending" /\ UNCHANGED <<batch, breq>>
          /\ status' = [status EXCEPT ![t] = "processing"] /\ rec' = [rec EXCEPT ![t] = "processing"]
      BY <1>4, <2>1 DEF CreateTransfer, Fresh, BatchRequest
    <3>2. BatchRequest' /\ RecipientsFollowChunk'
      BY <1>0, <2>1, <3>1 DEF TypeOK, BatchRequest, RecipientsFollowChunk
    <3>3. batch = "processing"
      BY <2>1, <3>1, DerivedProcessing DEF TypeOK, BatchIsDerived
    <3>4. deriveTransferBatchStatus(rec') = "processing"
      <4>1. t \in DOMAIN rec' /\ rec'[t] = "processing"
        BY <2>1, <3>1 DEF TypeOK
      <4>2. QED BY <4>1, DerivedProcessing
    <3>5. QED BY <3>1, <3>2, <3>3, <3>4 DEF BatchIsDerived
  <2>2. CASE t \in Chunks /\ status' = status
    <3>1. status[t] = "absent"
      BY <1>4 DEF CreateTransfer, Fresh
    <3>2. rec' = rec /\ UNCHANGED <<batch, breq>>
      BY <1>4, <2>2, <3>1 DEF CreateTransfer, TypeOK
    <3>3. QED BY <1>0, <2>2, <3>2 DEF BatchRequest, RecipientsFollowChunk, BatchIsDerived
  <2>3. CASE t \notin Chunks
    BY <1>0, <1>4, <2>3 DEF TypeOK, BatchRequest, RecipientsFollowChunk, BatchIsDerived, CreateTransfer
  <2>4. QED BY <2>1, <2>2, <2>3
<1>5. CASE UNCHANGED <<status, rec, batch, breq>>
  BY <1>0, <1>5 DEF BatchRequest, RecipientsFollowChunk, BatchIsDerived
<1>6. ASSUME NEW t \in Transfers, UpdateTransferRecord(t) PROVE BatchInv'
  <2>1. UNCHANGED breq
    BY <1>6, RequestWrites
  <2>2. UNCHANGED <<status, rec, batch>> \/ \E v \in Settled : Settles(t, v)
    BY <1>6, RequestWrites DEF Settled
  <2>3. QED BY <1>5, <2>1, <2>2, <1>0, SettlesBatch
<1>7. ASSUME NEW j \in Jobs, ApplyVerdict(j) PROVE BatchInv'
  <2>1. job[j].t \in Transfers /\ job[j].verdict \in Settled
    BY <1>7 DEF ApplyVerdict, Holding
  <2>2. UNCHANGED breq /\ (UNCHANGED <<status, rec, batch>> \/ Settles(job[j].t, job[j].verdict))
    BY <1>7, JobWrites
  <2>3. PICK t \in Transfers, v \in Settled : t = job[j].t /\ v = job[j].verdict
    BY <2>1
  <2>4. UNCHANGED <<status, rec, batch>> \/ Settles(t, v)
    BY <2>2, <2>3 DEF Settles
  <2>5. QED BY <1>5, <2>2, <2>4, <1>0, SettlesBatch
<1>8. ASSUME NEW t \in Transfers, AdvanceConfirmedTransfer(t) PROVE BatchInv'
  BY <1>0, <1>8 DEF TypeOK, BatchRequest, RecipientsFollowChunk, BatchIsDerived, AdvanceConfirmedTransfer
<1>9. ASSUME NEW j \in Jobs, JobAsks(j) PROVE BatchInv'
  BY <1>5, <1>9, JobMoves
<1>10. QED
  BY <1>1, <1>2, <1>3, <1>4, <1>5, <1>6, <1>7, <1>8, <1>9 DEF Next, vars, JobStep, JobAsks, RequestStep, ChunkThrows,
    FailBeforeStart, PersistSigned, MarkStarted, SendTransaction, ConfirmTransaction, Crash, Ages, Expires,
    Lands, Deepens, ForkDropped, ListStuck, ListSigned

-----------------------------------------------------------------------------
(* The inductive invariant *)

IInv ==
  /\ TypeOK /\ Holding /\ Fresh /\ Marks /\ Unsigned /\ Successes /\ Failures
  /\ ConfirmedIsOnChain /\ FailedUnsent /\ BatchInv

LEMMA InvInit == Init => IInv
<1> SUFFICES ASSUME Init PROVE IInv
  OBVIOUS
<1>1. TypeOK
  BY TypesInit
<1>2. Holding /\ Fresh /\ Marks /\ Unsigned /\ Successes /\ Failures /\ ConfirmedIsOnChain /\ FailedUnsent
  BY DEF Init, Holding, Fresh, Marks, Unsigned, Successes, Failures, ConfirmedIsOnChain, FailedUnsent, Idle
<1>3. BatchInv
  BY TransferAssumption DEF Init, BatchInv, BatchRequest, RecipientsFollowChunk, BatchIsDerived
<1>4. QED BY <1>1, <1>2, <1>3 DEF IInv

LEMMA InvStep == IInv /\ [Next]_vars => IInv'
BY TypesStep, HoldingStep, FreshStep, MarksStep, UnsignedStep, SuccessesStep, FailuresStep, ConfirmedStep, FailedStep,
  BatchStep DEF IInv

LEMMA Invariance == Spec => []IInv
BY InvInit, InvStep, PTL DEF Spec

(* No request and no overlapping pass reports a success the chain may      *)
(* still drop (ConfirmedIsOnChain).                                        *)
THEOREM ReportedSuccess == Spec => []ConfirmedIsOnChain
<1>1. IInv => ConfirmedIsOnChain
  BY DEF IInv
<1>2. QED BY <1>1, Invariance, PTL

(* A failure is reported only of funds that did not and will not move,     *)
(* but for the two recorded exceptions (FailedDidNotMove).                 *)
THEOREM ReportedFailure == Spec => []FailedDidNotMove
<1>1. IInv => FailedDidNotMove
  BY DEF IInv, FailedUnsent, FailedDidNotMove, Marks
<1>2. QED BY <1>1, Invariance, PTL

(* Recipients agree with the chunk that carries them, for any number of    *)
(* chunks settled by requests and passes in any order, even when the       *)
(* reply of a chunk's COMMIT is lost and its recipients are failed and     *)
(* unlinked behind its back: then nothing is ever signed for the chunk     *)
(* (RecipientsFollowChunk).                                                *)
THEOREM RecipientsAgree == Spec => []RecipientsFollowChunk
<1>1. IInv => RecipientsFollowChunk
  BY DEF IInv, BatchInv
<1>2. QED BY <1>1, Invariance, PTL

(* The batch is what its recipients add up to (BatchIsDerived). *)
THEOREM BatchAgrees == Spec => []BatchIsDerived
<1>1. IInv => BatchIsDerived
  BY DEF IInv, BatchInv
<1>2. QED BY <1>1, Invariance, PTL

(* A late request or pass never changes a settled row, except to finalize  *)
(* it (SettledStays).                                                      *)
THEOREM SettledForGood == Spec => SettledStays
<1>1. IInv /\ [Next]_vars =>
        [\A t \in Transfers :
           status[t] \in Settled => \/ status'[t] = status[t]
                                    \/ status[t] = "confirmed" /\ status'[t] = "finalized"]_vars
  <2> SUFFICES ASSUME IInv, [Next]_vars, NEW t \in Transfers, status[t] \in Settled, status'[t] # status[t]
               PROVE  status[t] = "confirmed" /\ status'[t] = "finalized"
    OBVIOUS
  <2>1. req[t] # "idle"
    BY DEF IInv, Fresh, Settled
  <2>2. QED BY <2>1, StatusMoves DEF IInv, Settled
<1>2. QED BY <1>1, Invariance, PTL DEF Spec, SettledStays
=============================================================================
