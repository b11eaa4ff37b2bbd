---------------------- MODULE ApprovedOperationsProofs ----------------------
(***************************************************************************)
(* The fence and the clearance of approved operations, and the refinement  *)
(* of the abstract gate, for any sets of operations, keys and executions.  *)
(***************************************************************************)
EXTENDS ApprovedOperations, TLAPS

(* An execution has an operation from its first step on. *)
Entered ==
  \A a \in Attempts : /\ pc[a] = "idle" => a \notin submitted
                      /\ pc[a] # "idle" => target[a] \in Ops

(* What enforcement is about to write. *)
Evaluated == \A o \in Ops : enf[o] = "evaluated" => outcome[o] # "none"

(* What the rows of an operation say of the decision on it. *)
Decided ==
  \A o \in Ops : /\ request[o] # "none" => outcome[o] = "pending_approval"
                 /\ status[o] = "evaluated" => outcome[o] = "evaluated"

(* How far enforcement can have brought the operation. *)
Enforced ==
  \A o \in Ops : /\ enf[o] = "idle" => status[o] = "absent"
                 /\ enf[o] \in {"created", "requested", "evaluated"} => status[o] = "created"
                 /\ enf[o] = "undo_operation" => status[o] \in {"created", "evaluated", "failed"}

ClearedOp(o) ==
  \/ request[o] = "approved"
  \/ request[o] = "none" /\ status[o] = "evaluated" /\ enf[o] = "done"

(* SubmittedWasCleared, strengthened to everything that runs. *)
Cleared == \A a \in Attempts : pc[a] # "idle" => ClearedOp(target[a])

(* An operation that policy allowed at once has one execution. *)
Alone ==
  \A a, b \in Attempts :
    pc[a] # "idle" /\ pc[b] # "idle" /\ target[a] = target[b] /\ ~Replay(a) => a = b

(* Past the fence of its operation. *)
Fenced(a) == pc[a] = "fenced" \/ a \in submitted

(* The fence closes the row for every other attempt. *)
FenceHolds ==
  \A a \in Attempts : Fenced(a) /\ Replay(a) => effect[target[a]] /\ attempt[target[a]] = a

(* What is past the insert of a keyed row is the execution that made it. *)
KeyHolds ==
  \A a \in Attempts :
    (pc[a] = "recorded" \/ Fenced(a)) /\ MyKey(a) # NoKey => creator[MyKey(a)] = a

RowsHaveCreators ==
  \A k \in Keys : /\ transfer[k] = "none" => creator[k] = None
                  /\ creator[k] # None => pc[creator[k]] # "idle" /\ MyKey(creator[k]) = k

(* A confirmed row was submitted by its creator. *)
ConfirmedRows ==
  \A k \in Keys : transfer[k] = "confirmed" => creator[k] \in submitted

SubmittedIsMarked == \A a \in Attempts : pc[a] = "submitted" => a \in submitted

(* A replay that is about to report success has something to report. *)
Answered ==
  \A a \in Attempts : pc[a] = "ok" /\ Replay(a) =>
    a \in submitted \/ (MyKey(a) # NoKey /\ transfer[MyKey(a)] = "confirmed")

-----------------------------------------------------------------------------
LEMMA TypesInit == Init => TypeOK
BY ApprovedAssumption DEF Init, TypeOK, Statuses, Terminal, Requests, Enforcing, PCs, Working, Transfers

LEMMA OnlyEnforcementEnforces ==
  [Next]_vars => UNCHANGED enforcement \/ \E o \in Ops : EnforcementStep(o)
BY DEF Next, vars, Approve, RejectOrCancel, LeaseLapses, FailInterruptedEffect,
  ClaimWalletOperationExecution, RunAllowed, HandlerStep, TryApprovedOperationReplayAuth,
  FindIdempotentKeyReplay, CreateTransferRecord, BeginEffect, Submit, Respond, HandlerFails,
  CompleteWalletOperationExecution, RenewLease, Crash, TrackPendingTransfer

LEMMA EvaluatedStep == TypeOK /\ Evaluated /\ [Next]_vars => Evaluated'
<1> SUFFICES ASSUME TypeOK, Evaluated, [Next]_vars, NEW p \in Ops, enf'[p] = "evaluated"
             PROVE  outcome'[p] # "none"
  BY DEF Evaluated
<1> USE DEF Evaluated, rows, enforcement, execution, payments, world
<1>1. ASSUME NEW o \in Ops, EnforcementStep(o) PROVE outcome'[p] # "none"
  <2>1. CASE CreateWalletOperation(o) \/ RecordPolicyEvaluation(o)
    BY <2>1 DEF TypeOK, CreateWalletOperation, RecordPolicyEvaluation
  <2>2. CASE Decide(o)
    BY <2>2 DEF TypeOK, Decide
  <2>3. CASE UpdateWalletOperationStatus(o) \/ EnforcementFails(o)
    BY <2>3 DEF TypeOK, UpdateWalletOperationStatus, EnforcementFails, Undo
  <2>4. CASE CompensateEnforcementFailure(o)
    BY <2>4 DEF TypeOK, CompensateEnforcementFailure
  <2>5. QED BY <1>1, <2>1, <2>2, <2>3, <2>4 DEF EnforcementStep
<1>2. CASE UNCHANGED enforcement
  BY <1>2
<1>3. QED BY <1>1, <1>2, OnlyEnforcementEnforces

LEMMA TypesStep == TypeOK /\ Evaluated /\ [Next]_vars => TypeOK'
<1> SUFFICES ASSUME TypeOK, Evaluated, [Next]_vars PROVE TypeOK'
  OBVIOUS
<1> USE DEF TypeOK, rows, enforcement, execution, payments, world
<1>1. ASSUME NEW o \in Ops, EnforcementStep(o) PROVE TypeOK'
  <2>1. CASE CreateWalletOperation(o) \/ RecordPolicyEvaluation(o)
    BY <2>1 DEF CreateWalletOperation, RecordPolicyEvaluation, Statuses, Enforcing
  <2>2. CASE Decide(o)
    BY <2>2 DEF Decide, Requests, Enforcing
  <2>3. CASE UpdateWalletOperationStatus(o)
    <3>1. outcome[o] \in Statuses
      <4>1. outcome[o] # "none"
        BY <2>3 DEF UpdateWalletOperationStatus, Evaluated
      <4>2. QED BY <4>1 DEF Statuses, Terminal
    <3>2. QED BY <2>3, <3>1 DEF UpdateWalletOperationStatus, Undo, Enforcing
  <2>4. CASE EnforcementFails(o)
    BY <2>4 DEF EnforcementFails, Undo, Enforcing
  <2>5. CASE CompensateEnforcementFailure(o)
    BY <2>5 DEF CompensateEnforcementFailure, ResolveRequest, Statuses, Terminal, Requests, Enforcing
  <2>6. QED BY <1>1, <2>1, <2>2, <2>3, <2>4, <2>5 DEF EnforcementStep
<1>2. ASSUME NEW o \in Ops, Approve(o) \/ RejectOrCancel(o) PROVE TypeOK'
  BY <1>2 DEF Approve, RejectOrCancel, ResolveRequest, Statuses, Terminal, Requests
<1>3. ASSUME NEW o \in Ops, LeaseLapses(o) \/ FailInterruptedEffect(o) PROVE TypeOK'
  BY <1>3, ApprovedAssumption DEF LeaseLapses, FailInterruptedEffect, Statuses, Terminal
<1>4. ASSUME NEW o \in Ops, NEW a \in Attempts,
             ClaimWalletOperationExecution(a, o) \/ RunAllowed(a, o)
      PROVE  TypeOK'
  BY <1>4 DEF ClaimWalletOperationExecution, RunAllowed, PCs, Working
<1>5. ASSUME NEW a \in Attempts, HandlerStep(a) PROVE TypeOK'
  <2>1. CASE TryApprovedOperationReplayAuth(a) \/ FindIdempotentKeyReplay(a)
    BY <2>1 DEF TryApprovedOperationReplayAuth, FindIdempotentKeyReplay, FoundTransfer, Moves, PCs, Working
  <2>2. CASE CreateTransferRecord(a)
    <3>1. PICK e : effect' = [effect EXCEPT ![target[a]] = e] /\ e \in {effect[target[a]], Replay(a)}
      BY <2>2, Zenon DEF CreateTransferRecord
    <3>2. effect' \in [Ops -> BOOLEAN]
      <4>1. target[a] \in Ops => e \in BOOLEAN
        BY <3>1 DEF Replay
      <4>2. QED BY <3>1, <4>1
    <3>3. QED
      BY <2>2, <3>2 DEF CreateTransferRecord, FoundTransfer, Moves, PCs, Working, Transfers
  <2>3. CASE BeginEffect(a) \/ Submit(a)
    BY <2>3 DEF BeginEffect, Submit, Replay, Moves, PCs, Working
  <2>4. CASE Respond(a) \/ HandlerFails(a)
    BY <2>4 DEF Respond, HandlerFails, SettleTransfer, Moves, PCs, Working, Transfers
  <2>5. CASE CompleteWalletOperationExecution(a)
    BY <2>5 DEF CompleteWalletOperationExecution, Moves, PCs, Working, Statuses, Terminal
  <2>6. QED BY <1>5, <2>1, <2>2, <2>3, <2>4, <2>5 DEF HandlerStep
<1>6. ASSUME NEW a \in Attempts, RenewLease(a) \/ Crash(a) PROVE TypeOK'
  BY <1>6, ApprovedAssumption DEF RenewLease, Crash, Moves, PCs
<1>7. ASSUME NEW k \in Keys, TrackPendingTransfer(k) PROVE TypeOK'
  BY <1>7 DEF TrackPendingTransfer, Transfers
<1>8. CASE UNCHANGED vars
  BY <1>8 DEF vars
<1>9. QED BY <1>1, <1>2, <1>3, <1>4, <1>5, <1>6, <1>7, <1>8 DEF Next

(* The variables of operations, executions and transfers keep their types  *)
(* (TypeOK).                                                               *)
THEOREM Typed == Spec => []TypeOK
<1>1. Init => Evaluated
  BY DEF Init, Evaluated
<1>2. QED BY <1>1, TypesInit, TypesStep, EvaluatedStep, PTL DEF Spec

-----------------------------------------------------------------------------
(* Decisions and enforcement *)

(* Executions move a status on only from "executing". *)
LEMMA ExecutionsCloseExecuting ==
  Entered /\ [Next]_vars =>
    \/ \E o \in Ops : EnforcementStep(o) \/ Approve(o) \/ RejectOrCancel(o)
    \/ UNCHANGED <<request, enforcement, status>>
    \/ \E o \in Ops, s \in {"completed", "failed"} :
         /\ status[o] = "executing" /\ status' = [status EXCEPT ![o] = s]
         /\ UNCHANGED <<request, enforcement>>
<1> SUFFICES ASSUME Entered, [Next]_vars,
                    ~\E o \in Ops : EnforcementStep(o) \/ Approve(o) \/ RejectOrCancel(o),
                    ~UNCHANGED <<request, enforcement, status>>
             PROVE  \E o \in Ops, s \in {"completed", "failed"} :
                      /\ status[o] = "executing" /\ status' = [status EXCEPT ![o] = s]
                      /\ UNCHANGED <<request, enforcement>>
  BY Zenon
<1>1. CASE \E o \in Ops : FailInterruptedEffect(o)
  BY <1>1 DEF FailInterruptedEffect
<1>2. CASE \E a \in Attempts : CompleteWalletOperationExecution(a)
  <2>1. PICK a \in Attempts : CompleteWalletOperationExecution(a)
    BY <1>2
  <2>2. target[a] \in Ops /\ status' # status
    BY <2>1 DEF CompleteWalletOperationExecution, Entered
  <2>3. QED BY <2>1, <2>2 DEF CompleteWalletOperationExecution, HoldsLease
<1>3. QED
  BY <1>1, <1>2 DEF Next, vars, rows, LeaseLapses, ClaimWalletOperationExecution, RunAllowed,
    HandlerStep, TryApprovedOperationReplayAuth, FindIdempotentKeyReplay, CreateTransferRecord,
    BeginEffect, Submit, Respond, HandlerFails, RenewLease, Crash, TrackPendingTransfer

LEMMA DecidedStep ==
  TypeOK /\ Evaluated /\ Entered /\ Decided /\ Enforced /\ [Next]_vars => Decided' /\ Enforced'
<1> SUFFICES ASSUME TypeOK, Evaluated, Entered, Decided, Enforced, [Next]_vars PROVE Decided' /\ Enforced'
  OBVIOUS
<1> USE DEF Decided, Enforced, rows, enforcement
<1>1. ASSUME NEW o \in Ops, EnforcementStep(o) PROVE Decided' /\ Enforced'
  <2>1. CASE CreateWalletOperation(o) \/ RecordPolicyEvaluation(o)
    BY <2>1 DEF TypeOK, CreateWalletOperation, RecordPolicyEvaluation
  <2>2. CASE Decide(o)
    BY <2>2 DEF TypeOK, Decide
  <2>3. CASE UpdateWalletOperationStatus(o)
    BY <2>3 DEF TypeOK, Evaluated, UpdateWalletOperationStatus, Undo
  <2>4. CASE EnforcementFails(o)
    BY <2>4 DEF TypeOK, EnforcementFails, Undo
  <2>5. CASE CompensateEnforcementFailure(o)
    BY <2>5 DEF TypeOK, CompensateEnforcementFailure, ResolveRequest
  <2>6. QED BY <1>1, <2>1, <2>2, <2>3, <2>4, <2>5 DEF EnforcementStep
<1>2. ASSUME NEW o \in Ops, Approve(o) \/ RejectOrCancel(o) PROVE Decided' /\ Enforced'
  BY <1>2 DEF TypeOK, Approve, RejectOrCancel, ResolveRequest
<1>3. CASE UNCHANGED <<request, enforcement, status>>
  BY <1>3
<1>4. ASSUME NEW o \in Ops, NEW s \in {"completed", "failed"}, status[o] = "executing",
             status' = [status EXCEPT ![o] = s], UNCHANGED <<request, enforcement>>
      PROVE  Decided' /\ Enforced'
  BY <1>4 DEF TypeOK
<1>5. QED BY <1>1, <1>2, <1>3, <1>4, ExecutionsCloseExecuting

(* What was cleared stays cleared, in the same way. *)
LEMMA ClearedStays ==
  ASSUME TypeOK, Entered, Decided, [Next]_vars, NEW p \in Ops, ClearedOp(p)
  PROVE  ClearedOp(p)' /\ request'[p] = request[p]
<1> USE DEF ClearedOp, rows, enforcement
<1>1. ASSUME NEW o \in Ops, EnforcementStep(o) PROVE ClearedOp(p)' /\ request'[p] = request[p]
  <2>1. CASE CreateWalletOperation(o) \/ RecordPolicyEvaluation(o)
    BY <2>1 DEF TypeOK, CreateWalletOperation, RecordPolicyEvaluation
  <2>2. CASE Decide(o)
    BY <2>2 DEF TypeOK, Decided, Decide
  <2>3. CASE UpdateWalletOperationStatus(o) \/ EnforcementFails(o)
    BY <2>3 DEF TypeOK, UpdateWalletOperationStatus, EnforcementFails
  <2>4. CASE CompensateEnforcementFailure(o)
    BY <2>4 DEF TypeOK, CompensateEnforcementFailure, ResolveRequest
  <2>5. QED BY <1>1, <2>1, <2>2, <2>3, <2>4 DEF EnforcementStep
<1>2. ASSUME NEW o \in Ops, Approve(o) \/ RejectOrCancel(o)
      PROVE  ClearedOp(p)' /\ request'[p] = request[p]
  BY <1>2 DEF TypeOK, Approve, RejectOrCancel, ResolveRequest
<1>3. CASE UNCHANGED <<request, enforcement, status>>
  BY <1>3
<1>4. ASSUME NEW o \in Ops, NEW s \in {"completed", "failed"}, status[o] = "executing",
             status' = [status EXCEPT ![o] = s], UNCHANGED <<request, enforcement>>
      PROVE  ClearedOp(p)' /\ request'[p] = request[p]
  BY <1>4 DEF TypeOK
<1>5. QED BY <1>1, <1>2, <1>3, <1>4, ExecutionsCloseExecuting

-----------------------------------------------------------------------------
(* Executions *)

(* An execution starts, goes on, or is left alone. *)
Starts(a, o) ==
  /\ pc[a] = "idle" /\ UNCHANGED payments
  /\ pc' = [pc EXCEPT ![a] = IF request[o] = "approved" THEN "claimed" ELSE "authed"]
  /\ target' = [target EXCEPT ![a] = o]
  /\ ClearedOp(o) /\ (request[o] # "approved" => \A b \in Attempts : target[b] # o)

GoesOn(a) ==
  /\ pc[a] # "idle" /\ UNCHANGED target
  /\ \E next \in PCs \ {"idle"} : pc' = [pc EXCEPT ![a] = next]
  /\ submitted' \in {submitted, submitted \cup {a}}

LEMMA ExecutionMoves ==
  TypeOK /\ Entered /\ Decided /\ [Next]_vars =>
    \/ \E a \in Attempts, o \in Ops : Starts(a, o)
    \/ \E a \in Attempts : GoesOn(a)
    \/ UNCHANGED <<execution, submitted>>
<1> SUFFICES ASSUME TypeOK, Entered, Decided, [Next]_vars
             PROVE  \/ \E a \in Attempts, o \in Ops : Starts(a, o)
                    \/ \E a \in Attempts : GoesOn(a)
                    \/ UNCHANGED <<execution, submitted>>
  OBVIOUS
<1> USE DEF execution, payments
<1>1. ASSUME NEW o \in Ops, NEW a \in Attempts,
             ClaimWalletOperationExecution(a, o) \/ RunAllowed(a, o)
      PROVE  Starts(a, o)
  BY <1>1 DEF ClaimWalletOperationExecution, RunAllowed, Starts, ClearedOp, Decided, TypeOK, Requests
<1>2. ASSUME NEW a \in Attempts, HandlerStep(a) \/ Crash(a) PROVE GoesOn(a)
  <2>1. CASE TryApprovedOperationReplayAuth(a) \/ FindIdempotentKeyReplay(a) \/ Crash(a)
    BY <2>1 DEF GoesOn, PCs, Working, TryApprovedOperationReplayAuth, FindIdempotentKeyReplay, Crash,
      FoundTransfer, Moves
  <2>2. CASE CreateTransferRecord(a)
    BY <2>2 DEF GoesOn, PCs, Working, CreateTransferRecord, FoundTransfer, Moves
  <2>3. CASE BeginEffect(a) \/ Submit(a)
    BY <2>3 DEF GoesOn, PCs, Working, BeginEffect, Submit, Moves
  <2>4. CASE Respond(a) \/ HandlerFails(a)
    BY <2>4 DEF GoesOn, PCs, Working, Respond, HandlerFails, Moves
  <2>5. CASE CompleteWalletOperationExecution(a)
    BY <2>5 DEF GoesOn, PCs, Working, CompleteWalletOperationExecution, Moves
  <2>6. QED BY <1>2, <2>1, <2>2, <2>3, <2>4, <2>5 DEF HandlerStep
<1>3. CASE ~(\E o \in Ops, a \in Attempts : ClaimWalletOperationExecution(a, o) \/ RunAllowed(a, o))
           /\ ~(\E a \in Attempts : HandlerStep(a) \/ Crash(a))
  BY <1>3 DEF Next, vars, EnforcementStep, CreateWalletOperation, Decide, RecordPolicyEvaluation,
    UpdateWalletOperationStatus, EnforcementFails, CompensateEnforcementFailure, Approve,
    RejectOrCancel, LeaseLapses, FailInterruptedEffect, RenewLease, TrackPendingTransfer
<1>4. QED BY <1>1, <1>2, <1>3

LEMMA ClearedStep ==
  TypeOK /\ Entered /\ Decided /\ Cleared /\ Alone /\ [Next]_vars
    => Entered' /\ Cleared' /\ Alone'
<1> SUFFICES ASSUME TypeOK, Entered, Decided, Cleared, Alone, [Next]_vars
             PROVE  Entered' /\ Cleared' /\ Alone'
  OBVIOUS
<1>1. ASSUME NEW p \in Ops, ClearedOp(p) PROVE ClearedOp(p)' /\ request'[p] = request[p]
  BY <1>1, ClearedStays
<1>2. ASSUME NEW a \in Attempts, NEW o \in Ops, Starts(a, o) PROVE Entered' /\ Cleared' /\ Alone'
  <2>1. Entered'
    BY <1>2 DEF Starts, Entered, TypeOK, payments
  <2>2. Cleared'
    BY <1>1, <1>2 DEF Starts, Entered, Cleared, TypeOK
  <2>3. Alone'
    BY <1>1, <1>2 DEF Starts, Entered, Cleared, Alone, Replay, TypeOK
  <2>4. QED BY <2>1, <2>2, <2>3
<1>3. ASSUME NEW a \in Attempts, GoesOn(a) PROVE Entered' /\ Cleared' /\ Alone'
  BY <1>1, <1>3 DEF GoesOn, Entered, Cleared, Alone, Replay, TypeOK
<1>4. CASE UNCHANGED <<execution, submitted>>
  BY <1>1, <1>4 DEF Entered, Cleared, Alone, Replay, TypeOK, execution
<1>5. QED BY <1>2, <1>3, <1>4, ExecutionMoves
-----------------------------------------------------------------------------
(* The fence *)

(* Only a claim moves a row to another attempt, and not past a fence; only *)
(* an execution of the operation sets or repeats a fence.                  *)
LEMMA RowMoves ==
  [Next]_vars =>
    \/ UNCHANGED <<attempt, effect>>
    \/ \E a \in Attempts, o \in Ops :
         ~effect[o] /\ attempt' = [attempt EXCEPT ![o] = a] /\ UNCHANGED effect
    \/ \E a \in Attempts :
         /\ pc[a] # "idle" /\ UNCHANGED attempt
         /\ \E e \in {effect[target[a]], Replay(a)} : effect' = [effect EXCEPT ![target[a]] = e]
<1> SUFFICES ASSUME [Next]_vars
             PROVE  \/ UNCHANGED <<attempt, effect>>
                    \/ \E a \in Attempts, o \in Ops :
                         ~effect[o] /\ attempt' = [attempt EXCEPT ![o] = a] /\ UNCHANGED effect
                    \/ \E a \in Attempts :
                         /\ pc[a] # "idle" /\ UNCHANGED attempt
                         /\ \E e \in {effect[target[a]], Replay(a)} :
                              effect' = [effect EXCEPT ![target[a]] = e]
  OBVIOUS
<1>1. ASSUME NEW o \in Ops, NEW a \in Attempts, ClaimWalletOperationExecution(a, o)
      PROVE  ~effect[o] /\ attempt' = [attempt EXCEPT ![o] = a] /\ UNCHANGED effect
  BY <1>1 DEF ClaimWalletOperationExecution
<1>2. ASSUME NEW a \in Attempts, CreateTransferRecord(a) \/ BeginEffect(a)
      PROVE  /\ pc[a] # "idle" /\ UNCHANGED attempt
             /\ \E e \in {effect[target[a]], Replay(a)} : effect' = [effect EXCEPT ![target[a]] = e]
  <2>1. CASE CreateTransferRecord(a)
    BY <2>1 DEF CreateTransferRecord
  <2>2. CASE BeginEffect(a)
    BY <2>2 DEF BeginEffect
  <2>3. QED BY <1>2, <2>1, <2>2
<1>3. CASE ~(\E o \in Ops, a \in Attempts : ClaimWalletOperationExecution(a, o))
           /\ ~(\E a \in Attempts : CreateTransferRecord(a) \/ BeginEffect(a))
  BY <1>3 DEF Next, vars, rows, EnforcementStep, CreateWalletOperation, Decide, RecordPolicyEvaluation,
    UpdateWalletOperationStatus, EnforcementFails, CompensateEnforcementFailure, Approve,
    RejectOrCancel, LeaseLapses, FailInterruptedEffect, RenewLease, TrackPendingTransfer, RunAllowed,
    HandlerStep, TryApprovedOperationReplayAuth, FindIdempotentKeyReplay, Submit, Respond,
    HandlerFails, CompleteWalletOperationExecution, Crash
<1>4. QED BY <1>1, <1>2, <1>3, Zenon

(* An execution passes the fence by beginning its effect. *)
LEMMA FencePassed ==
  ASSUME TypeOK, Entered, Decided, [Next]_vars, NEW b \in Attempts, Fenced(b)'
  PROVE  Fenced(b) \/ (BeginEffect(b) /\ pc[b] # "incomplete")
<1> USE DEF Fenced, TypeOK, execution, payments
<1>1. ASSUME NEW a \in Attempts, NEW o \in Ops, Starts(a, o) PROVE Fenced(b)
  BY <1>1 DEF Starts
<1>2. CASE UNCHANGED <<execution, submitted>>
  BY <1>2
<1>3. ASSUME NEW a \in Attempts, HandlerStep(a) \/ Crash(a)
      PROVE  Fenced(b) \/ (BeginEffect(b) /\ pc[b] # "incomplete")
  <2>1. CASE TryApprovedOperationReplayAuth(a) \/ FindIdempotentKeyReplay(a) \/ Crash(a)
    BY <2>1 DEF TryApprovedOperationReplayAuth, FindIdempotentKeyReplay, Crash, FoundTransfer, Moves
  <2>2. CASE CreateTransferRecord(a)
    BY <2>2 DEF CreateTransferRecord, FoundTransfer, Moves
  <2>3. CASE BeginEffect(a)
    <3>1. CASE a = b
      BY <2>3, <3>1 DEF BeginEffect, Moves
    <3>2. CASE a # b
      BY <2>3, <3>2 DEF BeginEffect, Moves
    <3>3. QED BY <3>1, <3>2
  <2>4. CASE Submit(a)
    BY <2>4 DEF Submit, Moves
  <2>5. CASE Respond(a) \/ HandlerFails(a)
    BY <2>5 DEF Respond, HandlerFails, Moves
  <2>6. CASE CompleteWalletOperationExecution(a)
    BY <2>6 DEF CompleteWalletOperationExecution, Moves
  <2>7. QED BY <1>3, <2>1, <2>2, <2>3, <2>4, <2>5, <2>6 DEF HandlerStep
<1>4. CASE ~(\E o \in Ops, a \in Attempts : ClaimWalletOperationExecution(a, o) \/ RunAllowed(a, o))
           /\ ~(\E a \in Attempts : HandlerStep(a) \/ Crash(a))
  BY <1>2, <1>4 DEF Next, vars, EnforcementStep, CreateWalletOperation, Decide, RecordPolicyEvaluation,
    UpdateWalletOperationStatus, EnforcementFails, CompensateEnforcementFailure, Approve,
    RejectOrCancel, LeaseLapses, FailInterruptedEffect, RenewLease, TrackPendingTransfer
<1>5. ASSUME NEW o \in Ops, NEW a \in Attempts,
             ClaimWalletOperationExecution(a, o) \/ RunAllowed(a, o)
      PROVE  Fenced(b)
  BY <1>5 DEF ClaimWalletOperationExecution, RunAllowed
<1>6. QED BY <1>3, <1>4, <1>5

LEMMA FenceStep ==
  TypeOK /\ Entered /\ Decided /\ Cleared /\ FenceHolds /\ [Next]_vars => FenceHolds'
<1> SUFFICES ASSUME TypeOK, Entered, Decided, Cleared, FenceHolds, [Next]_vars,
                    NEW b \in Attempts, Fenced(b)', Replay(b)'
             PROVE  effect'[target'[b]] /\ attempt'[target'[b]] = b
  BY DEF FenceHolds
<1>1. CASE Fenced(b)
  <2>1. pc[b] # "idle" /\ target[b] \in Ops
    BY <1>1 DEF Entered, Fenced
  <2>2. target'[b] = target[b] /\ Replay(b)
    <3>1. target'[b] = target[b]
      BY <2>1, ExecutionMoves DEF Starts, GoesOn, execution, TypeOK
    <3>2. request'[target[b]] = request[target[b]]
      BY <2>1, ClearedStays DEF Cleared
    <3>3. QED BY <3>1, <3>2 DEF Replay
  <2>3. effect[target[b]] /\ attempt[target[b]] = b
    BY <1>1, <2>2 DEF FenceHolds
  <2>4. CASE UNCHANGED <<attempt, effect>>
    BY <2>2, <2>3, <2>4
  <2>5. ASSUME NEW a \in Attempts, NEW o \in Ops,
               ~effect[o], attempt' = [attempt EXCEPT ![o] = a], UNCHANGED effect
        PROVE  effect'[target'[b]] /\ attempt'[target'[b]] = b
    <3>1. o # target[b]
      BY <2>3, <2>5
    <3>2. QED BY <2>1, <2>2, <2>3, <2>5, <3>1 DEF TypeOK
  <2>6. ASSUME NEW a \in Attempts, UNCHANGED attempt,
               NEW e \in {effect[target[a]], Replay(a)}, effect' = [effect EXCEPT ![target[a]] = e]
        PROVE  effect'[target'[b]] /\ attempt'[target'[b]] = b
    <3>1. CASE target[a] = target[b]
      <4>1. Replay(a)
        BY <2>2, <3>1 DEF Replay
      <4>2. e
        BY <2>3, <2>6, <3>1, <4>1
      <4>3. QED BY <2>1, <2>2, <2>3, <2>6, <3>1, <4>2 DEF TypeOK
    <3>2. CASE target[a] # target[b]
      BY <2>1, <2>2, <2>3, <2>6, <3>2 DEF TypeOK
    <3>3. QED BY <3>1, <3>2
  <2>7. QED BY <2>4, <2>5, <2>6, RowMoves
<1>2. CASE BeginEffect(b) /\ pc[b] # "incomplete"
  <2>1. pc[b] # "idle" /\ target[b] \in Ops /\ target' = target /\ Replay(b)
    <3>1. pc[b] # "idle" /\ target' = target
      BY <1>2 DEF BeginEffect, Moves
    <3>2. QED BY <1>2, <3>1 DEF BeginEffect, Entered, Replay
  <2>2. QED BY <1>2, <2>1 DEF BeginEffect, HoldsLease, TypeOK
<1>3. QED BY <1>1, <1>2, FencePassed
-----------------------------------------------------------------------------
(* The keyed rows *)

Inserts(a) ==
  LET k == MyKey(a) IN
  /\ pc[a] = "authed" /\ k \in Keys /\ transfer[k] = "none"
  /\ transfer' = [transfer EXCEPT ![k] = "processing"]
  /\ creator' = [creator EXCEPT ![k] = a]
  /\ pc' = [pc EXCEPT ![a] = "recorded"] /\ UNCHANGED <<target, submitted>>

Settles(k, t) ==
  /\ transfer[k] = "processing" /\ transfer' = [transfer EXCEPT ![k] = t]
  /\ t = "confirmed" => creator[k] \in submitted
  /\ UNCHANGED <<creator, submitted>>

(* A keyed row is inserted once, and settled once. *)
LEMMA TransferMoves ==
  TypeOK /\ Entered /\ KeyHolds /\ SubmittedIsMarked /\ [Next]_vars =>
    \/ UNCHANGED <<transfer, creator>>
    \/ \E a \in Attempts : Inserts(a)
    \/ \E k \in Keys, t \in {"confirmed", "failed"} : Settles(k, t)
<1> SUFFICES ASSUME TypeOK, Entered, KeyHolds, SubmittedIsMarked, [Next]_vars
             PROVE  \/ UNCHANGED <<transfer, creator>>
                    \/ \E a \in Attempts : Inserts(a)
                    \/ \E k \in Keys, t \in {"confirmed", "failed"} : Settles(k, t)
  OBVIOUS
<1>1. ASSUME NEW a \in Attempts, CreateTransferRecord(a)
      PROVE  UNCHANGED <<transfer, creator>> \/ Inserts(a)
  <2>1. MyKey(a) \in Keys
    BY <1>1, ApprovedAssumption DEF CreateTransferRecord, MyKey, Entered
  <2>2. QED BY <1>1, <2>1 DEF CreateTransferRecord, Inserts, Moves
<1>2. ASSUME NEW a \in Attempts, Respond(a) \/ HandlerFails(a)
      PROVE  \/ UNCHANGED <<transfer, creator>>
             \/ \E k \in Keys, t \in {"confirmed", "failed"} : Settles(k, t)
  <2>1. target[a] \in Ops /\ creator' = creator /\ submitted' = submitted
    BY <1>2 DEF Respond, HandlerFails, Entered, Working
  <2>2. CASE UNCHANGED transfer
    BY <2>1, <2>2
  <2>3. CASE ~UNCHANGED transfer
    <3>1. PICK t \in {"confirmed", "failed"} :
             SettleTransfer(a, t) /\ (t = "confirmed" => pc[a] = "submitted")
      BY <1>2, <2>3 DEF Respond, HandlerFails
    <3>2. MyKey(a) \in Keys
      BY <2>1, <2>3, <3>1, ApprovedAssumption DEF SettleTransfer, MyKey
    <3>3. MyKey(a) # NoKey
      BY <3>2, ApprovedAssumption
    <3>4. transfer[MyKey(a)] = "processing"
          /\ transfer' = [transfer EXCEPT ![MyKey(a)] = t]
      <4>1. transfer' = [transfer EXCEPT ![MyKey(a)] =
                           IF transfer[MyKey(a)] = "processing" THEN t ELSE transfer[MyKey(a)]]
        BY <3>1, <3>3 DEF SettleTransfer
      <4>2. transfer[MyKey(a)] # "processing" => transfer' = transfer
        BY <3>2, <4>1 DEF TypeOK
      <4>3. QED BY <2>3, <4>1, <4>2
    <3>5. t = "confirmed" => creator[MyKey(a)] \in submitted
      BY <3>1, <3>3 DEF KeyHolds, Fenced, SubmittedIsMarked
    <3>6. Settles(MyKey(a), t)
      BY <2>1, <3>4, <3>5 DEF Settles
    <3>7. QED BY <3>2, <3>6
  <2>4. QED BY <2>2, <2>3
<1>3. ASSUME NEW k \in Keys, TrackPendingTransfer(k)
      PROVE  \E t \in {"confirmed", "failed"} : Settles(k, t)
  BY <1>3 DEF TrackPendingTransfer, Settles
<1>4. CASE ~(\E a \in Attempts : CreateTransferRecord(a) \/ Respond(a) \/ HandlerFails(a))
           /\ ~(\E k \in Keys : TrackPendingTransfer(k))
  BY <1>4 DEF Next, vars, payments, EnforcementStep, CreateWalletOperation, Decide,
    RecordPolicyEvaluation, UpdateWalletOperationStatus, EnforcementFails,
    CompensateEnforcementFailure, Approve, RejectOrCancel, LeaseLapses, FailInterruptedEffect,
    ClaimWalletOperationExecution, RunAllowed, HandlerStep, TryApprovedOperationReplayAuth,
    FindIdempotentKeyReplay, BeginEffect, Submit, CompleteWalletOperationExecution, RenewLease, Crash
<1>5. QED BY <1>1, <1>2, <1>3, <1>4

(* An execution keeps its operation, and so its key; what it submitted     *)
(* stays submitted.                                                        *)
LEMMA ExecutionsKeep ==
  ASSUME TypeOK, Entered, Decided, Cleared, [Next]_vars, NEW b \in Attempts, pc[b] # "idle"
  PROVE  /\ pc'[b] # "idle" /\ target'[b] = target[b] /\ MyKey(b)' = MyKey(b)
         /\ Replay(b)' = Replay(b) /\ submitted \subseteq submitted'
<1>1. pc'[b] # "idle" /\ target'[b] = target[b] /\ submitted \subseteq submitted'
  <2>1. CASE \E a \in Attempts, o \in Ops : Starts(a, o)
    BY <2>1 DEF Starts, TypeOK, payments
  <2>2. CASE \E a \in Attempts : GoesOn(a)
    BY <2>2 DEF GoesOn, TypeOK
  <2>3. CASE UNCHANGED <<execution, submitted>>
    BY <2>3 DEF execution
  <2>4. QED BY <2>1, <2>2, <2>3, ExecutionMoves
<1>2. request'[target[b]] = request[target[b]]
  BY ClearedStays DEF Cleared, Entered
<1>3. QED BY <1>1, <1>2 DEF MyKey, Replay

LEMMA SubmittedStep ==
  TypeOK /\ Entered /\ Decided /\ SubmittedIsMarked /\ [Next]_vars => SubmittedIsMarked'
<1> SUFFICES ASSUME TypeOK, Entered, Decided, SubmittedIsMarked, [Next]_vars,
                    NEW b \in Attempts, pc'[b] = "submitted"
             PROVE  b \in submitted'
  BY DEF SubmittedIsMarked
<1> USE DEF TypeOK, execution, payments, SubmittedIsMarked
<1>1. ASSUME NEW a \in Attempts, HandlerStep(a) \/ Crash(a) PROVE b \in submitted'
  <2>1. CASE TryApprovedOperationReplayAuth(a) \/ FindIdempotentKeyReplay(a) \/ Crash(a)
    BY <2>1 DEF TryApprovedOperationReplayAuth, FindIdempotentKeyReplay, Crash, FoundTransfer, Moves
  <2>2. CASE CreateTransferRecord(a) \/ BeginEffect(a)
    BY <2>2 DEF CreateTransferRecord, BeginEffect, FoundTransfer, Moves
  <2>3. CASE Submit(a)
    BY <2>3 DEF Submit, Moves
  <2>4. CASE Respond(a) \/ HandlerFails(a) \/ CompleteWalletOperationExecution(a)
    BY <2>4 DEF Respond, HandlerFails, CompleteWalletOperationExecution, Moves
  <2>5. QED BY <1>1, <2>1, <2>2, <2>3, <2>4 DEF HandlerStep
<1>2. ASSUME NEW o \in Ops, NEW a \in Attempts,
             ClaimWalletOperationExecution(a, o) \/ RunAllowed(a, o)
      PROVE  b \in submitted'
  BY <1>2 DEF ClaimWalletOperationExecution, RunAllowed
<1>3. CASE ~(\E o \in Ops, a \in Attempts : ClaimWalletOperationExecution(a, o) \/ RunAllowed(a, o))
           /\ ~(\E a \in Attempts : HandlerStep(a) \/ Crash(a))
  BY <1>3 DEF Next, vars, EnforcementStep, CreateWalletOperation, Decide, RecordPolicyEvaluation,
    UpdateWalletOperationStatus, EnforcementFails, CompensateEnforcementFailure, Approve,
    RejectOrCancel, LeaseLapses, FailInterruptedEffect, RenewLease, TrackPendingTransfer
<1>4. QED BY <1>1, <1>2, <1>3

(* An execution is past its insert because it inserted. *)
LEMMA Recorded ==
  ASSUME TypeOK, Entered, Decided, [Next]_vars, NEW b \in Attempts, pc'[b] = "recorded"
  PROVE  pc[b] = "recorded" \/ (CreateTransferRecord(b) /\ transfer[MyKey(b)] = "none")
<1> USE DEF TypeOK, execution, payments
<1>1. ASSUME NEW a \in Attempts, HandlerStep(a) \/ Crash(a)
      PROVE  pc[b] = "recorded" \/ (CreateTransferRecord(b) /\ transfer[MyKey(b)] = "none")
  <2>1. CASE TryApprovedOperationReplayAuth(a) \/ FindIdempotentKeyReplay(a) \/ Crash(a)
    BY <2>1 DEF TryApprovedOperationReplayAuth, FindIdempotentKeyReplay, Crash, FoundTransfer, Moves
  <2>2. CASE CreateTransferRecord(a)
    <3>1. CASE a = b
      BY <2>2, <3>1 DEF CreateTransferRecord, FoundTransfer, Moves
    <3>2. CASE a # b
      BY <2>2, <3>2 DEF CreateTransferRecord, FoundTransfer, Moves
    <3>3. QED BY <3>1, <3>2
  <2>3. CASE BeginEffect(a) \/ Submit(a)
    BY <2>3 DEF BeginEffect, Submit, Moves
  <2>4. CASE Respond(a) \/ HandlerFails(a) \/ CompleteWalletOperationExecution(a)
    BY <2>4 DEF Respond, HandlerFails, CompleteWalletOperationExecution, Moves
  <2>5. QED BY <1>1, <2>1, <2>2, <2>3, <2>4 DEF HandlerStep
<1>2. ASSUME NEW o \in Ops, NEW a \in Attempts,
             ClaimWalletOperationExecution(a, o) \/ RunAllowed(a, o)
      PROVE  pc[b] = "recorded"
  BY <1>2 DEF ClaimWalletOperationExecution, RunAllowed
<1>3. CASE ~(\E o \in Ops, a \in Attempts : ClaimWalletOperationExecution(a, o) \/ RunAllowed(a, o))
           /\ ~(\E a \in Attempts : HandlerStep(a) \/ Crash(a))
  BY <1>3 DEF Next, vars, EnforcementStep, CreateWalletOperation, Decide, RecordPolicyEvaluation,
    UpdateWalletOperationStatus, EnforcementFails, CompensateEnforcementFailure, Approve,
    RejectOrCancel, LeaseLapses, FailInterruptedEffect, RenewLease, TrackPendingTransfer
<1>4. QED BY <1>1, <1>2, <1>3

LEMMA RowsStep ==
  TypeOK /\ Entered /\ Decided /\ Cleared /\ KeyHolds /\ RowsHaveCreators /\ ConfirmedRows
    /\ SubmittedIsMarked /\ [Next]_vars => RowsHaveCreators' /\ ConfirmedRows'
<1> SUFFICES ASSUME TypeOK, Entered, Decided, Cleared, KeyHolds, RowsHaveCreators, ConfirmedRows,
                    SubmittedIsMarked, [Next]_vars, NEW k \in Keys
             PROVE  /\ transfer'[k] = "none" => creator'[k] = None
                    /\ creator'[k] # None => pc'[creator'[k]] # "idle" /\ Key[target'[creator'[k]]] = k
                    /\ transfer'[k] = "confirmed" => creator'[k] \in submitted'
  BY DEF RowsHaveCreators, ConfirmedRows, MyKey
<1>1. ASSUME creator[k] # None
      PROVE  pc'[creator[k]] # "idle" /\ Key[target'[creator[k]]] = k /\ submitted \subseteq submitted'
  BY <1>1, ExecutionsKeep DEF RowsHaveCreators, TypeOK, MyKey
<1>2. creator[k] \in submitted => creator[k] # None
  BY ApprovedAssumption DEF TypeOK
<1>3. CASE UNCHANGED <<transfer, creator>>
  BY <1>1, <1>2, <1>3 DEF RowsHaveCreators, ConfirmedRows, MyKey
<1>4. ASSUME NEW a \in Attempts, Inserts(a)
      PROVE  /\ transfer'[k] = "none" => creator'[k] = None
             /\ creator'[k] # None => pc'[creator'[k]] # "idle" /\ Key[target'[creator'[k]]] = k
             /\ transfer'[k] = "confirmed" => creator'[k] \in submitted'
  <2>1. CASE k = MyKey(a)
    BY <1>4, <2>1 DEF Inserts, MyKey, TypeOK
  <2>2. CASE k # MyKey(a)
    BY <1>1, <1>2, <1>4, <2>2 DEF Inserts, RowsHaveCreators, ConfirmedRows, TypeOK
  <2>3. QED BY <2>1, <2>2
<1>5. ASSUME NEW j \in Keys, NEW t \in {"confirmed", "failed"}, Settles(j, t)
      PROVE  /\ transfer'[k] = "none" => creator'[k] = None
             /\ creator'[k] # None => pc'[creator'[k]] # "idle" /\ Key[target'[creator'[k]]] = k
             /\ transfer'[k] = "confirmed" => creator'[k] \in submitted'
  <2>1. CASE k = j
    BY <1>1, <1>2, <1>5, <2>1 DEF Settles, TypeOK
  <2>2. CASE k # j
    BY <1>1, <1>2, <1>5, <2>2 DEF Settles, RowsHaveCreators, ConfirmedRows, TypeOK
  <2>3. QED BY <2>1, <2>2
<1>6. QED BY <1>3, <1>4, <1>5, TransferMoves

LEMMA KeyStep ==
  TypeOK /\ Entered /\ Decided /\ Cleared /\ KeyHolds /\ RowsHaveCreators
    /\ SubmittedIsMarked /\ [Next]_vars => KeyHolds'
<1> SUFFICES ASSUME TypeOK, Entered, Decided, Cleared, KeyHolds, RowsHaveCreators,
                    SubmittedIsMarked, [Next]_vars,
                    NEW b \in Attempts, pc'[b] = "recorded" \/ Fenced(b)', MyKey(b)' # NoKey
             PROVE  creator'[MyKey(b)'] = b
  BY DEF KeyHolds
<1>1. CASE CreateTransferRecord(b) /\ transfer[MyKey(b)] = "none"
  <2>1. MyKey(b) \in Keys
    BY <1>1, ApprovedAssumption DEF CreateTransferRecord, MyKey, Entered
  <2>2. creator'[MyKey(b)] = b
    BY <1>1, <2>1 DEF CreateTransferRecord, TypeOK
  <2>3. MyKey(b)' = MyKey(b)
    BY <1>1 DEF CreateTransferRecord, FoundTransfer, Moves, MyKey
  <2>4. QED BY <2>2, <2>3
<1>2. CASE pc[b] = "recorded" \/ Fenced(b)
  <2>1. pc[b] # "idle"
    BY <1>2 DEF Fenced, Entered
  <2>2. MyKey(b)' = MyKey(b)
    BY <2>1, ExecutionsKeep
  <2>3. creator[MyKey(b)] = b /\ MyKey(b) \in Keys
    <3>1. creator[MyKey(b)] = b
      BY <1>2, <2>2 DEF KeyHolds
    <3>2. QED BY <2>1, <2>2, <3>1, ApprovedAssumption DEF Entered, MyKey
  <2>4. CASE UNCHANGED creator
    BY <2>2, <2>3, <2>4
  <2>5. ASSUME NEW a \in Attempts, Inserts(a) PROVE creator'[MyKey(b)] = b
    <3>1. MyKey(a) # MyKey(b)
      BY <2>3, <2>5, ApprovedAssumption DEF Inserts, RowsHaveCreators
    <3>2. QED BY <2>3, <2>5, <3>1 DEF Inserts, TypeOK
  <2>6. QED BY <2>2, <2>4, <2>5, TransferMoves DEF Settles
<1>3. CASE BeginEffect(b) /\ pc[b] # "incomplete"
  <2>1. target' = target /\ MyKey(b)' = MyKey(b)
    BY <1>3 DEF BeginEffect, Moves, MyKey
  <2>2. QED BY <1>2, <1>3, <2>1 DEF BeginEffect
<1>4. QED BY <1>1, <1>2, <1>3, Recorded, FencePassed
-----------------------------------------------------------------------------
(* What a replay reports *)

LEMMA AnsweredStep ==
  TypeOK /\ Entered /\ Decided /\ Cleared /\ KeyHolds /\ SubmittedIsMarked /\ Answered
    /\ [Next]_vars => Answered'
<1> SUFFICES ASSUME TypeOK, Entered, Decided, Cleared, KeyHolds, SubmittedIsMarked, Answered,
                    [Next]_vars, NEW b \in Attempts, pc'[b] = "ok", Replay(b)'
             PROVE  b \in submitted' \/ (MyKey(b)' # NoKey /\ transfer'[MyKey(b)'] = "confirmed")
  BY DEF Answered
<1> DEFINE Known == b \in submitted \/ (MyKey(b) # NoKey /\ transfer[MyKey(b)] = "confirmed")
<1>1. ASSUME pc[b] # "idle", Known
      PROVE  b \in submitted' \/ (MyKey(b)' # NoKey /\ transfer'[MyKey(b)'] = "confirmed")
  <2>1. submitted \subseteq submitted' /\ MyKey(b)' = MyKey(b)
    BY <1>1, ExecutionsKeep
  <2>2. CASE b \in submitted
    BY <2>1, <2>2
  <2>3. CASE MyKey(b) # NoKey /\ transfer[MyKey(b)] = "confirmed"
    <3>1. MyKey(b) \in Keys
      BY <1>1, <2>3, ApprovedAssumption DEF Entered, MyKey
    <3>2. transfer'[MyKey(b)] = "confirmed"
      <4>1. CASE UNCHANGED transfer
        BY <2>3, <4>1
      <4>2. ASSUME NEW a \in Attempts, Inserts(a) PROVE transfer'[MyKey(b)] = "confirmed"
        BY <2>3, <3>1, <4>2 DEF Inserts, TypeOK
      <4>3. ASSUME NEW k \in Keys, NEW t \in {"confirmed", "failed"}, Settles(k, t)
            PROVE  transfer'[MyKey(b)] = "confirmed"
        BY <2>3, <3>1, <4>3 DEF Settles, TypeOK
      <4>4. QED BY <4>1, <4>2, <4>3, TransferMoves
    <3>3. QED BY <2>1, <2>3, <3>2
  <2>4. QED BY <1>1, <2>2, <2>3
<1>2. CASE pc[b] = "ok"
  <2>1. Replay(b)
    BY <1>2, ExecutionsKeep
  <2>2. QED BY <1>1, <1>2, <2>1 DEF Answered
<1>3. CASE pc[b] # "ok" /\ pc[b] # "idle"
  <2>1. Replay(b)
    BY <1>3, ExecutionsKeep
  <2>2. FindIdempotentKeyReplay(b) \/ CreateTransferRecord(b) \/ Respond(b)
    <3> USE DEF TypeOK, execution
    <3>1. ASSUME NEW a \in Attempts, HandlerStep(a) \/ Crash(a)
          PROVE  FindIdempotentKeyReplay(b) \/ CreateTransferRecord(b) \/ Respond(b)
      <4>1. CASE a = b
        <5>1. CASE TryApprovedOperationReplayAuth(a) \/ Crash(a)
          BY <1>3, <4>1, <5>1 DEF TryApprovedOperationReplayAuth, Crash, Moves
        <5>2. CASE BeginEffect(a) \/ Submit(a)
          BY <1>3, <4>1, <5>2 DEF BeginEffect, Submit, Moves
        <5>3. CASE HandlerFails(a) \/ CompleteWalletOperationExecution(a)
          BY <1>3, <4>1, <5>3 DEF HandlerFails, CompleteWalletOperationExecution, Moves
        <5>4. QED BY <3>1, <4>1, <5>1, <5>2, <5>3 DEF HandlerStep
      <4>2. CASE a # b
        <5>1. \E next : pc' = [pc EXCEPT ![a] = next]
          BY <3>1 DEF HandlerStep, Crash, TryApprovedOperationReplayAuth, FindIdempotentKeyReplay,
            FoundTransfer, CreateTransferRecord, BeginEffect, Submit, Respond, HandlerFails,
            CompleteWalletOperationExecution, Moves
        <5>2. QED BY <1>3, <4>2, <5>1
      <4>3. QED BY <4>1, <4>2
    <3>2. ASSUME NEW o \in Ops, NEW a \in Attempts,
                 ClaimWalletOperationExecution(a, o) \/ RunAllowed(a, o)
          PROVE  FALSE
      BY <1>3, <3>2 DEF ClaimWalletOperationExecution, RunAllowed
    <3>3. CASE ~(\E o \in Ops, a \in Attempts : ClaimWalletOperationExecution(a, o) \/ RunAllowed(a, o))
               /\ ~(\E a \in Attempts : HandlerStep(a) \/ Crash(a))
      <4>1. UNCHANGED pc
        BY <3>3 DEF Next, vars, EnforcementStep, CreateWalletOperation, Decide, RecordPolicyEvaluation,
          UpdateWalletOperationStatus, EnforcementFails, CompensateEnforcementFailure, Approve,
          RejectOrCancel, LeaseLapses, FailInterruptedEffect, RenewLease, TrackPendingTransfer
      <4>2. QED BY <1>3, <4>1
    <3>4. QED BY <3>1, <3>2, <3>3
  <2>3. Known
    <3>1. CASE FindIdempotentKeyReplay(b)
      <4>1. AnswersReplay(b)
        BY <1>3, <3>1 DEF FindIdempotentKeyReplay, FoundTransfer, Moves, TypeOK
      <4>2. QED BY <2>1, <3>1, <4>1 DEF FindIdempotentKeyReplay, AnswersReplay
    <3>2. CASE CreateTransferRecord(b)
      <4>1. AnswersReplay(b)
        BY <1>3, <3>2 DEF CreateTransferRecord, FoundTransfer, Moves, TypeOK
      <4>2. QED BY <2>1, <3>2, <4>1 DEF CreateTransferRecord, AnswersReplay
    <3>3. CASE Respond(b)
      BY <3>3 DEF Respond, SubmittedIsMarked
    <3>4. QED BY <2>2, <3>1, <3>2, <3>3
  <2>4. QED BY <1>1, <1>3, <2>3
<1>4. CASE pc[b] = "idle"
  <2>1. CASE \E a \in Attempts, o \in Ops : Starts(a, o)
    BY <1>4, <2>1 DEF Starts, TypeOK
  <2>2. CASE \E a \in Attempts : GoesOn(a)
    BY <1>4, <2>2 DEF GoesOn, TypeOK
  <2>3. CASE UNCHANGED <<execution, submitted>>
    BY <1>4, <2>3 DEF execution
  <2>4. QED BY <2>1, <2>2, <2>3, ExecutionMoves
<1>5. QED BY <1>2, <1>3, <1>4

LEMMA CompletedStep ==
  TypeOK /\ Entered /\ Decided /\ Enforced /\ Evaluated /\ Cleared /\ RowsHaveCreators /\ ConfirmedRows
    /\ Answered /\ CompletedWasSubmitted /\ [Next]_vars => CompletedWasSubmitted'
<1> SUFFICES ASSUME TypeOK, Entered, Decided, Enforced, Evaluated, Cleared, RowsHaveCreators,
                    ConfirmedRows, Answered, CompletedWasSubmitted, [Next]_vars,
                    NEW o \in Ops, status'[o] = "completed"
             PROVE  \E a \in submitted' : target'[a] = o \/ (Key[o] # NoKey /\ Key[target'[a]] = Key[o])
  BY DEF CompletedWasSubmitted, MyKey
<1>1. ASSUME NEW a \in submitted, target[a] = o \/ (Key[o] # NoKey /\ Key[target[a]] = Key[o])
      PROVE  \E b \in submitted' : target'[b] = o \/ (Key[o] # NoKey /\ Key[target'[b]] = Key[o])
  <2>1. a \in Attempts /\ pc[a] # "idle"
    BY DEF Entered, TypeOK
  <2>2. a \in submitted' /\ target'[a] = target[a]
    BY <2>1, ExecutionsKeep
  <2>3. QED BY <1>1, <2>2
<1>2. CASE status[o] = "completed"
  BY <1>1, <1>2 DEF CompletedWasSubmitted, MyKey
<1>3. ASSUME NEW a \in Attempts, CompleteWalletOperationExecution(a), status[o] # "completed"
      PROVE  \E b \in submitted : target[b] = o \/ (Key[o] # NoKey /\ Key[target[b]] = Key[o])
  <2>1. pc[a] = "ok" /\ Replay(a) /\ target[a] = o
    BY <1>3 DEF CompleteWalletOperationExecution, Entered, TypeOK
  <2>2. CASE a \in submitted
    BY <2>1, <2>2
  <2>3. CASE MyKey(a) # NoKey /\ transfer[MyKey(a)] = "confirmed"
    <3>1. MyKey(a) \in Keys /\ MyKey(a) = Key[o]
      BY <2>1, <2>3, ApprovedAssumption DEF MyKey
    <3>2. creator[MyKey(a)] \in submitted
      BY <2>3, <3>1 DEF ConfirmedRows
    <3>3. creator[MyKey(a)] # None
      BY <3>2, ApprovedAssumption DEF TypeOK
    <3>4. Key[target[creator[MyKey(a)]]] = MyKey(a)
      BY <3>1, <3>3 DEF RowsHaveCreators, MyKey
    <3>5. QED BY <2>3, <3>1, <3>2, <3>4
  <2>4. QED BY <2>1, <2>2, <2>3 DEF Answered
<1>4. CASE status[o] # "completed" /\ ~\E a \in Attempts : CompleteWalletOperationExecution(a)
  <2> USE DEF TypeOK, rows
  <2>1. ASSUME NEW p \in Ops, EnforcementStep(p) PROVE FALSE
    <3>1. CASE CreateWalletOperation(p) \/ RecordPolicyEvaluation(p) \/ Decide(p) \/ EnforcementFails(p)
      BY <1>4, <3>1 DEF CreateWalletOperation, RecordPolicyEvaluation, Decide, EnforcementFails
    <3>2. CASE UpdateWalletOperationStatus(p)
      BY <1>4, <3>2 DEF UpdateWalletOperationStatus
    <3>3. CASE CompensateEnforcementFailure(p)
      BY <1>4, <3>3 DEF CompensateEnforcementFailure, ResolveRequest
    <3>4. QED BY <2>1, <3>1, <3>2, <3>3 DEF EnforcementStep
  <2>2. ASSUME NEW p \in Ops, Approve(p) \/ RejectOrCancel(p) \/ FailInterruptedEffect(p) PROVE FALSE
    BY <1>4, <2>2 DEF Approve, RejectOrCancel, FailInterruptedEffect, ResolveRequest
  <2>3. QED
    BY <1>4, <2>1, <2>2 DEF Next, vars, LeaseLapses, ClaimWalletOperationExecution, RunAllowed,
      HandlerStep, TryApprovedOperationReplayAuth, FindIdempotentKeyReplay, CreateTransferRecord,
      BeginEffect, Submit, Respond, HandlerFails, RenewLease, Crash, TrackPendingTransfer
<1>5. QED BY <1>1, <1>2, <1>3, <1>4
-----------------------------------------------------------------------------
(* The inductive invariant *)

IInv ==
  /\ TypeOK /\ Evaluated /\ Decided /\ Enforced
  /\ Entered /\ Cleared /\ Alone /\ FenceHolds
  /\ KeyHolds /\ RowsHaveCreators /\ ConfirmedRows /\ SubmittedIsMarked /\ Answered
  /\ CompletedWasSubmitted

LEMMA InvInit == Init => IInv
<1> SUFFICES ASSUME Init PROVE IInv
  OBVIOUS
<1>1. TypeOK
  BY TypesInit
<1>2. QED
  BY <1>1 DEF Init, IInv, Evaluated, Decided, Enforced, Entered, Cleared, Alone, FenceHolds, Fenced,
    KeyHolds, RowsHaveCreators, ConfirmedRows, SubmittedIsMarked, Answered, CompletedWasSubmitted

LEMMA InvStep == IInv /\ [Next]_vars => IInv'
BY TypesStep, EvaluatedStep, DecidedStep, ClearedStep, FenceStep, KeyStep, RowsStep, SubmittedStep,
  AnsweredStep, CompletedStep DEF IInv

LEMMA Invariance == Spec => []IInv
BY InvInit, InvStep, PTL DEF Spec

(* Two submitted executions of one operation are the same. *)
LEMMA SameOperation ==
  ASSUME IInv, NEW a \in Attempts, NEW b \in Attempts, Fenced(a), Fenced(b), target[a] = target[b]
  PROVE  a = b
<1>1. pc[a] # "idle" /\ pc[b] # "idle"
  BY DEF IInv, Entered, Fenced
<1>2. CASE Replay(a)
  BY <1>2 DEF IInv, FenceHolds, Replay
<1>3. CASE ~Replay(a)
  BY <1>1, <1>3 DEF IInv, Alone
<1>4. QED BY <1>2, <1>3

LEMMA SameKey ==
  ASSUME IInv, NEW a \in Attempts, NEW b \in Attempts, Fenced(a), Fenced(b),
         MyKey(a) = MyKey(b), MyKey(a) # NoKey
  PROVE  a = b
BY DEF IInv, KeyHolds

(* However attempts lose their leases to each other, at most one of the    *)
(* executions of an operation submits (OneSubmissionPerOperation).         *)
THEOREM SubmittedOnce == Spec => []OneSubmissionPerOperation
<1>1. IInv => OneSubmissionPerOperation
  BY SameOperation DEF IInv, TypeOK, OneSubmissionPerOperation, Fenced
<1>2. QED BY <1>1, Invariance, PTL

(* The unique index on the Idempotency-Key admits one submission per key,  *)
(* whatever operations repeat it (OneSubmissionPerKey).                    *)
THEOREM SubmittedOncePerKey == Spec => []OneSubmissionPerKey
<1>1. IInv => OneSubmissionPerKey
  BY SameKey DEF IInv, TypeOK, OneSubmissionPerKey, Fenced
<1>2. QED BY <1>1, Invariance, PTL

(* Nothing is submitted for an operation that was rejected, withdrawn or   *)
(* whose enforcement failed (SubmittedWasCleared).                         *)
THEOREM SubmittedCleared == Spec => []SubmittedWasCleared
<1>1. IInv => SubmittedWasCleared
  BY DEF IInv, TypeOK, Entered, Cleared, ClearedOp, SubmittedWasCleared
<1>2. QED BY <1>1, Invariance, PTL

(* A replay that reports success submitted, or found a confirmed transfer  *)
(* under its key that was (CompletedWasSubmitted).                         *)
THEOREM CompletedSubmitted == Spec => []CompletedWasSubmitted
<1>1. IInv => CompletedWasSubmitted
  BY DEF IInv
<1>2. QED BY <1>1, Invariance, PTL

LEMMA RefusedStays ==
  ASSUME TypeOK, Entered, Decided, [Next]_vars, NEW p \in Ops, request[p] \notin {"none", "pending"}
  PROVE  request'[p] = request[p]
<1> USE DEF rows, enforcement
<1>1. ASSUME NEW o \in Ops, EnforcementStep(o) PROVE request'[p] = request[p]
  <2>1. CASE CreateWalletOperation(o) \/ RecordPolicyEvaluation(o)
    BY <2>1 DEF CreateWalletOperation, RecordPolicyEvaluation
  <2>2. CASE Decide(o)
    BY <2>2 DEF TypeOK, Decided, Decide
  <2>3. CASE UpdateWalletOperationStatus(o) \/ EnforcementFails(o)
    BY <2>3 DEF UpdateWalletOperationStatus, EnforcementFails
  <2>4. CASE CompensateEnforcementFailure(o)
    BY <2>4 DEF TypeOK, CompensateEnforcementFailure, ResolveRequest
  <2>5. QED BY <1>1, <2>1, <2>2, <2>3, <2>4 DEF EnforcementStep
<1>2. ASSUME NEW o \in Ops, Approve(o) \/ RejectOrCancel(o) PROVE request'[p] = request[p]
  BY <1>2 DEF TypeOK, Approve, RejectOrCancel, ResolveRequest
<1>3. QED BY <1>1, <1>2, ExecutionsCloseExecuting

LEMMA ClosedStays ==
  ASSUME TypeOK, Entered, Decided, Enforced, [Next]_vars, NEW p \in Ops,
         status[p] \in {"completed", "failed", "canceled"}
  PROVE  status'[p] = status[p]
<1> USE DEF rows, enforcement
<1>1. ASSUME NEW o \in Ops, EnforcementStep(o) PROVE status'[p] = status[p]
  <2>1. CASE CreateWalletOperation(o) \/ RecordPolicyEvaluation(o) \/ Decide(o) \/ EnforcementFails(o)
    BY <2>1 DEF TypeOK, Enforced, CreateWalletOperation, RecordPolicyEvaluation, Decide, EnforcementFails
  <2>2. CASE UpdateWalletOperationStatus(o)
    BY <2>2 DEF TypeOK, Enforced, UpdateWalletOperationStatus
  <2>3. CASE CompensateEnforcementFailure(o)
    BY <2>3 DEF TypeOK, Enforced, CompensateEnforcementFailure, ResolveRequest
  <2>4. QED BY <1>1, <2>1, <2>2, <2>3 DEF EnforcementStep
<1>2. ASSUME NEW o \in Ops, Approve(o) \/ RejectOrCancel(o) PROVE status'[p] = status[p]
  BY <1>2 DEF TypeOK, Approve, RejectOrCancel, ResolveRequest
<1>3. QED BY <1>1, <1>2, ExecutionsCloseExecuting DEF TypeOK

(* No late enforcement, attempt or job reopens a closed operation or       *)
(* resolves a request again (ClosedStaysClosed).                           *)
THEOREM ClosedForGood == Spec => ClosedStaysClosed
<1>1. IInv /\ [Next]_vars =>
        [\A o \in Ops :
           /\ status[o] \in {"completed", "failed", "canceled"} => status'[o] = status[o]
           /\ request[o] \notin {"none", "pending"} => request'[o] = request[o]]_vars
  BY ClosedStays, RefusedStays DEF IInv
<1>2. QED BY <1>1, Invariance, PTL DEF Spec, ClosedStaysClosed

-----------------------------------------------------------------------------
(* The refinement of the gate *)

LEMMA OneOperationMoves ==
  TypeOK /\ Entered /\ [Next]_vars =>
    \/ UNCHANGED <<request, enf, status>>
    \/ \E o \in Ops : \A p \in Ops \ {o} :
         request'[p] = request[p] /\ enf'[p] = enf[p] /\ status'[p] = status[p]
<1> SUFFICES ASSUME TypeOK, Entered, [Next]_vars
             PROVE  \/ UNCHANGED <<request, enf, status>>
                    \/ \E o \in Ops : \A p \in Ops \ {o} :
                         request'[p] = request[p] /\ enf'[p] = enf[p] /\ status'[p] = status[p]
  OBVIOUS
<1> USE DEF TypeOK, rows, enforcement
<1>1. ASSUME NEW o \in Ops, EnforcementStep(o), NEW p \in Ops \ {o}
      PROVE  request'[p] = request[p] /\ enf'[p] = enf[p] /\ status'[p] = status[p]
  <2>1. CASE CreateWalletOperation(o) \/ RecordPolicyEvaluation(o)
    BY <2>1 DEF CreateWalletOperation, RecordPolicyEvaluation
  <2>2. CASE Decide(o)
    BY <2>2 DEF Decide
  <2>3. CASE UpdateWalletOperationStatus(o) \/ EnforcementFails(o)
    BY <2>3 DEF UpdateWalletOperationStatus, EnforcementFails
  <2>4. CASE CompensateEnforcementFailure(o)
    BY <2>4 DEF CompensateEnforcementFailure, ResolveRequest
  <2>5. QED BY <1>1, <2>1, <2>2, <2>3, <2>4 DEF EnforcementStep
<1>2. ASSUME NEW o \in Ops, Approve(o) \/ RejectOrCancel(o), NEW p \in Ops \ {o}
      PROVE  request'[p] = request[p] /\ enf'[p] = enf[p] /\ status'[p] = status[p]
  BY <1>2 DEF Approve, RejectOrCancel, ResolveRequest
<1>3. ASSUME NEW o \in Ops, NEW s, status' = [status EXCEPT ![o] = s],
             UNCHANGED <<request, enforcement>>, NEW p \in Ops \ {o}
      PROVE  request'[p] = request[p] /\ enf'[p] = enf[p] /\ status'[p] = status[p]
  BY <1>3
<1>4. QED BY <1>1, <1>2, <1>3, ExecutionsCloseExecuting

(* A verdict, once reached, stays. *)
LEMMA VerdictStays ==
  ASSUME IInv, [Next]_vars, NEW p \in Ops, Verdict(p) # "undecided"
  PROVE  Verdict(p)' = Verdict(p)
<1>1. CASE Verdict(p) = "cleared"
  <2>1. ClearedOp(p)
    BY <1>1 DEF Verdict, ClearedOp
  <2>2. ClearedOp(p)'
    BY <2>1, ClearedStays DEF IInv
  <2>3. QED BY <1>1, <2>2 DEF Verdict, ClearedOp
<1>2. CASE Verdict(p) # "cleared"
  <2>1. request[p] \in {"rejected", "canceled", "failed"} /\ Verdict(p) = "refused"
    BY <1>2 DEF Verdict
  <2>2. request'[p] = request[p]
    BY <2>1, RefusedStays DEF IInv
  <2>3. QED BY <2>1, <2>2 DEF Verdict
<1>3. QED BY <1>1, <1>2

LEMMA ResolveRefines ==
  ASSUME IInv, [Next]_vars, UNCHANGED submitted PROVE [Gate!Next]_(Gate!vars)
<1> DEFINE V == [o \in Ops |-> Verdict(o)]
           W == [o \in Ops |-> Verdict(o)']
           S == {target[a] : a \in submitted}
           T == {target'[a] : a \in submitted'}
<1>1. T = S
  <2>1. \A a \in submitted : target'[a] = target[a]
    BY ExecutionsKeep DEF IInv, TypeOK, Entered
  <2>2. QED BY <2>1
<1>2. \A p \in Ops : Verdict(p)' \in {"undecided", "cleared", "refused"}
  BY DEF Verdict
<1>3. CASE W = V
  BY <1>1, <1>3 DEF Gate!vars
<1>4. CASE W # V
  <2>1. PICK o \in Ops : \A p \in Ops \ {o} : Verdict(p)' = Verdict(p)
    BY <1>4, OneOperationMoves DEF IInv, Verdict
  <2>2. Verdict(o)' # Verdict(o)
    BY <1>4, <2>1
  <2>3. Verdict(o) = "undecided" /\ Verdict(o)' \in {"cleared", "refused"}
    BY <1>2, <2>2, VerdictStays
  <2>4. W = [V EXCEPT ![o] = Verdict(o)']
    BY <2>1
  <2>5. Gate!Resolve(o, Verdict(o)')
    BY <1>1, <2>3, <2>4 DEF Gate!Resolve
  <2>6. QED BY <2>3, <2>5 DEF Gate!Next
<1>5. QED BY <1>3, <1>4

LEMMA ActRefines ==
  ASSUME IInv, NEW a \in Attempts, Submit(a) PROVE [Gate!Next]_(Gate!vars)
<1> DEFINE V == [o \in Ops |-> Verdict(o)]
           S == {target[b] : b \in submitted}
<1>1. UNCHANGED <<request, enf, status, target>> /\ submitted' = submitted \cup {a} /\ Fenced(a)
      /\ pc[a] # "idle" /\ target[a] \in Ops
  BY DEF Submit, Moves, rows, enforcement, Fenced, IInv, Entered
<1>2. [o \in Ops |-> Verdict(o)'] = V
  BY <1>1 DEF Verdict
<1>3. CASE a \in submitted
  <2>1. submitted' = submitted
    BY <1>1, <1>3
  <2>2. QED BY <1>1, <1>2, <2>1 DEF Gate!vars
<1>4. CASE a \notin submitted
  <2>1. Verdict(target[a]) = "cleared"
    BY <1>1 DEF IInv, Cleared, ClearedOp, Verdict
  <2>2. \A b \in submitted : b \in Attempts /\ Fenced(b) /\ b # a
    BY <1>4 DEF IInv, TypeOK, Fenced
  <2>3. target[a] \notin S
    BY <1>1, <2>2, SameOperation
  <2>4. Key[target[a]] # NoKey => \A p \in S : Key[p] # Key[target[a]]
    BY <1>1, <2>2, SameKey DEF MyKey
  <2>5. {target'[b] : b \in submitted'} = S \cup {target[a]}
    BY <1>1
  <2>6. PICK o \in Ops : o = target[a]
    BY <1>1
  <2>7. Gate!Act(o)
    BY <1>1, <1>2, <2>1, <2>3, <2>4, <2>5, <2>6 DEF Gate!Act
  <2>8. QED BY <2>7 DEF Gate!Next
<1>5. QED BY <1>3, <1>4

(* Enforcement, approvals, claims, fences and replays together implement   *)
(* the gate: one verdict per operation, an effect only after clearance,    *)
(* and one effect per operation and key (ImplementsGate).                  *)
THEOREM Refinement == Spec => ImplementsGate
<1>1. Init => Gate!Init
  BY DEF Init, Gate!Init, Verdict
<1>2. ASSUME IInv, [Next]_vars PROVE [Gate!Next]_(Gate!vars)
  <2>1. CASE \E a \in Attempts : Submit(a)
    BY <1>2, <2>1, ActRefines
  <2>2. CASE ~\E a \in Attempts : Submit(a)
    <3>1. UNCHANGED submitted
      BY <1>2, <2>2 DEF Next, vars, payments, EnforcementStep, CreateWalletOperation, Decide,
        RecordPolicyEvaluation, UpdateWalletOperationStatus, EnforcementFails,
        CompensateEnforcementFailure, Approve, RejectOrCancel, LeaseLapses, FailInterruptedEffect,
        ClaimWalletOperationExecution, RunAllowed, HandlerStep, TryApprovedOperationReplayAuth,
        FindIdempotentKeyReplay, CreateTransferRecord, BeginEffect, Respond, HandlerFails,
        CompleteWalletOperationExecution, RenewLease, Crash, TrackPendingTransfer
    <3>2. QED BY <1>2, <3>1, ResolveRefines
  <2>3. QED BY <2>1, <2>2
<1>3. QED BY <1>1, <1>2, Invariance, PTL DEF Spec, ImplementsGate, Gate!Spec
=============================================================================
