------------------------- MODULE ApprovedOperations -------------------------
(***************************************************************************)
(* Wallet operations that policy holds for approval, and the replay of the *)
(* approved ones.                                                          *)
(*                                                                         *)
(* Enforcement records an operation and, when policy says so, an approval  *)
(* request, in separate statements; approvers resolve the request; the     *)
(* approve handler and the recovery job claim an approved operation with a *)
(* fresh attempt id and a lease and replay its HTTP request; the handler   *)
(* fences the operation before it signs or submits anything.               *)
(*                                                                         *)
(* Every statement or transaction is one step.  A replica compares a lease *)
(* with its own clock, read before the statement runs: unless clocksAgree, *)
(* the comparison may go either way.                                       *)
(***************************************************************************)
EXTENDS Naturals, FiniteSets

CONSTANTS
  Ops,          \* wallet operations
  Keys,         \* Idempotency-Key headers of the transfer routes
  NoKey,        \* a route that writes no keyed row before its effect (ramp quotes)
  Key,          \* the key of an operation; a client's retry repeats it
  Attempts,     \* executions: fresh execution attempt ids, and direct requests
  None,         \* no attempt
  MaxFaults     \* bound on crashes and on leases lost by a live attempt

ASSUME ApprovedAssumption ==
  /\ NoKey \notin Keys /\ None \notin Attempts \cup Ops
  /\ Key \in [Ops -> Keys \cup {NoKey}]
  /\ MaxFaults \in Nat

VARIABLES
  status,    \* wallet_operations.status
  attempt,   \* wallet_operations.execution_attempt_id
  lease,     \* wallet_operations.execution_lease_expires_at against the clock
  effect,    \* wallet_operations.execution_effect_started_at is set
  request,   \* approval_requests.status of the operation
  enf,       \* progress of enforceWalletOperationPolicy
  outcome,   \* the status its decision leads to
  pc,        \* progress of an execution
  target,    \* the operation it executes
  transfer,  \* payment_transfers.status by idempotency key
  creator,   \* the execution that inserted that row
  submitted, \* executions that handed their transaction to a provider
  faults,    \* crashes, and leases lost by a live attempt
  clocksAgree  \* replicas and statements see the same time; never changes

rows == <<status, attempt, lease, effect>>
enforcement == <<enf, outcome>>
execution == <<pc, target>>
payments == <<transfer, creator, submitted>>
world == <<faults, clocksAgree>>
vars == <<rows, request, enforcement, execution, payments, world>>

Terminal == {"completed", "failed", "canceled"}
Statuses == {"absent", "created", "pending_approval", "evaluated", "executing"} \cup Terminal
Requests == {"none", "pending", "approved", "rejected", "canceled", "failed"}
Enforcing == {"idle", "created", "requested", "evaluated", "done", "compensated",
              "undo_operation", "undo_request"}
Working == {"claimed", "authed", "incomplete", "recorded", "fenced", "submitted"}
PCs == {"idle", "ok", "erred", "done", "dead"} \cup Working
Transfers == {"none", "processing", "confirmed", "failed"}

TypeOK ==
  /\ status \in [Ops -> Statuses] /\ attempt \in [Ops -> Attempts \cup {None}]
  /\ lease \in [Ops -> {"null", "live", "lapsed"}] /\ effect \in [Ops -> BOOLEAN]
  /\ request \in [Ops -> Requests] /\ enf \in [Ops -> Enforcing]
  /\ outcome \in [Ops -> {"none", "evaluated", "pending_approval", "failed"}]
  /\ pc \in [Attempts -> PCs] /\ target \in [Attempts -> Ops \cup {None}]
  /\ transfer \in [Keys -> Transfers] /\ creator \in [Keys -> Attempts \cup {None}]
  /\ submitted \in SUBSET Attempts /\ faults \in 0..MaxFaults /\ clocksAgree \in BOOLEAN

Init ==
  /\ status = [o \in Ops |-> "absent"] /\ attempt = [o \in Ops |-> None]
  /\ lease = [o \in Ops |-> "null"] /\ effect = [o \in Ops |-> FALSE]
  /\ request = [o \in Ops |-> "none"] /\ enf = [o \in Ops |-> "idle"]
  /\ outcome = [o \in Ops |-> "none"]
  /\ pc = [a \in Attempts |-> "idle"] /\ target = [a \in Attempts |-> None]
  /\ transfer = [k \in Keys |-> "none"] /\ creator = [k \in Keys |-> None]
  /\ submitted = {} /\ faults = 0 /\ clocksAgree \in BOOLEAN

(* lease > now and lease <= now, as some replica may evaluate them; NULL   *)
(* satisfies only the second, which the statements write as IS NULL OR.    *)
SeenLive(o) == lease[o] = "live" \/ (~clocksAgree /\ lease[o] = "lapsed")
SeenLapsed(o) == lease[o] # "live" \/ ~clocksAgree

-----------------------------------------------------------------------------
(* enforceWalletOperationPolicy *)

CreateWalletOperation(o) ==
  /\ enf[o] = "idle"
  /\ status' = [status EXCEPT ![o] = "created"]
  /\ enf' = [enf EXCEPT ![o] = "created"]
  /\ UNCHANGED <<attempt, lease, effect, request, outcome, execution, payments, world>>

(* The policies are loaded and evaluated; a decision that needs approval,  *)
(* or review, also inserts the request.  The operation id is new, so no    *)
(* earlier request can be in the way; when the reply of the insert is      *)
(* lost, enforcement does not know of the request it made.                 *)
Decide(o) ==
  /\ enf[o] = "created" /\ outcome[o] = "none"
  /\ \/ \E d \in {"evaluated", "failed"} :
          outcome' = [outcome EXCEPT ![o] = d] /\ UNCHANGED <<enf, request>>
     \/ /\ outcome' = [outcome EXCEPT ![o] = "pending_approval"]
        /\ request' = [request EXCEPT ![o] = "pending"]
        /\ \E e \in {"requested", "undo_operation"} : enf' = [enf EXCEPT ![o] = e]
  /\ UNCHANGED <<rows, execution, payments, world>>

RecordPolicyEvaluation(o) ==
  /\ enf[o] \in {"created", "requested"} /\ outcome[o] # "none"
  /\ enf' = [enf EXCEPT ![o] = "evaluated"]
  /\ UNCHANGED <<rows, request, outcome, execution, payments, world>>

(* What a failure at this point has to undo. *)
Undo(o) == IF outcome[o] = "pending_approval" THEN "undo_request" ELSE "undo_operation"

(* An unconditional update; its reply may be lost after it committed. *)
UpdateWalletOperationStatus(o) ==
  /\ enf[o] = "evaluated"
  /\ status' = [status EXCEPT ![o] = outcome[o]]
  /\ \E e \in {"done", Undo(o)} : enf' = [enf EXCEPT ![o] = e]
  /\ UNCHANGED <<attempt, lease, effect, request, outcome, execution, payments, world>>

(* A statement of the flow fails, or the process stops. *)
EnforcementFails(o) ==
  /\ enf[o] \in {"created", "requested", "evaluated"}
  /\ \E e \in {Undo(o), "done"} : enf' = [enf EXCEPT ![o] = e]
  /\ UNCHANGED <<rows, request, outcome, execution, payments, world>>

(* Slip: a request that was resolved before is resolved again.              *)
ResolveRequest_AnyState(o, resolution, from, to) ==
  /\ request' = [request EXCEPT ![o] = resolution]
  /\ status' = [status EXCEPT ![o] = IF request[o] = "pending" /\ @ \in from
                                     THEN to ELSE @]

(* updateApprovalRequestStatus: one transaction that locks the request; a  *)
(* resolved request is left alone.                                         *)
ResolveRequest(o, resolution, from, to) ==
  /\ request' = [request EXCEPT ![o] = IF @ = "pending" THEN resolution ELSE @]
  /\ status' = [status EXCEPT ![o] = IF request[o] = "pending" /\ @ \in from
                                     THEN to ELSE @]

CompensateEnforcementFailure(o) ==
  /\ \/ /\ enf[o] = "undo_operation"
        /\ status' = [status EXCEPT ![o] = "failed"] /\ UNCHANGED request
     \/ /\ enf[o] = "undo_request"
        /\ ResolveRequest(o, "failed", {"created", "pending_approval"}, "failed")
  /\ enf' = [enf EXCEPT ![o] = "compensated"]
  /\ UNCHANGED <<attempt, lease, effect, outcome, execution, payments, world>>

-----------------------------------------------------------------------------
(* Approvers *)

Approve(o) ==
  /\ request[o] = "pending"
  /\ ResolveRequest(o, "approved", {"pending_approval"}, "executing")
  /\ UNCHANGED <<attempt, lease, effect, enforcement, execution, payments, world>>

RejectOrCancel(o) ==
  /\ request[o] = "pending"
  /\ \E r \in {"rejected", "canceled"} :
       ResolveRequest(o, r, {"pending_approval"}, "canceled")
  /\ UNCHANGED <<attempt, lease, effect, enforcement, execution, payments, world>>

-----------------------------------------------------------------------------
(* Executions.  A replay is an execution of an approved operation; a       *)
(* request that policy allowed runs the same handler without fences.       *)

Replay(a) == request[target[a]] = "approved"
MyKey(a) == Key[target[a]]
Moves(a, next) == pc' = [pc EXCEPT ![a] = next] /\ UNCHANGED target

(* The row still names this attempt, is executing and its lease looks live. *)
HoldsLease(a) ==
  LET o == target[a] IN status[o] = "executing" /\ attempt[o] = a /\ SeenLive(o)

(* Slip: an operation whose effect has started is claimed again.            *)
ClaimWalletOperationExecution_IgnoresFence(a, o) ==
  /\ pc[a] = "idle"
  /\ status[o] = "executing" /\ request[o] = "approved"
  /\ attempt[o] = None \/ SeenLapsed(o)
  /\ attempt' = [attempt EXCEPT ![o] = a]
  /\ lease' = [lease EXCEPT ![o] = "live"]
  /\ pc' = [pc EXCEPT ![a] = "claimed"] /\ target' = [target EXCEPT ![a] = o]
  /\ UNCHANGED <<status, effect, request, enforcement, payments, world>>

(* Slip: an expired lease is not taken over.                                *)
ClaimWalletOperationExecution_FirstOnly(a, o) ==
  /\ pc[a] = "idle"
  /\ status[o] = "executing" /\ ~effect[o] /\ request[o] = "approved"
  /\ attempt[o] = None
  /\ attempt' = [attempt EXCEPT ![o] = a]
  /\ lease' = [lease EXCEPT ![o] = "live"]
  /\ pc' = [pc EXCEPT ![a] = "claimed"] /\ target' = [target EXCEPT ![a] = o]
  /\ UNCHANGED <<status, effect, request, enforcement, payments, world>>

(* From the approve handler, also when it is repeated, and from the job. *)
ClaimWalletOperationExecution(a, o) ==
  /\ pc[a] = "idle"
  /\ status[o] = "executing" /\ ~effect[o] /\ request[o] = "approved"
  /\ attempt[o] = None \/ SeenLapsed(o)
  /\ attempt' = [attempt EXCEPT ![o] = a]
  /\ lease' = [lease EXCEPT ![o] = "live"]
  /\ pc' = [pc EXCEPT ![a] = "claimed"] /\ target' = [target EXCEPT ![a] = o]
  /\ UNCHANGED <<status, effect, request, enforcement, payments, world>>

(* Slip: an operation that awaits approval runs as well.                    *)
RunAllowed_AlsoHeld(a, o) ==
  /\ pc[a] = "idle" /\ enf[o] = "done" /\ status[o] \in {"evaluated", "pending_approval"}
  /\ \A b \in Attempts : target[b] # o
  /\ pc' = [pc EXCEPT ![a] = "authed"] /\ target' = [target EXCEPT ![a] = o]
  /\ UNCHANGED <<rows, request, enforcement, payments, world>>

(* The request that enforcement allowed goes on to its handler. *)
RunAllowed(a, o) ==
  /\ pc[a] = "idle" /\ enf[o] = "done" /\ status[o] = "evaluated"
  /\ \A b \in Attempts : target[b] # o
  /\ pc' = [pc EXCEPT ![a] = "authed"] /\ target' = [target EXCEPT ![a] = o]
  /\ UNCHANGED <<rows, request, enforcement, payments, world>>

(* The capability is spent, the row and the actor are checked. *)
TryApprovedOperationReplayAuth(a) ==
  /\ pc[a] = "claimed" /\ HoldsLease(a)
  /\ Moves(a, "authed")
  /\ UNCHANGED <<rows, request, enforcement, payments, world>>

(* Slip: any row of the key answers for the operation.                      *)
AnswersReplay_Always(a) == transfer[MyKey(a)] \in Transfers

(* A row under the key answers the request: verbatim for a normal request; *)
(* a replay takes only a successful transfer for an answer.                *)
AnswersReplay(a) == ~Replay(a) \/ transfer[MyKey(a)] = "confirmed"
FoundTransfer(a) == Moves(a, IF AnswersReplay(a) THEN "ok" ELSE "incomplete")

FindIdempotentKeyReplay(a) ==
  /\ pc[a] = "authed" /\ MyKey(a) # NoKey /\ transfer[MyKey(a)] # "none"
  /\ FoundTransfer(a)
  /\ UNCHANGED <<rows, request, enforcement, payments, world>>

(* Slip: the key is not unique.                                             *)
CreateTransferRecord_NoUniqueIndex(a) ==
  LET k == MyKey(a) IN
  /\ pc[a] = "authed" /\ k # NoKey
  /\ Replay(a) => HoldsLease(a)
  /\ \/ /\ transfer[k] \in Transfers
        /\ transfer' = [transfer EXCEPT ![k] = "processing"]
        /\ creator' = [creator EXCEPT ![k] = a]
        /\ effect' = [effect EXCEPT ![target[a]] = Replay(a)]
        /\ Moves(a, "recorded")
     \/ /\ transfer[k] # "none"
        /\ FoundTransfer(a)
        /\ \E e \in {effect[target[a]], Replay(a)} :
             effect' = [effect EXCEPT ![target[a]] = e]
        /\ UNCHANGED <<transfer, creator>>
  /\ UNCHANGED <<status, attempt, lease, request, enforcement, submitted, world>>

(* createTransferRecord: fence and insert in one transaction.  A row that  *)
(* appeared meanwhile is found inside the transaction, which then commits  *)
(* the fence, or by its unique index, which rolls the fence back.          *)
CreateTransferRecord(a) ==
  LET k == MyKey(a) IN
  /\ pc[a] = "authed" /\ k # NoKey
  /\ Replay(a) => HoldsLease(a)
  /\ \/ /\ transfer[k] = "none"
        /\ transfer' = [transfer EXCEPT ![k] = "processing"]
        /\ creator' = [creator EXCEPT ![k] = a]
        /\ effect' = [effect EXCEPT ![target[a]] = Replay(a)]
        /\ Moves(a, "recorded")
     \/ /\ transfer[k] # "none"
        /\ FoundTransfer(a)
        /\ \E e \in {effect[target[a]], Replay(a)} :
             effect' = [effect EXCEPT ![target[a]] = e]
        /\ UNCHANGED <<transfer, creator>>
  /\ UNCHANGED <<status, attempt, lease, request, enforcement, submitted, world>>

(* beginApprovedWalletOperationEffect, a no-op for a normal request; after *)
(* it an incomplete replay only reports a conflict.                        *)
BeginEffect(a) ==
  /\ \/ pc[a] \in {"recorded", "incomplete"}
     \/ pc[a] = "authed" /\ MyKey(a) = NoKey
  /\ Replay(a) => HoldsLease(a)
  /\ effect' = [effect EXCEPT ![target[a]] = Replay(a)]
  /\ Moves(a, IF pc[a] = "incomplete" THEN "erred" ELSE "fenced")
  /\ UNCHANGED <<status, attempt, lease, request, enforcement, payments, world>>

Submit(a) ==
  /\ pc[a] = "fenced"
  /\ submitted' = submitted \cup {a}
  /\ Moves(a, "submitted")
  /\ UNCHANGED <<rows, request, enforcement, transfer, creator, world>>

(* updateTransferRecord with expectedStatus "processing" *)
SettleTransfer(a, to) ==
  IF MyKey(a) # NoKey
  THEN transfer' = [transfer EXCEPT ![MyKey(a)] = IF @ = "processing" THEN to ELSE @]
  ELSE UNCHANGED transfer

(* Confirmed, unresolved (the row stays processing and is the answer), or  *)
(* refused for certain.                                                    *)
Respond(a) ==
  /\ pc[a] = "submitted"
  /\ \/ SettleTransfer(a, "confirmed") /\ Moves(a, "ok")
     \/ UNCHANGED transfer /\ Moves(a, "ok")
     \/ SettleTransfer(a, "failed") /\ Moves(a, "erred")
  /\ UNCHANGED <<rows, request, enforcement, creator, submitted, world>>

(* The envelope is unreadable, the actor was revoked, the lease was lost,  *)
(* a provider call failed before anything was handed over.                 *)
HandlerFails(a) ==
  /\ pc[a] \in Working \ {"submitted"}
  /\ IF pc[a] \in {"recorded", "fenced"} THEN SettleTransfer(a, "failed")
                                         ELSE UNCHANGED transfer
  /\ Moves(a, "erred")
  /\ UNCHANGED <<rows, request, enforcement, creator, submitted, world>>

(* Only the attempt that still holds its lease closes the operation. *)
CompleteWalletOperationExecution(a) ==
  LET o == target[a] IN
  /\ pc[a] \in {"ok", "erred"}
  /\ \/ /\ Replay(a) /\ HoldsLease(a)
        /\ status' = [status EXCEPT ![o] = IF pc[a] = "ok" THEN "completed" ELSE "failed"]
        /\ lease' = [lease EXCEPT ![o] = "null"]
     \/ /\ ~Replay(a) \/ attempt[o] # a \/ status[o] # "executing" \/ SeenLapsed(o)
        /\ UNCHANGED <<status, lease>>
  /\ Moves(a, "done")
  /\ UNCHANGED <<attempt, effect, request, enforcement, payments, world>>

-----------------------------------------------------------------------------
(* Time, faults and jobs *)

(* The heartbeat of an attempt that believes its lease is live. *)
RenewLease(a) ==
  /\ pc[a] \in Working \cup {"ok", "erred"} /\ Replay(a) /\ HoldsLease(a)
  /\ lease[target[a]] # "live"
  /\ lease' = [lease EXCEPT ![target[a]] = "live"]
  /\ UNCHANGED <<status, attempt, effect, request, enforcement, execution, payments, world>>

(* Ten minutes without a renewal: the attempt is gone, or is being starved. *)
LeaseLapses(o) ==
  /\ lease[o] = "live"
  /\ lease' = [lease EXCEPT ![o] = "lapsed"]
  /\ IF pc[attempt[o]] \in {"dead", "done"}
     THEN UNCHANGED faults
     ELSE faults < MaxFaults /\ faults' = faults + 1
  /\ UNCHANGED <<status, attempt, effect, request, enforcement, execution, payments, clocksAgree>>

Crash(a) ==
  /\ pc[a] \in Working \cup {"ok", "erred"}
  /\ faults < MaxFaults /\ faults' = faults + 1
  /\ Moves(a, "dead")
  /\ UNCHANGED <<rows, request, enforcement, payments, clocksAgree>>

(* The job's first statement: an attempt lost after its fence is never     *)
(* replayed.                                                               *)
FailInterruptedEffect(o) ==
  /\ status[o] = "executing" /\ effect[o] /\ SeenLapsed(o) /\ request[o] = "approved"
  /\ status' = [status EXCEPT ![o] = "failed"]
  /\ lease' = [lease EXCEPT ![o] = "null"]
  /\ UNCHANGED <<attempt, effect, request, enforcement, execution, payments, world>>

(* trackPendingTransfers settles what a request left processing. *)
TrackPendingTransfer(k) ==
  /\ transfer[k] = "processing" /\ creator[k] \in submitted
  /\ \E t \in {"confirmed", "failed"} : transfer' = [transfer EXCEPT ![k] = t]
  /\ UNCHANGED <<rows, request, enforcement, execution, creator, submitted, world>>

EnforcementStep(o) ==
  \/ CreateWalletOperation(o) \/ Decide(o) \/ RecordPolicyEvaluation(o)
  \/ UpdateWalletOperationStatus(o) \/ EnforcementFails(o) \/ CompensateEnforcementFailure(o)

HandlerStep(a) ==
  \/ TryApprovedOperationReplayAuth(a) \/ FindIdempotentKeyReplay(a)
  \/ CreateTransferRecord(a) \/ BeginEffect(a) \/ Submit(a) \/ Respond(a)
  \/ HandlerFails(a) \/ CompleteWalletOperationExecution(a)

Next ==
  \/ \E o \in Ops :
       \/ EnforcementStep(o) \/ Approve(o) \/ RejectOrCancel(o)
       \/ LeaseLapses(o) \/ FailInterruptedEffect(o)
       \/ \E a \in Attempts : ClaimWalletOperationExecution(a, o) \/ RunAllowed(a, o)
  \/ \E a \in Attempts : HandlerStep(a) \/ RenewLease(a) \/ Crash(a)
  \/ \E k \in Keys : TrackPendingTransfer(k)

Spec == Init /\ [][Next]_vars

(* The recovery job runs every minute and an unrenewed lease does run out; *)
(* a handler that did not crash goes on.  Approvers and clients owe nothing. *)
Fairness ==
  /\ \A o \in Ops : /\ WF_vars(\E a \in Attempts : ClaimWalletOperationExecution(a, o))
                    /\ WF_vars(FailInterruptedEffect(o))
                    /\ WF_vars(LeaseLapses(o))
  /\ \A a \in Attempts : WF_vars(HandlerStep(a))

FairSpec == Spec /\ Fairness

-----------------------------------------------------------------------------
(* Correctness *)

(* Two executions of one approved operation never both submit: an attempt  *)
(* that lost its lease may still be running when the next one is claimed.  *)
OneSubmissionPerOperation ==
  \A a, b \in submitted : target[a] = target[b] => a = b

(* Operations that repeat an Idempotency-Key, approved or allowed, submit  *)
(* one transfer between them.                                              *)
OneSubmissionPerKey ==
  \A a, b \in submitted : MyKey(a) = MyKey(b) /\ MyKey(a) # NoKey => a = b

(* An operation is reported completed only when its transaction, or the    *)
(* transfer its key answers with, was handed to the provider.              *)
CompletedWasSubmitted ==
  \A o \in Ops : status[o] = "completed" =>
    \E a \in submitted : target[a] = o \/ (Key[o] # NoKey /\ MyKey(a) = Key[o])

(* Nothing is submitted for an operation that was rejected, withdrawn, or  *)
(* whose enforcement failed.                                               *)
SubmittedWasCleared ==
  \A a \in submitted :
    \/ request[target[a]] = "approved"
    \/ request[target[a]] = "none" /\ status[target[a]] = "evaluated"

(* A closed operation and a resolved request stay as they are, whatever    *)
(* late enforcement, late attempts and overlapping jobs still do.          *)
ClosedStaysClosed ==
  [][\A o \in Ops :
       /\ status[o] \in {"completed", "failed", "canceled"} => status'[o] = status[o]
       /\ request[o] \notin {"none", "pending"} => request'[o] = request[o]]_vars

(* The operations, the requests and the executions together implement the  *)
(* gate: an effect only after clearance, and one per operation and key.    *)
Verdict(o) ==
  IF request[o] = "approved" \/ (request[o] = "none" /\ status[o] = "evaluated" /\ enf[o] = "done")
  THEN "cleared"
  ELSE IF request[o] \in {"rejected", "canceled", "failed"} THEN "refused" ELSE "undecided"

Gate == INSTANCE WalletOperationGate WITH
          verdict <- [o \in Ops |-> Verdict(o)], sent <- {target[a] : a \in submitted}

ImplementsGate == Gate!Spec

(* An operation released for execution reaches a verdict, where replicas   *)
(* agree on the time: otherwise one may steal the lease of another for ever. *)
ExecutingEnds ==
  \A o \in Ops :
    (status[o] = "executing" /\ clocksAgree) ~> status[o] \in {"completed", "failed"}
=============================================================================
