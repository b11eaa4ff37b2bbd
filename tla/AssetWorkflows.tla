--------------------------- MODULE AssetWorkflows ---------------------------
(***************************************************************************)
(* One workflow rule of an asset: the requests that create, change and     *)
(* delete it, with the signing key it keeps in the secret store; the       *)
(* events that enqueue executions of its action; the people who decide on  *)
(* held or failed executions; the cron ticks that run the due ones; and    *)
(* the sweep that destroys keys nothing refers to any more.                *)
(*                                                                         *)
(* A statement or transaction of the database, and a call of the secret    *)
(* store, is one step.  What an action does is left out: it takes effect   *)
(* when it is dispatched and answers success, a failure that may be        *)
(* retried, or one that may not.                                           *)
(***************************************************************************)
EXTENDS Integers, FiniteSets

CONSTANTS
  Executions,   \* events, each with the execution of the rule it enqueues
  Ticks,        \* ticks of the engine that may overlap
  Handlers,     \* requests on the rule in progress at the same time
  Versions,     \* versions of the signing key in the secret store
  NoVersion,
  MaxAttempts,  \* max_attempts of an execution
  MaxDecisions, \* bound: decisions to run a gated action that have not run it
  Scenarios     \* bounds on what happens together, one of them in a behaviour

(* gated: the action requires approval. *)
ASSUME WorkflowAssumption ==
  /\ NoVersion \notin Versions /\ MaxAttempts \in Nat \ {0} /\ MaxDecisions \in Nat
  /\ IsFiniteSet(Ticks)
  /\ Scenarios \subseteq [events : SUBSET Executions, ticks : SUBSET Ticks,
                          handlers : SUBSET Handlers, keys : SUBSET Versions,
                          enabled : SUBSET {"keep", "on", "off"},
                          gated : BOOLEAN]

VARIABLES
  rule,       \* asset_workflows: its state, and the version of its key
  req,        \* progress of a request on the rule
  store,      \* what the secret store has of a version
  queue,      \* workflow_action_secret_retirements, by version
  sweep,      \* the version the sweep is destroying
  matched,    \* events for which the rule was found enabled, to be enqueued
  status,     \* workflow_executions.status
  count,      \* workflow_executions.attempt_count
  stale,      \* workflow_executions.locked_at is past the threshold
  tick,       \* progress of a tick
  selected,   \* what the subquery of its stale recovery has selected
  cache,      \* what a tick remembers of the rule
  run,        \* progress of a tick on an execution
  claimed,    \* the attempt_count it claimed
  lost,       \* history: keys whose provisional retirement was never recorded
  taken,      \* history: keys given to destruction while a commit installs them
  seenOn,     \* history: the rule was enabled at some time since the tick started
  unspent,    \* history: decisions to run a gated action, less the times it was started
  crossed,    \* history: a run rescheduled it after another had claimed it
  scenario    \* fixed

keyVars == <<store, queue, sweep, lost, taken>>
executionVars == <<status, count, stale, unspent, crossed>>
tickVars == <<tick, selected, cache, run, claimed, seenOn>>
vars == <<rule, req, keyVars, matched, executionVars, tickVars, scenario>>

Keys == Versions \cup {NoVersion}
Open == {"awaiting_review", "pending"}
Final == {"succeeded", "cancelled"}
Statuses == {"none", "processing", "failed"} \cup Open \cup Final
InTry == {"complete", "fail", "retry"}
InCatch == {"catchFail", "catchRetry"}
RunSteps == {"none", "listed", "guard", "dispatch"} \cup InTry \cup InCatch
RequestSteps == {"idle", "store", "queue", "commit", "destroy", "discharge", "record", "withdraw"}
Idle == [pc |-> "idle", op |-> "patch", enabled |-> "keep", dead |-> FALSE,
         new |-> NoVersion, prev |-> NoVersion, victim |-> NoVersion, goon |-> FALSE]

TypeOK ==
  /\ rule \in [state : {"absent", "live", "deleted"}, enabled : BOOLEAN, key : Keys]
  /\ req \in [Handlers -> [pc : RequestSteps, op : {"create", "patch", "delete"},
                           enabled : {"keep", "on", "off"}, dead : BOOLEAN, goon : BOOLEAN,
                           new : Keys, prev : Keys, victim : Keys]]
  /\ store \in [Versions -> {"none", "alive", "destroyed"}]
  /\ queue \subseteq Versions /\ lost \subseteq Versions /\ taken \subseteq Versions
  /\ sweep \in Keys /\ matched \subseteq Executions
  /\ status \in [Executions -> Statuses] /\ count \in [Executions -> Nat]
  /\ stale \in [Executions -> BOOLEAN] /\ unspent \in [Executions -> Int]
  /\ crossed \in [Executions -> BOOLEAN]
  /\ tick \in [Ticks -> {"idle", "recovering", "recovered", "running"}]
  /\ selected \in [Ticks -> SUBSET Executions]
  /\ cache \in [Ticks -> {"none", "enabled", "refused"}] /\ seenOn \in [Ticks -> BOOLEAN]
  /\ run \in [Ticks -> [Executions -> RunSteps]]
  /\ claimed \in [Ticks -> [Executions -> Nat]] /\ scenario \in Scenarios

Init ==
  /\ rule = [state |-> "absent", enabled |-> FALSE, key |-> NoVersion]
  /\ req = [h \in Handlers |-> Idle]
  /\ store = [v \in Versions |-> "none"] /\ queue = {} /\ sweep = NoVersion
  /\ lost = {} /\ taken = {} /\ matched = {}
  /\ status = [e \in Executions |-> "none"] /\ count = [e \in Executions |-> 0]
  /\ stale = [e \in Executions |-> FALSE] /\ unspent = [e \in Executions |-> 0]
  /\ crossed = [e \in Executions |-> FALSE] /\ selected = [t \in Ticks |-> {}]
  /\ tick = [t \in Ticks |-> "idle"] /\ cache = [t \in Ticks |-> "none"]
  /\ seenOn = [t \in Ticks |-> FALSE]
  /\ run = [t \in Ticks |-> [e \in Executions |-> "none"]]
  /\ claimed = [t \in Ticks |-> [e \in Executions |-> 0]]
  /\ scenario \in Scenarios

On == rule.state = "live" /\ rule.enabled

-----------------------------------------------------------------------------
(* Requests on the rule *)

At(h, pc) == req[h].pc = pc
Becomes(h, record) == req' = [req EXCEPT ![h] = record]
Goto(h, pc) == Becomes(h, [req[h] EXCEPT !.pc = pc])
Leaves(h) == Becomes(h, Idle)

(* destroyActionSecret, if there is a version; then the request goes on to *)
(* withdraw what the rule enqueued, or ends.                               *)
Destroys(h, v, goon) ==
  Becomes(h, IF v # NoVersion
             THEN [Idle EXCEPT !.pc = "destroy", !.victim = v, !.goon = goon]
             ELSE IF goon THEN [Idle EXCEPT !.pc = "withdraw"] ELSE Idle)
Ends(h) == Becomes(h, IF req[h].goon THEN [Idle EXCEPT !.pc = "withdraw"] ELSE Idle)

(* A create mints a new id: this rule is created once. *)
RequestCreate(h) ==
  /\ At(h, "idle") /\ h \in scenario.handlers
  /\ rule.state = "absent" /\ \A g \in Handlers : req[g].op # "create"
  /\ \E pc \in {"commit"} \cup (IF scenario.keys # {} THEN {"store"} ELSE {}) :
       Becomes(h, [Idle EXCEPT !.pc = pc, !.op = "create"])
  /\ UNCHANGED <<rule, keyVars, matched, executionVars, tickVars, scenario>>

(* The rule as it is now is what the handler believes later. *)
RequestUpdate(h) ==
  /\ At(h, "idle") /\ h \in scenario.handlers /\ rule.state = "live"
  /\ \E pc \in {"commit"} \cup (IF scenario.keys # {} THEN {"store"} ELSE {}),
        enabled \in scenario.enabled :
       Becomes(h, [Idle EXCEPT !.pc = pc, !.enabled = enabled, !.prev = rule.key])
  /\ UNCHANGED <<rule, keyVars, matched, executionVars, tickVars, scenario>>

RequestDelete(h) ==
  /\ At(h, "idle") /\ h \in scenario.handlers /\ rule.state # "absent"
  /\ Becomes(h, [Idle EXCEPT !.pc = "commit", !.op = "delete", !.prev = rule.key,
                             !.dead = (rule.state = "deleted")])
  /\ UNCHANGED <<rule, keyVars, matched, executionVars, tickVars, scenario>>

(* A failed write is refused, although the store may have kept it. *)
StoreActionSecret(h) ==
  /\ At(h, "store")
  /\ \E v \in scenario.keys :
       /\ store[v] = "none"
       /\ store' = [store EXCEPT ![v] = "alive"]
       /\ \/ Becomes(h, [req[h] EXCEPT !.pc = "queue", !.new = v]) /\ UNCHANGED lost
          \/ Leaves(h) /\ lost' = lost \cup {v}
  /\ UNCHANGED <<rule, queue, sweep, taken, matched, executionVars, tickVars, scenario>>

RefuseActionSecret(h) ==
  /\ At(h, "store")
  /\ Leaves(h)
  /\ UNCHANGED <<rule, keyVars, matched, executionVars, tickVars, scenario>>

(* Best effort: after three failures the request goes on without. *)
QueuePendingActionSecret(h) ==
  /\ At(h, "queue")
  /\ \/ queue' = queue \cup {req[h].new} /\ UNCHANGED lost
     \/ lost' = lost \cup {req[h].new} /\ UNCHANGED queue
  /\ Goto(h, "commit")
  /\ UNCHANGED <<rule, store, sweep, taken, matched, executionVars, tickVars, scenario>>

(* A commit whose answer is lost is a rejection to the handler. *)
Rejected(h, committed) ==
  /\ Destroys(h, req[h].new, FALSE)
  /\ taken' = IF committed THEN taken \cup ({req[h].new} \ {NoVersion}) ELSE taken

CreateWorkflow(h) ==
  LET q == req[h] IN
  /\ At(h, "commit") /\ q.op = "create"
  /\ \/ /\ \E enabled \in BOOLEAN : rule' = [state |-> "live", enabled |-> enabled, key |-> q.new]
        /\ queue' = queue \ {q.new}
        /\ (Leaves(h) /\ UNCHANGED taken) \/ Rejected(h, TRUE)
     \/ Rejected(h, FALSE) /\ UNCHANGED <<rule, queue>>
  /\ seenOn' = [t \in Ticks |-> seenOn[t] \/ (tick[t] # "idle" /\ On')]
  /\ UNCHANGED <<store, sweep, lost, matched, executionVars, tick, selected, cache, run,
                 claimed, scenario>>

(* Slip: the key the caller read is queued, not the one under lock.         *)
UpdateWorkflow_QueuesCallersKey(h) ==
  LET q == req[h]
      rotates == q.new # NoVersion IN
  /\ At(h, "commit") /\ q.op = "patch"
  /\ \/ /\ rule.state = "live"
        /\ rule' = [rule EXCEPT !.key = IF rotates THEN q.new ELSE @,
                                !.enabled = IF q.enabled = "keep" THEN @ ELSE q.enabled = "on"]
        /\ queue' = IF rotates THEN (queue \cup ({q.prev} \ {NoVersion})) \ {q.new} ELSE queue
        /\ \/ Destroys(h, IF rotates THEN q.prev ELSE NoVersion, q.enabled = "off")
              /\ UNCHANGED taken
           \/ Rejected(h, TRUE)
     \/ Rejected(h, FALSE) /\ UNCHANGED <<rule, queue>>
  /\ seenOn' = [t \in Ticks |-> seenOn[t] \/ (tick[t] # "idle" /\ On')]
  /\ UNCHANGED <<store, sweep, lost, matched, executionVars, tick, selected, cache, run,
                 claimed, scenario>>

(* Slip: the key is destroyed also when none replaces it.                   *)
UpdateWorkflow_DestroysAnyway(h) ==
  LET q == req[h]
      rotates == q.new # NoVersion IN
  /\ At(h, "commit") /\ q.op = "patch"
  /\ \/ /\ rule.state = "live"
        /\ rule' = [rule EXCEPT !.key = IF rotates THEN q.new ELSE @,
                                !.enabled = IF q.enabled = "keep" THEN @ ELSE q.enabled = "on"]
        /\ queue' = IF rotates THEN (queue \cup ({rule.key} \ {NoVersion})) \ {q.new} ELSE queue
        /\ \/ Destroys(h, q.prev, q.enabled = "off")
              /\ UNCHANGED taken
           \/ Rejected(h, TRUE)
     \/ Rejected(h, FALSE) /\ UNCHANGED <<rule, queue>>
  /\ seenOn' = [t \in Ticks |-> seenOn[t] \/ (tick[t] # "idle" /\ On')]
  /\ UNCHANGED <<store, sweep, lost, matched, executionVars, tick, selected, cache, run,
                 claimed, scenario>>

(* The key under lock is queued when another replaces it; the handler then *)
(* destroys the key it read itself.  A rule that is gone is a rejection.   *)
UpdateWorkflow(h) ==
  LET q == req[h]
      rotates == q.new # NoVersion IN
  /\ At(h, "commit") /\ q.op = "patch"
  /\ \/ /\ rule.state = "live"
        /\ rule' = [rule EXCEPT !.key = IF rotates THEN q.new ELSE @,
                                !.enabled = IF q.enabled = "keep" THEN @ ELSE q.enabled = "on"]
        /\ queue' = IF rotates THEN (queue \cup ({rule.key} \ {NoVersion})) \ {q.new} ELSE queue
        /\ \/ Destroys(h, IF rotates THEN q.prev ELSE NoVersion, q.enabled = "off")
              /\ UNCHANGED taken
           \/ Rejected(h, TRUE)
     \/ Rejected(h, FALSE) /\ UNCHANGED <<rule, queue>>
  /\ seenOn' = [t \in Ticks |-> seenOn[t] \/ (tick[t] # "idle" /\ On')]
  /\ UNCHANGED <<store, sweep, lost, matched, executionVars, tick, selected, cache, run,
                 claimed, scenario>>

(* The key is queued even when the rule was deleted before.  Of two        *)
(* deletes that both saw it live, only the first destroys the key it read. *)
DeleteWorkflow(h) ==
  LET q == req[h] IN
  /\ At(h, "commit") /\ q.op = "delete"
  /\ \/ /\ rule' = [rule EXCEPT !.state = "deleted", !.enabled = FALSE]
        /\ queue' = queue \cup ({rule.key} \ {NoVersion})
        /\ \/ Destroys(h, IF rule.state = "live" \/ q.dead THEN q.prev ELSE NoVersion, TRUE)
           \/ Leaves(h)
     \/ Leaves(h) /\ UNCHANGED <<rule, queue>>
  /\ UNCHANGED <<store, sweep, lost, taken, matched, executionVars, tickVars, scenario>>

(* The store refuses, or answers, or its answer is lost. *)
DestroyVersion(h) ==
  /\ At(h, "destroy")
  /\ \/ /\ store[req[h].victim] = "alive"
        /\ store' = [store EXCEPT ![req[h].victim] = "destroyed"]
        /\ Goto(h, "discharge") \/ Goto(h, "record")
     \/ Goto(h, "record") /\ UNCHANGED store
  /\ UNCHANGED <<rule, queue, sweep, lost, taken, matched, executionVars, tickVars, scenario>>

DischargeRetirement(h) ==
  /\ At(h, "discharge")
  /\ queue' \in {queue \ {req[h].victim}, queue}
  /\ Ends(h)
  /\ UNCHANGED <<rule, store, sweep, lost, taken, matched, executionVars, tickVars, scenario>>

RecordFailedRetirement(h) ==
  /\ At(h, "record")
  /\ queue' \in {queue \cup {req[h].victim}, queue}
  /\ Ends(h)
  /\ UNCHANGED <<rule, store, sweep, lost, taken, matched, executionVars, tickVars, scenario>>

CancelOpenExecutionsForWorkflow(h) ==
  /\ At(h, "withdraw")
  /\ status' = [e \in Executions |-> IF status[e] \in Open THEN "cancelled" ELSE status[e]]
  /\ stale' = [e \in Executions |-> stale[e] /\ status[e] \notin Open]
  /\ Leaves(h)
  /\ UNCHANGED <<rule, keyVars, matched, count, unspent, crossed, tickVars, scenario>>

HandlerStops(h) ==
  /\ ~At(h, "idle")
  /\ lost' = IF At(h, "queue") THEN lost \cup {req[h].new} ELSE lost
  /\ Leaves(h)
  /\ UNCHANGED <<rule, store, queue, sweep, taken, matched, executionVars, tickVars, scenario>>

-----------------------------------------------------------------------------
(* retireOrphanedActionSecrets.  A retirement is due as soon as it is      *)
(* recorded; the sweep works through what it listed, here one at a time.   *)

Installing(v) == \E h \in Handlers : At(h, "commit") /\ req[h].new = v

ListDueRetirements(v) ==
  /\ sweep = NoVersion /\ v \in queue
  /\ sweep' = v
  /\ taken' = IF Installing(v) THEN taken \cup {v} ELSE taken
  /\ UNCHANGED <<rule, req, store, queue, lost, matched, executionVars, tickVars, scenario>>

(* Destroyed, now or before: the row goes, unless the sweep stops first.   *)
(* A version that is gone needs no row, whichever one is deleted.          *)
RetireVersion ==
  /\ sweep # NoVersion
  /\ store' = [store EXCEPT ![sweep] = "destroyed"]
  /\ queue' \in {queue \ {sweep}, queue}
  /\ sweep' = NoVersion
  /\ UNCHANGED <<rule, req, lost, taken, matched, executionVars, tickVars, scenario>>

(* The store refuses, and the row is tried again later; or the sweep stops. *)
RescheduleRetirement ==
  /\ sweep # NoVersion
  /\ sweep' = NoVersion
  /\ UNCHANGED <<rule, req, store, queue, lost, taken, matched, executionVars, tickVars, scenario>>

-----------------------------------------------------------------------------
(* dispatchWorkflowEvent: the enabled rules are read, then one execution   *)
(* is inserted for each.  Events may be delivered again.                   *)

MatchRule(e) ==
  /\ e \in scenario.events /\ On /\ e \notin matched
  /\ matched' = matched \cup {e}
  /\ UNCHANGED <<rule, req, keyVars, executionVars, tickVars, scenario>>

(* The unique index makes a second delivery a no-op; manual review and     *)
(* approval hold the execution, and without them it is authorized as is.   *)
CreateExecution(e) ==
  /\ e \in matched
  /\ matched' = matched \ {e}
  /\ IF status[e] = "none"
     THEN \/ status' = [status EXCEPT ![e] = "awaiting_review"]
          \/ ~scenario.gated /\ status' = [status EXCEPT ![e] = "pending"]
     ELSE UNCHANGED status
  /\ UNCHANGED <<rule, req, keyVars, count, stale, unspent, crossed, tickVars, scenario>>

-----------------------------------------------------------------------------
(* Decisions of people *)

(* Slip: the attempts are not given back.                                   *)
Decide_CountStays(e, from, to) ==
  /\ status[e] = from
  /\ status' = [status EXCEPT ![e] = to]
  /\ count' = count
  /\ stale' = [stale EXCEPT ![e] = FALSE] /\ crossed' = [crossed EXCEPT ![e] = FALSE]
  /\ UNCHANGED <<rule, req, keyVars, matched, tickVars, scenario>>

Decide(e, from, to) ==
  /\ status[e] = from
  /\ status' = [status EXCEPT ![e] = to]
  /\ count' = [count EXCEPT ![e] = 0]
  /\ stale' = [stale EXCEPT ![e] = FALSE] /\ crossed' = [crossed EXCEPT ![e] = FALSE]
  /\ UNCHANGED <<rule, req, keyVars, matched, tickVars, scenario>>

Authorizes(e) ==
  /\ unspent[e] < MaxDecisions
  /\ unspent' = IF scenario.gated THEN [unspent EXCEPT ![e] = @ + 1] ELSE unspent

ApproveExecution(e) == Decide(e, "awaiting_review", "pending") /\ Authorizes(e)

RetryExecution(e) == Decide(e, "failed", "pending") /\ Authorizes(e)

CancelExecution(e) == Decide(e, "awaiting_review", "cancelled") /\ UNCHANGED unspent

-----------------------------------------------------------------------------
(* runDueWorkflowExecutions *)

Moves(t, e, pc) == run' = [run EXCEPT ![t][e] = pc]

(* recoverStaleProcessing is UPDATE ... WHERE id IN (SELECT ...): what the *)
(* subquery finds is not locked and not checked again, so other statements *)
(* may come between.                                                       *)
SelectStaleProcessing(t) ==
  /\ tick[t] = "idle" /\ t \in scenario.ticks
  /\ selected' = [selected EXCEPT ![t] =
       {e \in Executions : status[e] = "processing" /\ stale[e]}]
  /\ tick' = [tick EXCEPT ![t] = "recovering"] /\ seenOn' = [seenOn EXCEPT ![t] = On]
  /\ UNCHANGED <<rule, req, keyVars, matched, executionVars, cache, run, claimed, scenario>>

(* Slip: a gated action is made due again too.                              *)
RecoverStaleProcessing_AlsoGated(t) ==
  LET found == selected[t] IN
  /\ tick[t] = "recovering"
  /\ status' = [e \in Executions |-> IF e \in found THEN "pending" ELSE status[e]]
  /\ count' = [e \in Executions |-> IF e \in found /\ count[e] > 0
                                     THEN count[e] - 1 ELSE count[e]]
  /\ stale' = [e \in Executions |-> stale[e] /\ e \notin found]
  /\ tick' = [tick EXCEPT ![t] = "recovered"] /\ selected' = [selected EXCEPT ![t] = {}]
  /\ UNCHANGED <<rule, req, keyVars, matched, unspent, crossed, cache, run, claimed,
                 seenOn, scenario>>

(* A tick first takes the rows whose run is taken for dead: those that     *)
(* need approval fail, the others are due again with their attempt given   *)
(* back.                                                                   *)
RecoverStaleProcessing(t) ==
  LET found == selected[t] IN
  /\ tick[t] = "recovering"
  /\ status' = [e \in Executions |-> IF e \notin found THEN status[e]
                                      ELSE IF scenario.gated THEN "failed" ELSE "pending"]
  /\ count' = [e \in Executions |-> IF e \in found /\ ~scenario.gated /\ count[e] > 0
                                     THEN count[e] - 1 ELSE count[e]]
  /\ stale' = [e \in Executions |-> stale[e] /\ e \notin found]
  /\ tick' = [tick EXCEPT ![t] = "recovered"] /\ selected' = [selected EXCEPT ![t] = {}]
  /\ UNCHANGED <<rule, req, keyVars, matched, unspent, crossed, cache, run, claimed,
                 seenOn, scenario>>

(* The delay before a retry only adds time. *)
ListDueExecutions(t) ==
  /\ tick[t] = "recovered"
  /\ run' = [run EXCEPT ![t] = [e \in Executions |->
       IF status[e] = "pending" /\ count[e] < MaxAttempts THEN "listed" ELSE "none"]]
  /\ tick' = [tick EXCEPT ![t] = "running"]
  /\ UNCHANGED <<rule, req, keyVars, matched, executionVars, selected, cache, claimed,
                 seenOn, scenario>>

ClaimExecution(t, e) ==
  /\ run[t][e] = "listed"
  /\ IF status[e] = "pending"
     THEN /\ status' = [status EXCEPT ![e] = "processing"]
          /\ count' = [count EXCEPT ![e] = @ + 1] /\ stale' = [stale EXCEPT ![e] = FALSE]
          /\ claimed' = [claimed EXCEPT ![t][e] = count[e] + 1]
          /\ Moves(t, e, "guard")
     ELSE Moves(t, e, "none") /\ UNCHANGED <<status, count, stale, claimed>>
  /\ UNCHANGED <<rule, req, keyVars, matched, unspent, crossed, tick, selected, cache,
                 seenOn, scenario>>

(* What may be tried again, and where an error thrown in the try leads. *)
MayRetry(t, e) == ~scenario.gated /\ claimed[t][e] < MaxAttempts
AfterError(t, e) == IF MayRetry(t, e) THEN "catchRetry" ELSE "catchFail"

(* Slip: a rule that is switched off passes.                                *)
GuardExecution_ExistsOnly(t, e) ==
  LET seen == IF cache[t] # "none" THEN cache[t]
              ELSE IF rule.state = "live" THEN "enabled" ELSE "refused" IN
  /\ run[t][e] = "guard"
  /\ \/ /\ cache' = [cache EXCEPT ![t] = seen]
        /\ IF seen = "enabled" THEN \E pc \in {"dispatch", "fail"} : Moves(t, e, pc)
                               ELSE Moves(t, e, "fail")
     \/ Moves(t, e, AfterError(t, e)) /\ UNCHANGED cache
  /\ UNCHANGED <<rule, req, keyVars, matched, executionVars, tick, selected, claimed,
                 seenOn, scenario>>

(* The rule is read once per tick.  The gate of the asset may refuse as    *)
(* well, and reading either may throw.                                     *)
GuardExecution(t, e) ==
  LET seen == IF cache[t] # "none" THEN cache[t] ELSE IF On THEN "enabled" ELSE "refused" IN
  /\ run[t][e] = "guard"
  /\ \/ /\ cache' = [cache EXCEPT ![t] = seen]
        /\ IF seen = "enabled" THEN \E pc \in {"dispatch", "fail"} : Moves(t, e, pc)
                               ELSE Moves(t, e, "fail")
     \/ Moves(t, e, AfterError(t, e)) /\ UNCHANGED cache
  /\ UNCHANGED <<rule, req, keyVars, matched, executionVars, tick, selected, claimed,
                 seenOn, scenario>>

(* The action answers, or throws. *)
DispatchWorkflowAction(t, e) ==
  /\ run[t][e] = "dispatch"
  /\ unspent' = IF scenario.gated THEN [unspent EXCEPT ![e] = @ - 1] ELSE unspent
  /\ \/ \E pc \in {"complete", "fail", AfterError(t, e)} : Moves(t, e, pc)
     \/ MayRetry(t, e) /\ Moves(t, e, "retry")
  /\ UNCHANGED <<rule, req, keyVars, matched, status, count, stale, crossed, tick, selected, cache,
                 claimed, seenOn, scenario>>

Verdict(pc) ==
  CASE pc = "complete" -> "succeeded"
    [] pc \in {"fail", "catchFail"} -> "failed"
    [] pc \in {"retry", "catchRetry"} -> "pending"

(* Slip: the status is not expected to be processing.                       *)
Writes_Unguarded(t, e) ==
  /\ status' = [status EXCEPT ![e] = Verdict(run[t][e])]
  /\ stale' = [stale EXCEPT ![e] = FALSE]
  /\ crossed' = [crossed EXCEPT ![e] =
       @ \/ (Verdict(run[t][e]) = "pending" /\ count[e] # claimed[t][e])]

(* completeExecution, failExecution and rescheduleExecution: guarded on    *)
(* the status, not on who claimed the row.                                 *)
Writes(t, e) ==
  IF status[e] = "processing"
  THEN /\ status' = [status EXCEPT ![e] = Verdict(run[t][e])]
       /\ stale' = [stale EXCEPT ![e] = FALSE]
       /\ crossed' = [crossed EXCEPT ![e] =
            @ \/ (Verdict(run[t][e]) = "pending" /\ count[e] # claimed[t][e])]
  ELSE UNCHANGED <<status, stale, crossed>>

WriteOutcome(t, e) ==
  /\ run[t][e] \in InTry \cup InCatch
  /\ Writes(t, e)
  /\ Moves(t, e, "none")
  /\ UNCHANGED <<rule, req, keyVars, matched, count, unspent, tick, selected, cache,
                 claimed, seenOn, scenario>>

(* The write in the try throws, whether it took effect or not, and the     *)
(* error is written as well.                                               *)
WriteThrows(t, e) ==
  /\ run[t][e] \in InTry
  /\ Writes(t, e) \/ UNCHANGED <<status, stale, crossed>>
  /\ Moves(t, e, AfterError(t, e))
  /\ UNCHANGED <<rule, req, keyVars, matched, count, unspent, tick, selected, cache,
                 claimed, seenOn, scenario>>

(* The claim, whether it took effect or not, or the write in the catch     *)
(* throws: the worker ends, and the others go on.                          *)
RunStops(t, e) ==
  /\ run[t][e] \in {"listed", "guard"} \cup InCatch
  /\ Moves(t, e, "none")
  /\ UNCHANGED <<rule, req, keyVars, matched, executionVars, tick, selected, cache,
                 claimed, seenOn, scenario>>

(* What a tick remembers is gone with it. *)
Forgets(t) ==
  /\ tick' = [tick EXCEPT ![t] = "idle"] /\ cache' = [cache EXCEPT ![t] = "none"]
  /\ run' = [run EXCEPT ![t] = [e \in Executions |-> "none"]]
  /\ claimed' = [claimed EXCEPT ![t] = [e \in Executions |-> 0]]
  /\ seenOn' = [seenOn EXCEPT ![t] = FALSE] /\ selected' = [selected EXCEPT ![t] = {}]
  /\ UNCHANGED <<rule, req, keyVars, matched, executionVars, scenario>>

TickEnds(t) ==
  /\ tick[t] = "running" /\ \A e \in Executions : run[t][e] = "none"
  /\ Forgets(t)

TickStops(t) ==
  /\ tick[t] # "idle"
  /\ Forgets(t)

(* locked_at passes the threshold, though its run may only be slow. *)
GrowsStale(e) ==
  /\ status[e] = "processing" /\ ~stale[e]
  /\ stale' = [stale EXCEPT ![e] = TRUE]
  /\ UNCHANGED <<rule, req, keyVars, matched, status, count, unspent, crossed, tickVars, scenario>>

-----------------------------------------------------------------------------
RunStep(t, e) ==
  \/ ClaimExecution(t, e) \/ GuardExecution(t, e) \/ DispatchWorkflowAction(t, e)
  \/ WriteOutcome(t, e)

HandlerStep(h) ==
  \/ StoreActionSecret(h) \/ RefuseActionSecret(h) \/ QueuePendingActionSecret(h)
  \/ CreateWorkflow(h) \/ UpdateWorkflow(h) \/ DeleteWorkflow(h)
  \/ DestroyVersion(h) \/ DischargeRetirement(h) \/ RecordFailedRetirement(h)
  \/ CancelOpenExecutionsForWorkflow(h)

Next ==
  \/ \E h \in Handlers : \/ RequestCreate(h) \/ RequestUpdate(h) \/ RequestDelete(h)
                         \/ HandlerStep(h) \/ HandlerStops(h)
  \/ \E v \in Versions : ListDueRetirements(v)
  \/ RetireVersion \/ RescheduleRetirement
  \/ \E e \in Executions :
       \/ MatchRule(e) \/ CreateExecution(e) \/ ApproveExecution(e) \/ RetryExecution(e)
       \/ CancelExecution(e) \/ GrowsStale(e)
       \/ \E t \in Ticks : RunStep(t, e) \/ WriteThrows(t, e) \/ RunStops(t, e)
  \/ \E t \in Ticks : \/ SelectStaleProcessing(t) \/ RecoverStaleProcessing(t)
                       \/ ListDueExecutions(t) \/ TickEnds(t) \/ TickStops(t)

Spec == Init /\ [][Next]_vars

-----------------------------------------------------------------------------
(* Correctness *)

(* A live rule's key can be read, whoever else rotates, edits or deletes   *)
(* at the same time, except when the sweep took the version for an orphan  *)
(* before its commit, or the commit was reported as rejected.              *)
LiveKeyIsReadable ==
  rule.state = "live" /\ rule.key # NoVersion =>
    store[rule.key] = "alive" \/ rule.key \in taken

(* "The two possible outcomes are 'the row points at the version' and 'the *)
(* version is queued for destruction' - never neither"                     *)
(* (queuePendingActionSecret): a readable version that no live rule refers *)
(* to is queued, wherever its requests stopped, once the provisional       *)
(* record was made.                                                        *)
OrphanIsQueued ==
  \A v \in Versions \ (queue \cup lost) :
    store[v] = "alive" =>
      \/ rule.state = "live" /\ rule.key = v
      \/ \E h \in Handlers : req[h].pc \in {"queue", "commit"} /\ req[h].new = v

(* A destructive action is started at most once for every decision of a    *)
(* person to run it, through crashes, stale recovery and late runs.        *)
GatedRunsOncePerDecision == \A e \in Executions : unspent[e] >= 0

(* A tick that starts after the rule was withdrawn starts none of its      *)
(* actions, however their executions were enqueued, approved or retried.   *)
WithdrawnNeverRuns ==
  \A t \in Ticks, e \in Executions : run[t][e] = "dispatch" => seenOn[t]

(* A due execution can be listed: no attempt count strands it, whatever    *)
(* throws, stops or is taken for dead.  The code's gap is excepted: a late *)
(* or second write that reschedules the row after another run has claimed  *)
(* it, for nothing ties an outcome to its claim.                           *)
PendingCanRun ==
  \A e \in Executions : status[e] = "pending" /\ ~crossed[e] => count[e] < MaxAttempts

(* Succeeded and cancelled executions are not reopened, by late runs of    *)
(* overlapping ticks either; only the stale recovery overwrites them, when *)
(* it selected the row before.                                             *)
FinalStays ==
  [][\A e \in Executions : status[e] \in Final =>
       status'[e] = status[e] \/ \E t \in Ticks : e \in selected[t] \ selected'[t]]_vars
=============================================================================
