------------------------ MODULE AssetWorkflowsProofs ------------------------
(***************************************************************************)
(* The keys of a workflow rule and the executions of its action, for any   *)
(* handlers, versions, events and overlapping ticks.                       *)
(***************************************************************************)
EXTENDS AssetWorkflows, FiniteSetTheorems, TLAPS

-----------------------------------------------------------------------------
(* Steps of the two halves of the model *)

Handles(h) ==
  RequestCreate(h) \/ RequestUpdate(h) \/ RequestDelete(h) \/ HandlerStep(h) \/ HandlerStops(h)

Sweeps == (\E v \in Versions : ListDueRetirements(v)) \/ RetireVersion \/ RescheduleRetirement

Executes(e) ==
  \/ MatchRule(e) \/ CreateExecution(e) \/ ApproveExecution(e) \/ RetryExecution(e)
  \/ CancelExecution(e) \/ GrowsStale(e)
  \/ \E t \in Ticks : RunStep(t, e) \/ WriteThrows(t, e) \/ RunStops(t, e)

TicksOn(t) ==
  \/ SelectStaleProcessing(t) \/ RecoverStaleProcessing(t) \/ ListDueExecutions(t)
  \/ TickEnds(t) \/ TickStops(t)

LEMMA NextSteps ==
  [Next]_vars => \/ \E h \in Handlers : Handles(h)
                 \/ Sweeps
                 \/ \E e \in Executions : Executes(e)
                 \/ \E t \in Ticks : TicksOn(t)
                 \/ UNCHANGED vars
BY Zenon DEF Next, Handles, Sweeps, Executes, TicksOn

(* Executions leave the rule and its keys alone. *)
LEMMA ExecutionsLeaveKeys ==
  [Next]_vars => (\E h \in Handlers : Handles(h)) \/ Sweeps \/ UNCHANGED <<rule, req, keyVars>>
<1> SUFFICES ASSUME [Next]_vars, ~\E h \in Handlers : Handles(h), ~Sweeps
             PROVE  UNCHANGED <<rule, req, keyVars>>
  BY Zenon
<1>1. ASSUME NEW e \in Executions, Executes(e) PROVE UNCHANGED <<rule, req, keyVars>>
  BY <1>1 DEF Executes, MatchRule, CreateExecution, ApproveExecution, RetryExecution, CancelExecution,
    Decide, GrowsStale, RunStep, ClaimExecution, GuardExecution, DispatchWorkflowAction, WriteOutcome,
    WriteThrows, RunStops
<1>2. ASSUME NEW t \in Ticks, TicksOn(t) PROVE UNCHANGED <<rule, req, keyVars>>
  BY <1>2 DEF TicksOn, SelectStaleProcessing, RecoverStaleProcessing, ListDueExecutions, TickEnds,
    TickStops, Forgets
<1>3. CASE UNCHANGED vars
  BY <1>3 DEF vars
<1>4. QED BY <1>1, <1>2, <1>3, NextSteps

Withdraws ==
  /\ status' = [e \in Executions |-> IF status[e] \in Open THEN "cancelled" ELSE status[e]]
  /\ stale' = [e \in Executions |-> stale[e] /\ status[e] \notin Open]
  /\ UNCHANGED <<count, unspent, crossed, tickVars, rule>>

(* Requests and the sweep only withdraw executions, and ticks may notice   *)
(* that the rule is enabled.                                               *)
LEMMA KeysLeaveExecutions ==
  ASSUME (\E h \in Handlers : Handles(h)) \/ Sweeps
  PROVE  /\ Withdraws \/ UNCHANGED executionVars
         /\ UNCHANGED <<tick, selected, cache, run, claimed, scenario, matched>>
<1>1. ASSUME NEW h \in Handlers, Handles(h)
      PROVE  /\ Withdraws \/ UNCHANGED executionVars
             /\ UNCHANGED <<tick, selected, cache, run, claimed, scenario, matched>>
  <2>1. CASE RequestCreate(h) \/ RequestUpdate(h) \/ RequestDelete(h) \/ HandlerStops(h)
    <3>1. UNCHANGED <<executionVars, tickVars, scenario, matched>>
      BY <2>1, Zenon DEF RequestCreate, RequestUpdate, RequestDelete, HandlerStops
    <3>2. QED BY <3>1 DEF tickVars
  <2>2. CASE StoreActionSecret(h) \/ RefuseActionSecret(h) \/ QueuePendingActionSecret(h)
    <3>1. UNCHANGED <<executionVars, tickVars, scenario, matched>>
      BY <2>2, Zenon DEF StoreActionSecret, RefuseActionSecret, QueuePendingActionSecret
    <3>2. QED BY <3>1 DEF tickVars
  <2>3. CASE CreateWorkflow(h) \/ UpdateWorkflow(h) \/ DeleteWorkflow(h)
    BY <2>3 DEF CreateWorkflow, UpdateWorkflow, DeleteWorkflow, tickVars
  <2>4. CASE DestroyVersion(h) \/ DischargeRetirement(h) \/ RecordFailedRetirement(h)
    BY <2>4 DEF DestroyVersion, DischargeRetirement, RecordFailedRetirement, tickVars
  <2>5. CASE CancelOpenExecutionsForWorkflow(h)
    BY <2>5 DEF CancelOpenExecutionsForWorkflow, Withdraws, tickVars
  <2>6. QED BY <1>1, <2>1, <2>2, <2>3, <2>4, <2>5 DEF Handles, HandlerStep
<1>2. CASE Sweeps
  BY <1>2 DEF Sweeps, ListDueRetirements, RetireVersion, RescheduleRetirement, tickVars
<1>3. QED BY <1>1, <1>2
-----------------------------------------------------------------------------
(* Types of the rule, its requests and its keys *)

RequestRecords ==
  [pc : RequestSteps, op : {"create", "patch", "delete"},
   enabled : {"keep", "on", "off"}, dead : BOOLEAN, goon : BOOLEAN,
   new : Keys, prev : Keys, victim : Keys]

KeyTypes ==
  /\ rule \in [state : {"absent", "live", "deleted"}, enabled : BOOLEAN, key : Keys]
  /\ req \in [Handlers -> RequestRecords]
  /\ store \in [Versions -> {"none", "alive", "destroyed"}]
  /\ queue \subseteq Versions /\ lost \subseteq Versions /\ taken \subseteq Versions
  /\ sweep \in Keys /\ scenario \in Scenarios

Destroying == {"destroy", "discharge", "record"}

(* What a request carries at each of its steps. *)
Carried ==
  \A h \in Handlers :
    /\ req[h].pc = "queue" => req[h].new \in Versions
    /\ req[h].pc \notin {"queue", "commit"} => req[h].new = NoVersion
    /\ req[h].pc \in Destroying <=> req[h].victim \in Versions
    /\ req[h].op = "create" =>
         rule.state = "absent" /\ \A g \in Handlers : req[g].op = "create" => g = h
    /\ req[h].op = "delete" => rule.state # "absent"

LEMMA ScenarioFields ==
  ASSUME scenario \in Scenarios
  PROVE  /\ scenario.keys \subseteq Versions /\ scenario.enabled \subseteq {"keep", "on", "off"}
         /\ scenario.gated \in BOOLEAN
BY WorkflowAssumption

(* A request that holds neither a new key nor a rule it read. *)
Plain(r, v) ==
  /\ r \in RequestRecords /\ r.new = NoVersion /\ r.prev = NoVersion /\ r.op = "patch" /\ r.victim = v
  /\ r.pc \in {"idle", "withdraw", "destroy"} /\ (r.pc = "destroy" <=> v # NoVersion)

LEMMA IdlePlain == Plain(Idle, NoVersion)
BY DEF Plain, Idle, RequestRecords, RequestSteps, Keys

LEMMA DestroysPlain ==
  ASSUME NEW h \in Handlers, NEW v \in Keys, NEW goon \in BOOLEAN, Destroys(h, v, goon)
  PROVE  \E r : Plain(r, v) /\ req' = [req EXCEPT ![h] = r]
<1>1. CASE v # NoVersion
  <2> DEFINE r == [Idle EXCEPT !.pc = "destroy", !.victim = v, !.goon = goon]
  <2>1. Plain(r, v)
    BY <1>1 DEF Plain, Idle, RequestRecords, RequestSteps, Keys
  <2>2. QED BY <1>1, <2>1 DEF Destroys, Becomes
<1>2. CASE v = NoVersion /\ goon
  <2> DEFINE r == [Idle EXCEPT !.pc = "withdraw"]
  <2>1. Plain(r, v)
    BY <1>2 DEF Plain, Idle, RequestRecords, RequestSteps, Keys
  <2>2. QED BY <1>2, <2>1 DEF Destroys, Becomes
<1>3. CASE v = NoVersion /\ ~goon
  BY <1>3, IdlePlain DEF Destroys, Becomes
<1>4. QED BY <1>1, <1>2, <1>3

LEMMA EndsPlain ==
  ASSUME NEW h \in Handlers, Ends(h) \/ Leaves(h)
  PROVE  \E r : Plain(r, NoVersion) /\ req' = [req EXCEPT ![h] = r]
<1> DEFINE w == [Idle EXCEPT !.pc = "withdraw"]
<1>1. Plain(w, NoVersion)
  BY DEF Plain, Idle, RequestRecords, RequestSteps, Keys
<1>2. CASE Ends(h) /\ req[h].goon
  BY <1>1, <1>2 DEF Ends, Becomes
<1>3. CASE Leaves(h) \/ (Ends(h) /\ ~req[h].goon)
  BY <1>3, IdlePlain DEF Leaves, Ends, Becomes
<1>4. QED BY <1>2, <1>3

-----------------------------------------------------------------------------
(* The requests, as what they do to the rule and its keys *)

(* A request begins: it has read the rule. *)
Begins(h) ==
  /\ req[h].pc = "idle" /\ UNCHANGED <<rule, keyVars>>
  /\ \E r \in RequestRecords :
       /\ req' = [req EXCEPT ![h] = r]
       /\ r.pc \in {"store", "commit"} /\ r.new = NoVersion /\ r.victim = NoVersion
       /\ r.prev \in {NoVersion, rule.key}
       /\ r.op = "create" => rule.state = "absent" /\ \A g \in Handlers : req[g].op # "create"
       /\ r.op = "delete" => rule.state # "absent"

Stores(h) ==
  \E v \in Versions :
    /\ req[h].pc = "store" /\ store[v] = "none" /\ store' = [store EXCEPT ![v] = "alive"]
    /\ \/ req' = [req EXCEPT ![h] = [req[h] EXCEPT !.pc = "queue", !.new = v]] /\ UNCHANGED lost
       \/ req' = [req EXCEPT ![h] = Idle] /\ lost' = lost \cup {v}
    /\ UNCHANGED <<rule, queue, sweep, taken>>

Queues(h) ==
  /\ req[h].pc = "queue" /\ req' = [req EXCEPT ![h] = [req[h] EXCEPT !.pc = "commit"]]
  /\ \/ queue' = queue \cup {req[h].new} /\ UNCHANGED lost
     \/ lost' = lost \cup {req[h].new} /\ UNCHANGED queue
  /\ UNCHANGED <<rule, store, sweep, taken>>

(* A commit installs the new key, if there is one, and queues the old one; *)
(* when its answer is lost, the new key is taken and about to be destroyed. *)
Commits(h) ==
  LET q == req[h] IN
  /\ q.pc = "commit" /\ rule'.state = "live" /\ rule' \in [state : {"live"}, enabled : BOOLEAN, key : Keys]
  /\ \/ q.op = "create" /\ rule'.key = q.new /\ queue' = queue \ {q.new}
     \/ /\ q.op = "patch" /\ rule.state = "live"
        /\ IF q.new # NoVersion
           THEN rule'.key = q.new /\ queue' = (queue \cup ({rule.key} \ {NoVersion})) \ {q.new}
           ELSE rule'.key = rule.key /\ queue' = queue
  /\ \E v \in Keys, r \in RequestRecords :
       /\ Plain(r, v) /\ req' = [req EXCEPT ![h] = r]
       /\ \/ v \in (IF q.new = NoVersion THEN {NoVersion} ELSE {NoVersion, q.prev}) /\ UNCHANGED taken
          \/ v = q.new /\ taken' = taken \cup ({q.new} \ {NoVersion})
  /\ UNCHANGED <<store, sweep, lost>>

Rejects(h) ==
  /\ req[h].pc = "commit" /\ UNCHANGED <<rule, keyVars>>
  /\ \E r : Plain(r, req[h].new) /\ req' = [req EXCEPT ![h] = r]

Deletes(h) ==
  /\ req[h].pc = "commit" /\ req[h].op = "delete" /\ rule'.state = "deleted" /\ rule'.key = rule.key
  /\ rule' \in [state : {"deleted"}, enabled : BOOLEAN, key : Keys]
  /\ queue' = queue \cup ({rule.key} \ {NoVersion})
  /\ \E v \in {NoVersion, req[h].prev} : \E r : Plain(r, v) /\ req' = [req EXCEPT ![h] = r]
  /\ UNCHANGED <<store, sweep, lost, taken>>

Destroyed(h) ==
  /\ req[h].pc = "destroy"
  /\ \E pc \in {"discharge", "record"} :
       /\ req' = [req EXCEPT ![h] = [req[h] EXCEPT !.pc = pc]]
       /\ \/ store' = [store EXCEPT ![req[h].victim] = "destroyed"]
          \/ pc = "record" /\ UNCHANGED store
  /\ UNCHANGED <<rule, queue, sweep, lost, taken>>

Recorded(h) ==
  /\ \/ req[h].pc = "discharge" /\ queue' \in {queue, queue \ {req[h].victim}}
     \/ req[h].pc = "record" /\ queue' \in {queue, queue \cup {req[h].victim}}
  /\ \E r : Plain(r, NoVersion) /\ req' = [req EXCEPT ![h] = r]
  /\ UNCHANGED <<rule, store, sweep, lost, taken>>

Stops(h) ==
  /\ lost' = IF req[h].pc = "queue" THEN lost \cup {req[h].new} ELSE lost
  /\ \E r : Plain(r, NoVersion) /\ req' = [req EXCEPT ![h] = r]
  /\ UNCHANGED <<rule, store, queue, sweep, taken>>

KeyAction(h) ==
  \/ Begins(h) \/ Stores(h) \/ Queues(h) \/ Commits(h) \/ Rejects(h) \/ Deletes(h)
  \/ Destroyed(h) \/ Recorded(h) \/ Stops(h)

LEMMA HandlesKeys ==
  ASSUME KeyTypes, Carried, NEW h \in Handlers, Handles(h) PROVE KeyAction(h)
<1> USE DEF At, keyVars
<1>1. CASE RequestCreate(h)
  <2>1. PICK pc \in {"store", "commit"} : Becomes(h, [Idle EXCEPT !.pc = pc, !.op = "create"])
    BY <1>1 DEF RequestCreate
  <2>2. [Idle EXCEPT !.pc = pc, !.op = "create"] \in RequestRecords
    BY DEF Idle, RequestRecords, RequestSteps, Keys
  <2>3. Begins(h)
    BY <1>1, <2>1, <2>2 DEF RequestCreate, Begins, Becomes, Idle
  <2>4. QED BY <2>3 DEF KeyAction
<1>2. CASE RequestUpdate(h)
  <2>1. PICK pc \in {"store", "commit"}, enabled \in {"keep", "on", "off"} :
          Becomes(h, [Idle EXCEPT !.pc = pc, !.enabled = enabled, !.prev = rule.key])
    BY <1>2, ScenarioFields DEF RequestUpdate, KeyTypes
  <2>2. [Idle EXCEPT !.pc = pc, !.enabled = enabled, !.prev = rule.key] \in RequestRecords
    BY DEF Idle, RequestRecords, RequestSteps, Keys, KeyTypes
  <2>3. Begins(h)
    BY <1>2, <2>1, <2>2 DEF RequestUpdate, Begins, Becomes, Idle
  <2>4. QED BY <2>3 DEF KeyAction
<1>3. CASE RequestDelete(h)
  <2> DEFINE r == [Idle EXCEPT !.pc = "commit", !.op = "delete", !.prev = rule.key,
                               !.dead = (rule.state = "deleted")]
  <2>1. r \in RequestRecords
    BY DEF Idle, RequestRecords, RequestSteps, Keys, KeyTypes
  <2>2. r.pc = "commit" /\ r.new = NoVersion /\ r.victim = NoVersion /\ r.prev = rule.key /\ r.op = "delete"
    BY DEF Idle
  <2>3. /\ req' = [req EXCEPT ![h] = r] /\ req[h].pc = "idle" /\ rule.state # "absent"
        /\ UNCHANGED <<rule, keyVars>>
    BY <1>3 DEF RequestDelete, Becomes
  <2>4. Begins(h)
    BY <2>1, <2>2, <2>3 DEF Begins
  <2>5. QED BY <2>4 DEF KeyAction
<1>4. CASE StoreActionSecret(h)
  <2>1. PICK v \in Versions :
          /\ req[h].pc = "store" /\ store[v] = "none" /\ store' = [store EXCEPT ![v] = "alive"]
          /\ \/ req' = [req EXCEPT ![h] = [req[h] EXCEPT !.pc = "queue", !.new = v]] /\ UNCHANGED lost
             \/ req' = [req EXCEPT ![h] = Idle] /\ lost' = lost \cup {v}
          /\ UNCHANGED <<rule, queue, sweep, taken>>
    <3>1. \A v \in scenario.keys : v \in Versions
      BY ScenarioFields DEF KeyTypes
    <3>2. QED BY <1>4, <3>1, Zenon DEF StoreActionSecret, Becomes, Leaves
  <2>2. Stores(h)
    BY <2>1, Zenon DEF Stores
  <2>3. QED BY <2>2 DEF KeyAction
<1>5. CASE QueuePendingActionSecret(h)
  BY <1>5 DEF QueuePendingActionSecret, Queues, KeyAction, Goto, Becomes
<1>6. CASE RefuseActionSecret(h) \/ HandlerStops(h) \/ CancelOpenExecutionsForWorkflow(h)
  <2>1. \E r : Plain(r, NoVersion) /\ req' = [req EXCEPT ![h] = r]
    BY <1>6, EndsPlain DEF RefuseActionSecret, HandlerStops, CancelOpenExecutionsForWorkflow
  <2>2. Stops(h)
    BY <1>6, <2>1 DEF Stops, RefuseActionSecret, HandlerStops, CancelOpenExecutionsForWorkflow
  <2>3. QED BY <2>2 DEF KeyAction
<1>7. CASE DestroyVersion(h)
  BY <1>7 DEF DestroyVersion, Destroyed, KeyAction, Goto, Becomes
<1>8. CASE DischargeRetirement(h) \/ RecordFailedRetirement(h)
  <2>1. \E r : Plain(r, NoVersion) /\ req' = [req EXCEPT ![h] = r]
    BY <1>8, EndsPlain DEF DischargeRetirement, RecordFailedRetirement
  <2>2. Recorded(h)
    BY <1>8, <2>1 DEF Recorded, DischargeRetirement, RecordFailedRetirement
  <2>3. QED BY <2>2 DEF KeyAction
<1>9. CASE CreateWorkflow(h) \/ UpdateWorkflow(h) \/ DeleteWorkflow(h)
  <2>1. req[h].new \in Keys /\ req[h].prev \in Keys /\ rule.key \in Keys /\ req[h].pc = "commit"
    BY <1>9 DEF KeyTypes, RequestRecords, CreateWorkflow, UpdateWorkflow, DeleteWorkflow
  <2>2. ASSUME Rejected(h, FALSE), UNCHANGED <<rule, store, queue, sweep, lost>> PROVE Rejects(h)
    BY <2>1, <2>2, DestroysPlain DEF Rejected, Rejects
  <2>3. ASSUME Rejected(h, TRUE)
        PROVE  \E v \in Keys, r \in RequestRecords :
                 /\ Plain(r, v) /\ req' = [req EXCEPT ![h] = r]
                 /\ v = req[h].new /\ taken' = taken \cup ({req[h].new} \ {NoVersion})
    <3>1. PICK r : Plain(r, req[h].new) /\ req' = [req EXCEPT ![h] = r]
      BY <2>1, <2>3, DestroysPlain DEF Rejected
    <3>2. QED BY <2>1, <2>3, <3>1 DEF Rejected, Plain
  <2>4. ASSUME NEW v \in Keys, NEW goon \in BOOLEAN, Destroys(h, v, goon) \/ (v = NoVersion /\ Leaves(h))
        PROVE  \E r \in RequestRecords : Plain(r, v) /\ req' = [req EXCEPT ![h] = r]
    BY <2>4, DestroysPlain, EndsPlain DEF Plain
  <2>5. CASE CreateWorkflow(h)
    <3>1. CASE Rejected(h, FALSE) /\ UNCHANGED <<rule, queue>>
      BY <2>2, <2>5, <3>1 DEF CreateWorkflow, KeyAction
    <3>2. CASE ~(Rejected(h, FALSE) /\ UNCHANGED <<rule, queue>>)
      <4>1. /\ \E enabled \in BOOLEAN : rule' = [state |-> "live", enabled |-> enabled, key |-> req[h].new]
            /\ queue' = queue \ {req[h].new} /\ req[h].op = "create"
            /\ (Leaves(h) /\ UNCHANGED taken) \/ Rejected(h, TRUE)
            /\ UNCHANGED <<store, sweep, lost>>
        BY <2>5, <3>2 DEF CreateWorkflow
      <4>2. rule'.state = "live" /\ rule'.key = req[h].new
            /\ rule' \in [state : {"live"}, enabled : BOOLEAN, key : Keys]
        BY <2>1, <4>1
      <4>3. \E v \in Keys, r \in RequestRecords :
              /\ Plain(r, v) /\ req' = [req EXCEPT ![h] = r]
              /\ \/ v = NoVersion /\ UNCHANGED taken
                 \/ v = req[h].new /\ taken' = taken \cup ({req[h].new} \ {NoVersion})
        BY <2>3, <2>4, <4>1 DEF Keys
      <4>4. Commits(h)
        BY <2>1, <4>1, <4>2, <4>3 DEF Commits
      <4>5. QED BY <4>4 DEF KeyAction
    <3>3. QED BY <3>1, <3>2
  <2>6. CASE UpdateWorkflow(h)
    <3> DEFINE rotates == req[h].new # NoVersion
    <3>1. CASE Rejected(h, FALSE) /\ UNCHANGED <<rule, queue>>
      BY <2>2, <2>6, <3>1 DEF UpdateWorkflow, KeyAction
    <3>2. CASE ~(Rejected(h, FALSE) /\ UNCHANGED <<rule, queue>>)
      <4>1. /\ req[h].op = "patch" /\ rule.state = "live" /\ UNCHANGED <<store, sweep, lost>>
            /\ rule' = [rule EXCEPT !.key = IF rotates THEN req[h].new ELSE @,
                                    !.enabled = IF req[h].enabled = "keep" THEN @ ELSE req[h].enabled = "on"]
            /\ queue' = IF rotates THEN (queue \cup ({rule.key} \ {NoVersion})) \ {req[h].new} ELSE queue
            /\ \/ /\ Destroys(h, IF rotates THEN req[h].prev ELSE NoVersion, req[h].enabled = "off")
                  /\ UNCHANGED taken
               \/ Rejected(h, TRUE)
        BY <2>6, <3>2 DEF UpdateWorkflow
      <4>2. /\ rule'.state = "live" /\ rule'.key = (IF rotates THEN req[h].new ELSE rule.key)
            /\ rule' \in [state : {"live"}, enabled : BOOLEAN, key : Keys]
        BY <2>1, <4>1 DEF KeyTypes
      <4>3. \E v \in Keys, r \in RequestRecords :
              /\ Plain(r, v) /\ req' = [req EXCEPT ![h] = r]
              /\ \/ v = (IF rotates THEN req[h].prev ELSE NoVersion) /\ UNCHANGED taken
                 \/ v = req[h].new /\ taken' = taken \cup ({req[h].new} \ {NoVersion})
        <5>1. CASE Rejected(h, TRUE)
          BY <2>3, <5>1
        <5>2. CASE Destroys(h, IF rotates THEN req[h].prev ELSE NoVersion, req[h].enabled = "off")
                   /\ UNCHANGED taken
          BY <2>1, <2>4, <5>2 DEF Keys
        <5>3. QED BY <4>1, <5>1, <5>2
      <4>4. Commits(h)
        BY <2>1, <4>1, <4>2, <4>3 DEF Commits
      <4>5. QED BY <4>4 DEF KeyAction
    <3>3. QED BY <3>1, <3>2
  <2>7. CASE DeleteWorkflow(h)
    <3>1. CASE Leaves(h) /\ UNCHANGED <<rule, queue>>
      <4>1. Stops(h)
        BY <2>1, <2>7, <3>1, EndsPlain DEF DeleteWorkflow, Stops
      <4>2. QED BY <4>1 DEF KeyAction
    <3>2. CASE ~(Leaves(h) /\ UNCHANGED <<rule, queue>>)
      <4>1. /\ rule' = [rule EXCEPT !.state = "deleted", !.enabled = FALSE] /\ req[h].op = "delete"
            /\ queue' = queue \cup ({rule.key} \ {NoVersion}) /\ UNCHANGED <<store, sweep, lost, taken>>
            /\ \/ Destroys(h, IF rule.state = "live" \/ req[h].dead THEN req[h].prev ELSE NoVersion, TRUE)
               \/ Leaves(h)
        BY <2>7, <3>2 DEF DeleteWorkflow
      <4>2. /\ rule'.state = "deleted" /\ rule'.key = rule.key
            /\ rule' \in [state : {"deleted"}, enabled : BOOLEAN, key : Keys]
        BY <2>1, <4>1 DEF KeyTypes
      <4>3. \E v \in {NoVersion, req[h].prev} : \E r : Plain(r, v) /\ req' = [req EXCEPT ![h] = r]
        <5>1. CASE Leaves(h)
          BY <5>1, EndsPlain
        <5>2. CASE Destroys(h, IF rule.state = "live" \/ req[h].dead THEN req[h].prev ELSE NoVersion, TRUE)
          BY <2>1, <5>2, DestroysPlain DEF Keys
        <5>3. QED BY <4>1, <5>1, <5>2
      <4>4. Deletes(h)
        BY <2>1, <4>1, <4>2, <4>3 DEF Deletes
      <4>5. QED BY <4>4 DEF KeyAction
    <3>3. QED BY <3>1, <3>2
  <2>8. QED BY <1>9, <2>5, <2>6, <2>7
<1>10. QED
  BY <1>1, <1>2, <1>3, <1>4, <1>5, <1>6, <1>7, <1>8, <1>9 DEF Handles, HandlerStep
-----------------------------------------------------------------------------
(* The keys *)

(* A version that was never written is nowhere referred to. *)
References ==
  \A v \in Versions : store[v] = "none" =>
    /\ v \notin queue /\ sweep # v /\ rule.key # v
    /\ \A h \in Handlers : req[h].new # v /\ req[h].prev # v /\ req[h].victim # v

(* A version on its way into the rule is known to its request only, or     *)
(* recorded for the sweep.                                                 *)
OnItsWay ==
  \A h \in Handlers : req[h].new \in Versions =>
    LET v == req[h].new IN
    /\ rule.key # v
    /\ \A g \in Handlers : req[g].prev # v /\ req[g].victim # v /\ (req[g].new = v => g = h)
    /\ (store[v] = "alive" /\ sweep # v) \/ v \in taken
    /\ req[h].pc = "queue" => v \notin queue /\ sweep # v
    /\ req[h].pc = "commit" => v \in queue \cup lost \/ store[v] = "destroyed"

(* LiveKeyIsReadable, strengthened: nothing is about to destroy it. *)
LiveKey ==
  rule.state = "live" /\ rule.key \in Versions /\ rule.key \notin taken =>
    /\ store[rule.key] = "alive" /\ rule.key \notin queue /\ sweep # rule.key
    /\ \A h \in Handlers : req[h].victim # rule.key

Discharging ==
  \A h \in Handlers : req[h].pc = "discharge" => store[req[h].victim] = "destroyed"

KeyInv ==
  /\ KeyTypes /\ Carried /\ References /\ OnItsWay /\ LiveKey /\ Discharging /\ OrphanIsQueued

LEMMA BeginsKeys ==
  ASSUME KeyInv, NEW h \in Handlers, Begins(h), scenario' = scenario PROVE KeyInv'
<1>1. PICK r \in RequestRecords :
        /\ req' = [req EXCEPT ![h] = r]
        /\ r.pc \in {"store", "commit"} /\ r.new = NoVersion /\ r.victim = NoVersion
        /\ r.prev \in {NoVersion, rule.key}
        /\ r.op = "create" => rule.state = "absent" /\ \A g \in Handlers : req[g].op # "create"
        /\ r.op = "delete" => rule.state # "absent"
  BY DEF Begins
<1>2. req'[h] = r /\ \A g \in Handlers \ {h} : req'[g] = req[g]
  BY <1>1 DEF KeyInv, KeyTypes
<1>3. UNCHANGED <<rule, store, queue, sweep, lost, taken>> /\ req[h].pc = "idle"
  BY DEF Begins, keyVars
<1> USE WorkflowAssumption DEF KeyInv
<1>4. KeyTypes'
  BY <1>1, <1>3 DEF KeyTypes
<1>5. Carried'
  BY <1>1, <1>2, <1>3 DEF Carried, Destroying
<1>6. References'
  BY <1>1, <1>2, <1>3 DEF References
<1>7. OnItsWay'
  BY <1>1, <1>2, <1>3 DEF OnItsWay
<1>8. LiveKey' /\ Discharging'
  BY <1>1, <1>2, <1>3 DEF LiveKey, Discharging
<1>9. OrphanIsQueued'
  BY <1>1, <1>2, <1>3 DEF OrphanIsQueued
<1>10. QED BY <1>4, <1>5, <1>6, <1>7, <1>8, <1>9

LEMMA StoresKeys ==
  ASSUME KeyInv, NEW h \in Handlers, Stores(h), scenario' = scenario PROVE KeyInv'
<1>1. PICK v \in Versions :
        /\ req[h].pc = "store" /\ store[v] = "none" /\ store' = [store EXCEPT ![v] = "alive"]
        /\ \/ req' = [req EXCEPT ![h] = [req[h] EXCEPT !.pc = "queue", !.new = v]] /\ UNCHANGED lost
           \/ req' = [req EXCEPT ![h] = Idle] /\ lost' = lost \cup {v}
        /\ UNCHANGED <<rule, queue, sweep, taken>>
  BY Zenon DEF Stores
<1>2. PICK r \in RequestRecords :
        /\ req' = [req EXCEPT ![h] = r] /\ r.victim = NoVersion
        /\ \/ r.pc = "queue" /\ r.new = v /\ r.prev = req[h].prev /\ r.op = req[h].op /\ lost' = lost
           \/ r.pc = "idle" /\ r.new = NoVersion /\ r.prev = NoVersion /\ r.op = "patch" /\ lost' = lost \cup {v}
  <2>1. req[h] \in RequestRecords /\ req[h].victim = NoVersion
    BY <1>1 DEF KeyInv, KeyTypes, Carried, Destroying, RequestRecords, Keys
  <2>2. CASE req' = [req EXCEPT ![h] = Idle] /\ lost' = lost \cup {v}
    BY <2>2, IdlePlain DEF Plain, Idle
  <2>3. CASE req' = [req EXCEPT ![h] = [req[h] EXCEPT !.pc = "queue", !.new = v]] /\ UNCHANGED lost
    <3> DEFINE r == [req[h] EXCEPT !.pc = "queue", !.new = v]
    <3>1. r \in RequestRecords /\ r.pc = "queue" /\ r.new = v /\ r.prev = req[h].prev
          /\ r.op = req[h].op /\ r.victim = NoVersion
      BY <2>1 DEF RequestRecords, RequestSteps, Keys
    <3>2. QED BY <2>3, <3>1, Zenon
  <2>4. QED BY <1>1, <2>2, <2>3
<1>3. req'[h] = r /\ \A g \in Handlers \ {h} : req'[g] = req[g]
  BY <1>2 DEF KeyInv, KeyTypes
<1>4. store'[v] = "alive" /\ \A w \in Versions \ {v} : store'[w] = store[w]
  BY <1>1 DEF KeyInv, KeyTypes
<1> USE WorkflowAssumption DEF KeyInv
<1>5. KeyTypes'
  BY <1>1, <1>2 DEF KeyTypes
<1>6. Carried'
  BY <1>1, <1>2, <1>3 DEF Carried, Destroying
<1>7. References'
  BY <1>1, <1>2, <1>3, <1>4 DEF References, KeyTypes
<1>8. OnItsWay'
  <2>1. ASSUME NEW g \in Handlers \ {h}, req[g].new \in Versions PROVE req[g].new # v
    BY <1>1 DEF References
  <2>2. QED BY <1>1, <1>2, <1>3, <1>4, <2>1 DEF OnItsWay, References, Carried
<1>9. LiveKey' /\ Discharging'
  BY <1>1, <1>2, <1>3, <1>4 DEF LiveKey, Discharging, References, Carried, Destroying, KeyTypes, Keys
<1>10. OrphanIsQueued'
  BY <1>1, <1>2, <1>3, <1>4 DEF OrphanIsQueued
<1>11. QED BY <1>5, <1>6, <1>7, <1>8, <1>9, <1>10

LEMMA QueuesKeys ==
  ASSUME KeyInv, NEW h \in Handlers, Queues(h), scenario' = scenario PROVE KeyInv'
<1> DEFINE r == [req[h] EXCEPT !.pc = "commit"]
           v == req[h].new
<1>1. v \in Versions /\ req[h].pc = "queue"
  BY DEF Queues, KeyInv, Carried
<1>2. /\ r \in RequestRecords /\ r.pc = "commit" /\ r.new = v /\ r.prev = req[h].prev
      /\ r.op = req[h].op /\ r.victim = req[h].victim
  BY DEF KeyInv, KeyTypes, RequestRecords, RequestSteps
<1>3. req' = [req EXCEPT ![h] = r] /\ req'[h] = r /\ \A g \in Handlers \ {h} : req'[g] = req[g]
  BY DEF Queues, KeyInv, KeyTypes
<1>4. /\ \/ queue' = queue \cup {v} /\ UNCHANGED lost
         \/ lost' = lost \cup {v} /\ UNCHANGED queue
      /\ UNCHANGED <<rule, store, sweep, taken>>
  BY DEF Queues
<1> HIDE DEF r, v
<1> USE WorkflowAssumption DEF KeyInv
<1>5. KeyTypes'
  BY <1>1, <1>2, <1>3, <1>4 DEF KeyTypes
<1>6. Carried'
  BY <1>1, <1>2, <1>3, <1>4 DEF Carried, Destroying
<1>7. References'
  BY <1>1, <1>2, <1>3, <1>4 DEF References, v
<1>8. OnItsWay'
  BY <1>1, <1>2, <1>3, <1>4 DEF OnItsWay, v
<1>9. LiveKey' /\ Discharging'
  BY <1>1, <1>2, <1>3, <1>4 DEF LiveKey, Discharging, OnItsWay, v
<1>10. OrphanIsQueued'
  BY <1>1, <1>2, <1>3, <1>4 DEF OrphanIsQueued, v
<1>11. QED BY <1>5, <1>6, <1>7, <1>8, <1>9, <1>10
LEMMA CommitsKeys ==
  ASSUME KeyInv, NEW h \in Handlers, Commits(h), scenario' = scenario PROVE KeyInv'
<1> DEFINE v == req[h].new
<1>1. PICK x \in Keys, r \in RequestRecords :
        /\ Plain(r, x) /\ req' = [req EXCEPT ![h] = r]
        /\ \/ x \in (IF v = NoVersion THEN {NoVersion} ELSE {NoVersion, req[h].prev}) /\ UNCHANGED taken
           \/ x = v /\ taken' = taken \cup ({v} \ {NoVersion})
  BY DEF Commits
<1>2. req'[h] = r /\ \A g \in Handlers \ {h} : req'[g] = req[g]
  BY <1>1 DEF KeyInv, KeyTypes
<1>3. /\ r.new = NoVersion /\ r.prev = NoVersion /\ r.op = "patch" /\ r.victim = x
      /\ r.pc \in {"idle", "withdraw", "destroy"} /\ (r.pc = "destroy" <=> x # NoVersion)
  BY <1>1 DEF Plain
<1>4. /\ rule'.state = "live" /\ rule' \in [state : {"live"}, enabled : BOOLEAN, key : Keys]
      /\ \/ rule'.key = v /\ req[h].op = "create" /\ queue' = queue \ {v}
         \/ /\ rule'.key = v /\ v # NoVersion /\ rule.state = "live"
            /\ queue' = (queue \cup ({rule.key} \ {NoVersion})) \ {v}
         \/ rule'.key = rule.key /\ v = NoVersion /\ rule.state = "live" /\ queue' = queue
      /\ UNCHANGED <<store, sweep, lost>> /\ req[h].pc = "commit"
  BY DEF Commits
<1>5. v \in Keys /\ req[h].prev \in Keys /\ rule.key \in Keys
  BY DEF KeyInv, KeyTypes, RequestRecords
<1> HIDE DEF v
<1> USE WorkflowAssumption DEF KeyInv
<1>6. KeyTypes'
  <2>1. rule' \in [state : {"absent", "live", "deleted"}, enabled : BOOLEAN, key : Keys]
    BY <1>4
  <2>2. queue' \subseteq Versions /\ taken' \subseteq Versions
    BY <1>1, <1>4, <1>5 DEF KeyTypes, Keys
  <2>3. req' \in [Handlers -> RequestRecords]
    BY <1>1 DEF KeyTypes
  <2>4. QED BY <1>4, <2>1, <2>2, <2>3 DEF KeyTypes
<1>7. Carried'
  BY <1>1, <1>2, <1>3, <1>4 DEF Carried, Destroying, Keys
<1>8. References'
  BY <1>1, <1>2, <1>3, <1>4 DEF References, v
<1>9. OnItsWay'
  <2> SUFFICES ASSUME NEW g \in Handlers, g # h, req[g].new \in Versions
               PROVE  OnItsWay!(g)'
    BY <1>2, <1>3 DEF OnItsWay
  <2>1. req[g].new # v /\ req[g].new # x /\ req[g].new # rule'.key
    BY <1>1, <1>4, <1>5 DEF OnItsWay, v, Keys
  <2>2. QED BY <1>1, <1>2, <1>3, <1>4, <2>1 DEF OnItsWay
<1>10. LiveKey'
  <2>1. CASE rule'.key = v /\ v \in Versions
    BY <1>1, <1>2, <1>3, <1>4, <2>1 DEF LiveKey, OnItsWay, v
  <2>2. CASE v = NoVersion
    BY <1>1, <1>2, <1>3, <1>4, <2>2 DEF LiveKey
  <2>3. QED BY <1>4, <1>5, <2>1, <2>2 DEF Keys
<1>11. Discharging'
  BY <1>2, <1>3, <1>4 DEF Discharging
<1>12. OrphanIsQueued'
  BY <1>1, <1>2, <1>3, <1>4 DEF OrphanIsQueued, Carried, v
<1>13. QED BY <1>6, <1>7, <1>8, <1>9, <1>10, <1>11, <1>12
(* A request that no longer has a new key; its former key is recorded or lost. *)
LEMMA RejectsKeys ==
  ASSUME KeyInv, NEW h \in Handlers, Rejects(h), scenario' = scenario PROVE KeyInv'
<1>1. PICK r : Plain(r, req[h].new) /\ req' = [req EXCEPT ![h] = r]
  BY DEF Rejects
<1>2. req'[h] = r /\ \A g \in Handlers \ {h} : req'[g] = req[g]
  BY <1>1 DEF KeyInv, KeyTypes
<1>3. /\ r \in RequestRecords /\ r.new = NoVersion /\ r.prev = NoVersion /\ r.op = "patch" /\ r.victim = req[h].new
      /\ r.pc \in {"idle", "withdraw", "destroy"} /\ (r.pc = "destroy" <=> r.victim # NoVersion)
  BY <1>1 DEF Plain
<1>4. UNCHANGED <<rule, store, queue, sweep, lost, taken>> /\ req[h].pc = "commit"
  BY DEF Rejects, keyVars
<1>5. req[h].new \in Keys
  BY DEF KeyInv, KeyTypes, RequestRecords
<1> USE WorkflowAssumption DEF KeyInv
<1>6. KeyTypes'
  BY <1>1, <1>3, <1>4 DEF KeyTypes
<1>7. Carried'
  BY <1>2, <1>3, <1>4, <1>5 DEF Carried, Destroying, Keys
<1>8. References'
  BY <1>2, <1>3, <1>4 DEF References
<1>9. OnItsWay'
  BY <1>2, <1>3, <1>4 DEF OnItsWay
<1>10. LiveKey'
  BY <1>2, <1>3, <1>4 DEF LiveKey, OnItsWay
<1>11. Discharging'
  BY <1>2, <1>3, <1>4 DEF Discharging
<1>12. OrphanIsQueued'
  BY <1>2, <1>3, <1>4 DEF OrphanIsQueued, OnItsWay
<1>13. QED BY <1>6, <1>7, <1>8, <1>9, <1>10, <1>11, <1>12

LEMMA DeletesKeys ==
  ASSUME KeyInv, NEW h \in Handlers, Deletes(h), scenario' = scenario PROVE KeyInv'
<1> PICK x \in {NoVersion, req[h].prev} : \E r : Plain(r, x) /\ req' = [req EXCEPT ![h] = r]
  BY DEF Deletes
<1>1. PICK r : Plain(r, x) /\ req' = [req EXCEPT ![h] = r]
  OBVIOUS
<1>2. req'[h] = r /\ \A g \in Handlers \ {h} : req'[g] = req[g]
  BY <1>1 DEF KeyInv, KeyTypes
<1>3. /\ r \in RequestRecords /\ r.new = NoVersion /\ r.prev = NoVersion /\ r.op = "patch" /\ r.victim = x
      /\ r.pc \in {"idle", "withdraw", "destroy"} /\ (r.pc = "destroy" <=> x # NoVersion)
  BY <1>1 DEF Plain
<1>4. /\ rule'.state = "deleted" /\ rule'.key = rule.key /\ req[h].op = "delete" /\ req[h].pc = "commit"
      /\ rule' \in [state : {"deleted"}, enabled : BOOLEAN, key : Keys]
      /\ queue' = queue \cup ({rule.key} \ {NoVersion}) /\ UNCHANGED <<store, sweep, lost, taken>>
  BY DEF Deletes
<1>5. x \in Keys /\ rule.key \in Keys
  BY <1>1 DEF KeyInv, KeyTypes, RequestRecords, Keys
<1> USE WorkflowAssumption DEF KeyInv
<1>6. KeyTypes'
  <2>1. rule' \in [state : {"absent", "live", "deleted"}, enabled : BOOLEAN, key : Keys]
    BY <1>4
  <2>2. queue' \subseteq Versions
    BY <1>4, <1>5 DEF KeyTypes, Keys
  <2>3. QED BY <1>1, <1>3, <1>4, <2>1, <2>2 DEF KeyTypes
<1>7. Carried'
  BY <1>2, <1>3, <1>4, <1>5 DEF Carried, Destroying, Keys
<1>8. References'
  BY <1>1, <1>2, <1>3, <1>4 DEF References
<1>9. OnItsWay'
  BY <1>1, <1>2, <1>3, <1>4 DEF OnItsWay
<1>10. LiveKey' /\ Discharging'
  BY <1>2, <1>3, <1>4 DEF LiveKey, Discharging
<1>11. OrphanIsQueued'
  BY <1>2, <1>3, <1>4 DEF OrphanIsQueued, OnItsWay
<1>12. QED BY <1>6, <1>7, <1>8, <1>9, <1>10, <1>11

LEMMA DestroyedKeys ==
  ASSUME KeyInv, NEW h \in Handlers, Destroyed(h), scenario' = scenario PROVE KeyInv'
<1> DEFINE v == req[h].victim
<1>1. PICK pc \in {"discharge", "record"} :
        /\ req' = [req EXCEPT ![h] = [req[h] EXCEPT !.pc = pc]]
        /\ \/ store' = [store EXCEPT ![v] = "destroyed"]
           \/ pc = "record" /\ UNCHANGED store
  BY Zenon DEF Destroyed
<1>2. v \in Versions /\ req[h].pc = "destroy" /\ UNCHANGED <<rule, queue, sweep, lost, taken>>
  BY DEF Destroyed, KeyInv, Carried, Destroying
<1>3. PICK r \in RequestRecords :
        /\ req' = [req EXCEPT ![h] = r] /\ r.pc = pc /\ r.new = req[h].new /\ r.prev = req[h].prev
        /\ r.op = req[h].op /\ r.victim = v
  <2> DEFINE r == [req[h] EXCEPT !.pc = pc]
  <2>1. /\ r \in RequestRecords /\ r.pc = pc /\ r.new = req[h].new /\ r.prev = req[h].prev
        /\ r.op = req[h].op /\ r.victim = v
    BY DEF KeyInv, KeyTypes, RequestRecords, RequestSteps
  <2>2. QED BY <1>1, <2>1, Zenon
<1>4. req'[h] = r /\ \A g \in Handlers \ {h} : req'[g] = req[g]
  BY <1>3 DEF KeyInv, KeyTypes
<1>5. /\ store' \in [Versions -> {"none", "alive", "destroyed"}]
      /\ \A w \in Versions \ {v} : store'[w] = store[w]
      /\ store'[v] \in {store[v], "destroyed"} /\ (pc = "discharge" => store'[v] = "destroyed")
  BY <1>1, <1>2 DEF KeyInv, KeyTypes
<1> HIDE DEF v
<1> USE WorkflowAssumption DEF KeyInv
<1>6. KeyTypes'
  BY <1>2, <1>3, <1>5 DEF KeyTypes
<1>7. Carried'
  BY <1>2, <1>3, <1>4 DEF Carried, Destroying
<1>8. References'
  BY <1>2, <1>3, <1>4, <1>5 DEF References, v
<1>9. OnItsWay'
  BY <1>2, <1>3, <1>4, <1>5 DEF OnItsWay, v
<1>10. LiveKey'
  BY <1>2, <1>3, <1>4, <1>5 DEF LiveKey, v
<1>11. Discharging'
  BY <1>2, <1>3, <1>4, <1>5 DEF Discharging, Carried, Destroying, v
<1>12. OrphanIsQueued'
  BY <1>2, <1>3, <1>4, <1>5 DEF OrphanIsQueued, v
<1>13. QED BY <1>6, <1>7, <1>8, <1>9, <1>10, <1>11, <1>12

LEMMA RecordedKeys ==
  ASSUME KeyInv, NEW h \in Handlers, Recorded(h), scenario' = scenario PROVE KeyInv'
<1> DEFINE v == req[h].victim
<1>1. PICK r : Plain(r, NoVersion) /\ req' = [req EXCEPT ![h] = r]
  BY DEF Recorded
<1>2. req'[h] = r /\ \A g \in Handlers \ {h} : req'[g] = req[g]
  BY <1>1 DEF KeyInv, KeyTypes
<1>3. /\ r \in RequestRecords /\ r.new = NoVersion /\ r.prev = NoVersion /\ r.op = "patch" /\ r.victim = NoVersion
      /\ r.pc \in {"idle", "withdraw"}
  BY <1>1 DEF Plain
<1>4. /\ queue' = queue \/ queue' = queue \cup {v} \/ (store[v] = "destroyed" /\ queue' = queue \ {v})
      /\ req[h].pc \in {"discharge", "record"} /\ v \in Versions /\ UNCHANGED <<rule, store, sweep, lost, taken>>
  BY DEF Recorded, KeyInv, Discharging, Carried, Destroying
<1> HIDE DEF v
<1> USE WorkflowAssumption DEF KeyInv
<1>6. KeyTypes'
  BY <1>1, <1>3, <1>4 DEF KeyTypes
<1>7. Carried'
  BY <1>2, <1>3, <1>4 DEF Carried, Destroying
<1>8. References'
  BY <1>2, <1>3, <1>4 DEF References, v
<1>9. OnItsWay'
  BY <1>2, <1>3, <1>4 DEF OnItsWay, v
<1>10. LiveKey' /\ Discharging'
  BY <1>2, <1>3, <1>4 DEF LiveKey, Discharging, v
<1>11. OrphanIsQueued'
  BY <1>2, <1>3, <1>4 DEF OrphanIsQueued
<1>12. QED BY <1>6, <1>7, <1>8, <1>9, <1>10, <1>11

LEMMA StopsKeys ==
  ASSUME KeyInv, NEW h \in Handlers, Stops(h), scenario' = scenario PROVE KeyInv'
<1>1. PICK r : Plain(r, NoVersion) /\ req' = [req EXCEPT ![h] = r]
  BY DEF Stops
<1>2. req'[h] = r /\ \A g \in Handlers \ {h} : req'[g] = req[g]
  BY <1>1 DEF KeyInv, KeyTypes
<1>3. /\ r \in RequestRecords /\ r.new = NoVersion /\ r.prev = NoVersion /\ r.op = "patch" /\ r.victim = NoVersion
      /\ r.pc \in {"idle", "withdraw"}
  BY <1>1 DEF Plain
<1>4. /\ lost' = (IF req[h].pc = "queue" THEN lost \cup {req[h].new} ELSE lost)
      /\ UNCHANGED <<rule, store, queue, sweep, taken>>
  BY DEF Stops
<1> USE WorkflowAssumption DEF KeyInv
<1>6. KeyTypes'
  BY <1>1, <1>3, <1>4 DEF KeyTypes, Carried
<1>7. Carried'
  BY <1>2, <1>3, <1>4 DEF Carried, Destroying
<1>8. References'
  BY <1>2, <1>3, <1>4 DEF References
<1>9. OnItsWay'
  BY <1>2, <1>3, <1>4 DEF OnItsWay
<1>10. LiveKey' /\ Discharging'
  BY <1>2, <1>3, <1>4 DEF LiveKey, Discharging
<1>11. OrphanIsQueued'
  BY <1>2, <1>3, <1>4 DEF OrphanIsQueued, OnItsWay
<1>12. QED BY <1>6, <1>7, <1>8, <1>9, <1>10, <1>11

(* The sweep *)
LEMMA SweepsKeys == ASSUME KeyInv, Sweeps, scenario' = scenario PROVE KeyInv'
<1> USE WorkflowAssumption DEF KeyInv
<1>1. ASSUME NEW v \in Versions, ListDueRetirements(v) PROVE KeyInv'
  <2>1. /\ v \in queue /\ sweep' = v /\ UNCHANGED <<rule, req, store, queue, lost>>
        /\ taken' = IF Installing(v) THEN taken \cup {v} ELSE taken
    BY <1>1 DEF ListDueRetirements
  <2>2. KeyTypes' /\ Carried'
    BY <2>1 DEF KeyTypes, Carried, Keys
  <2>3. References'
    BY <2>1 DEF References
  <2>4. OnItsWay'
    <3>1. ASSUME NEW h \in Handlers, req[h].new = v PROVE v \in taken'
      BY <2>1, <3>1 DEF Installing, At, OnItsWay, Carried
    <3>2. QED BY <2>1, <3>1 DEF OnItsWay
  <2>5. LiveKey' /\ Discharging'
    BY <2>1 DEF LiveKey, Discharging
  <2>6. OrphanIsQueued'
    BY <2>1 DEF OrphanIsQueued
  <2>7. QED BY <2>2, <2>3, <2>4, <2>5, <2>6
<1>2. CASE RetireVersion
  <2>1. /\ sweep \in Versions /\ sweep' = NoVersion /\ queue' \in {queue \ {sweep}, queue}
        /\ UNCHANGED <<rule, req, lost, taken>>
    BY <1>2 DEF RetireVersion, KeyTypes, Keys
  <2>2. /\ store' \in [Versions -> {"none", "alive", "destroyed"}] /\ store'[sweep] = "destroyed"
        /\ \A w \in Versions \ {sweep} : store'[w] = store[w]
    BY <1>2, <2>1 DEF RetireVersion, KeyTypes
  <2>3. KeyTypes' /\ Carried'
    BY <2>1, <2>2 DEF KeyTypes, Carried, Keys
  <2>4. References'
    BY <2>1, <2>2 DEF References
  <2>5. OnItsWay'
    BY <2>1, <2>2 DEF OnItsWay
  <2>6. LiveKey'
    BY <2>1, <2>2 DEF LiveKey
  <2>7. Discharging'
    BY <2>1, <2>2 DEF Discharging, Carried, Destroying
  <2>8. OrphanIsQueued'
    BY <2>1, <2>2 DEF OrphanIsQueued
  <2>9. QED BY <2>3, <2>4, <2>5, <2>6, <2>7, <2>8
<1>3. CASE RescheduleRetirement
  <2>1. sweep' = NoVersion /\ UNCHANGED <<rule, req, store, queue, lost, taken>>
    BY <1>3 DEF RescheduleRetirement
  <2>2. KeyTypes' /\ Carried' /\ References' /\ OnItsWay'
    BY <2>1 DEF KeyTypes, Carried, References, OnItsWay, Keys
  <2>3. LiveKey' /\ Discharging' /\ OrphanIsQueued'
    BY <2>1 DEF LiveKey, Discharging, OrphanIsQueued
  <2>4. QED BY <2>2, <2>3
<1>4. QED BY <1>1, <1>2, <1>3 DEF Sweeps

LEMMA ScenarioFixed == [Next]_vars => scenario' = scenario
<1> SUFFICES ASSUME [Next]_vars PROVE scenario' = scenario
  OBVIOUS
<1>1. ASSUME NEW e \in Executions, Executes(e) PROVE scenario' = scenario
  BY <1>1 DEF Executes, MatchRule, CreateExecution, ApproveExecution, RetryExecution, CancelExecution,
    Decide, GrowsStale, RunStep, ClaimExecution, GuardExecution, DispatchWorkflowAction, WriteOutcome,
    WriteThrows, RunStops
<1>2. ASSUME NEW t \in Ticks, TicksOn(t) PROVE scenario' = scenario
  BY <1>2 DEF TicksOn, SelectStaleProcessing, RecoverStaleProcessing, ListDueExecutions, TickEnds,
    TickStops, Forgets
<1>3. CASE UNCHANGED vars
  BY <1>3 DEF vars
<1>4. CASE (\E h \in Handlers : Handles(h)) \/ Sweeps
  BY <1>4, KeysLeaveExecutions
<1>5. QED BY <1>1, <1>2, <1>3, <1>4, NextSteps

LEMMA KeyInvInit == Init => KeyInv
<1> SUFFICES ASSUME Init PROVE KeyInv
  OBVIOUS
<1> USE WorkflowAssumption DEF Init
<1>1. \A h \in Handlers : req[h] = Idle
  OBVIOUS
<1>2. /\ Idle \in RequestRecords /\ Idle.pc = "idle" /\ Idle.new = NoVersion /\ Idle.prev = NoVersion
      /\ Idle.victim = NoVersion /\ Idle.op = "patch"
  BY IdlePlain DEF Plain, Idle
<1>3. KeyTypes
  BY <1>2 DEF KeyTypes, Keys
<1>4. Carried
  BY <1>1, <1>2 DEF Carried, Destroying
<1>5. References /\ OnItsWay /\ LiveKey /\ Discharging
  BY <1>1, <1>2 DEF References, OnItsWay, LiveKey, Discharging
<1>6. OrphanIsQueued
  BY DEF OrphanIsQueued
<1>7. QED BY <1>3, <1>4, <1>5, <1>6 DEF KeyInv

LEMMA KeyInvStep == KeyInv /\ [Next]_vars => KeyInv'
<1> SUFFICES ASSUME KeyInv, [Next]_vars PROVE KeyInv'
  OBVIOUS
<1>1. scenario' = scenario
  BY ScenarioFixed
<1>2. ASSUME NEW h \in Handlers, Handles(h) PROVE KeyInv'
  <2>1. KeyAction(h)
    BY <1>2, HandlesKeys DEF KeyInv
  <2>2. QED BY <1>1, <2>1, BeginsKeys, StoresKeys, QueuesKeys, CommitsKeys, RejectsKeys, DeletesKeys,
      DestroyedKeys, RecordedKeys, StopsKeys DEF KeyAction
<1>3. CASE Sweeps
  BY <1>1, <1>3, SweepsKeys
<1>4. CASE UNCHANGED <<rule, req, keyVars>>
  BY <1>1, <1>4 DEF KeyInv, KeyTypes, Carried, References, OnItsWay, LiveKey, Discharging, OrphanIsQueued,
    keyVars
<1>5. QED BY <1>2, <1>3, <1>4, ExecutionsLeaveKeys

LEMMA KeyInvariant == Spec => []KeyInv
BY KeyInvInit, KeyInvStep, PTL DEF Spec

(* A live rule's key is readable, for any requests and any sweep racing    *)
(* the rotation, the edit or the deletion that writes the rule.            *)
THEOREM LiveKeyReadable == Spec => []LiveKeyIsReadable
<1>1. KeyInv => LiveKeyIsReadable
  BY DEF KeyInv, LiveKey, KeyTypes, Keys, LiveKeyIsReadable
<1>2. QED BY <1>1, KeyInvariant, PTL

(* A readable version is referred to or queued, wherever its requests and  *)
(* the sweep stopped.                                                      *)
THEOREM OrphanQueued == Spec => []OrphanIsQueued
<1>1. KeyInv => OrphanIsQueued
  BY DEF KeyInv
<1>2. QED BY <1>1, KeyInvariant, PTL
-----------------------------------------------------------------------------
(* Types of the executions and of the ticks *)

RunTypes ==
  /\ matched \subseteq Executions
  /\ status \in [Executions -> Statuses] /\ count \in [Executions -> Nat]
  /\ stale \in [Executions -> BOOLEAN] /\ unspent \in [Executions -> Int]
  /\ crossed \in [Executions -> BOOLEAN]
  /\ tick \in [Ticks -> {"idle", "recovering", "recovered", "running"}]
  /\ selected \in [Ticks -> SUBSET Executions]
  /\ cache \in [Ticks -> {"none", "enabled", "refused"}] /\ seenOn \in [Ticks -> BOOLEAN]
  /\ run \in [Ticks -> [Executions -> RunSteps]]
  /\ claimed \in [Ticks -> [Executions -> Nat]] /\ scenario \in Scenarios

LEMMA MovesRun ==
  ASSUME RunTypes, NEW t \in Ticks, NEW e \in Executions, NEW pc \in RunSteps, Moves(t, e, pc)
  PROVE  /\ run' \in [Ticks -> [Executions -> RunSteps]] /\ run'[t][e] = pc
         /\ \A u \in Ticks, d \in Executions : u # t \/ d # e => run'[u][d] = run[u][d]
BY DEF RunTypes, Moves

LEMMA AfterErrorSteps ==
  ASSUME NEW t \in Ticks, NEW e \in Executions
  PROVE  /\ AfterError(t, e) \in {"catchFail", "catchRetry"}
         /\ AfterError(t, e) = "catchRetry" => ~scenario.gated /\ claimed[t][e] < MaxAttempts
BY DEF AfterError, MayRetry

(* What a step of a run does: the place it moves to, and when. *)
Guards(t, e, pc) ==
  /\ run[t][e] = "guard" /\ pc \in {"dispatch", "fail", AfterError(t, e)} /\ Moves(t, e, pc)
  /\ pc = "dispatch" => cache'[t] = "enabled"
  /\ \/ UNCHANGED cache
     \/ cache' = [cache EXCEPT ![t] = cache[t]] /\ cache[t] # "none"
     \/ cache' = [cache EXCEPT ![t] = "enabled"] /\ On
     \/ cache' = [cache EXCEPT ![t] = "refused"]
  /\ UNCHANGED <<executionVars, matched, tick, selected, claimed, seenOn, rule, scenario>>

LEMMA GuardGuards ==
  ASSUME RunTypes, NEW t \in Ticks, NEW e \in Executions, GuardExecution(t, e)
  PROVE  \E pc \in RunSteps : Guards(t, e, pc)
<1> DEFINE seen == IF cache[t] # "none" THEN cache[t] ELSE IF On THEN "enabled" ELSE "refused"
<1>1. run[t][e] = "guard" /\ UNCHANGED <<executionVars, matched, tick, selected, claimed, seenOn, rule, scenario>>
  BY DEF GuardExecution
<1>2. CASE cache' = [cache EXCEPT ![t] = seen] /\ seen = "enabled" /\ \E pc \in {"dispatch", "fail"} : Moves(t, e, pc)
  <2>1. PICK pc \in {"dispatch", "fail"} : Moves(t, e, pc)
    BY <1>2
  <2>2. pc \in RunSteps /\ cache'[t] = "enabled"
    BY <1>2 DEF RunSteps, InTry, RunTypes
  <2>3. QED BY <1>1, <1>2, <2>1, <2>2 DEF Guards
<1>3. CASE cache' = [cache EXCEPT ![t] = seen] /\ seen # "enabled" /\ Moves(t, e, "fail")
  BY <1>1, <1>3 DEF Guards, RunSteps, InTry
<1>4. CASE Moves(t, e, AfterError(t, e)) /\ UNCHANGED cache
  BY <1>1, <1>4, AfterErrorSteps DEF Guards, RunSteps, InCatch
<1>5. QED BY <1>2, <1>3, <1>4 DEF GuardExecution

(* Of the requests, those that write the rule tell the ticks. *)
LEMMA HandlesSeen ==
  ASSUME KeyTypes, NEW h \in Handlers, Handles(h)
  PROVE  \/ UNCHANGED <<rule, seenOn>>
         \/ rule'.state # "live" /\ UNCHANGED seenOn
         \/ seenOn' = [t \in Ticks |-> seenOn[t] \/ (tick[t] # "idle" /\ On')]
<1>1. CASE RequestCreate(h) \/ RequestUpdate(h) \/ RequestDelete(h) \/ HandlerStops(h)
  BY <1>1, Zenon DEF RequestCreate, RequestUpdate, RequestDelete, HandlerStops, tickVars
<1>2. CASE StoreActionSecret(h) \/ RefuseActionSecret(h) \/ QueuePendingActionSecret(h)
  BY <1>2, Zenon DEF StoreActionSecret, RefuseActionSecret, QueuePendingActionSecret, tickVars
<1>3. CASE CreateWorkflow(h) \/ UpdateWorkflow(h)
  BY <1>3, Zenon DEF CreateWorkflow, UpdateWorkflow
<1>4. CASE DeleteWorkflow(h)
  <2>1. UNCHANGED seenOn /\ (rule' = [rule EXCEPT !.state = "deleted", !.enabled = FALSE] \/ UNCHANGED rule)
    BY <1>4, Zenon DEF DeleteWorkflow, tickVars
  <2>2. QED BY <2>1 DEF KeyTypes
<1>5. CASE DestroyVersion(h) \/ DischargeRetirement(h) \/ RecordFailedRetirement(h)
           \/ CancelOpenExecutionsForWorkflow(h)
  BY <1>5, Zenon DEF DestroyVersion, DischargeRetirement, RecordFailedRetirement, tickVars,
    CancelOpenExecutionsForWorkflow
<1>6. QED BY <1>1, <1>2, <1>3, <1>4, <1>5 DEF Handles, HandlerStep
-----------------------------------------------------------------------------
(* The runs *)

(* A tick knows the rule as enabled only if it was, since the tick began. *)
Seen ==
  \A t \in Ticks :
    /\ tick[t] # "idle" /\ On => seenOn[t]
    /\ tick[t] = "idle" => cache[t] = "none" /\ \A e \in Executions : run[t][e] = "none"
    /\ cache[t] = "enabled" => seenOn[t]
    /\ \A e \in Executions : run[t][e] = "dispatch" => seenOn[t]

(* The steps that make an execution due again. *)
Again == {"retry", "catchRetry"}

(* An attempt count that no crossing run left behind is within its limit,  *)
(* and a run that is about to reschedule has not claimed the last attempt. *)
Counted ==
  \A e \in Executions :
    /\ status[e] = "none" => count[e] = 0
    /\ ~crossed[e] => /\ count[e] <= MaxAttempts
                      /\ status[e] = "pending" => count[e] < MaxAttempts
    /\ \A t \in Ticks : run[t][e] \in Again => claimed[t][e] < MaxAttempts

(* The runs that are going to start the action. *)
Starters(e) == {t \in Ticks : run[t][e] \in {"guard", "dispatch"}}

(* A gated action is never retried, and a decision is left for every run   *)
(* that is going to start it and for the execution that is due.            *)
Gated ==
  /\ ~scenario.gated => \A e \in Executions : unspent[e] = 0
  /\ scenario.gated => \A e \in Executions :
       /\ \A t \in Ticks : run[t][e] \notin Again
       /\ Cardinality(Starters(e)) + (IF status[e] = "pending" THEN 1 ELSE 0) <= unspent[e]

RunInv == RunTypes /\ Seen /\ Counted /\ Gated

LEMMA StarterCount ==
  /\ \A e \in Executions : IsFiniteSet(Starters(e)) /\ Cardinality(Starters(e)) \in Nat
  /\ \A e \in Executions : IsFiniteSet(Starters(e)') /\ Cardinality(Starters(e)') \in Nat
BY WorkflowAssumption, FS_Subset, FS_CardinalityType DEF Starters

LEMMA FewerStarters ==
  ASSUME NEW e \in Executions, Starters(e)' \subseteq Starters(e)
  PROVE  Cardinality(Starters(e)') <= Cardinality(Starters(e))
BY StarterCount, FS_Subset

LEMMA SameStarters ==
  ASSUME UNCHANGED run, NEW e \in Executions
  PROVE  Cardinality(Starters(e)') = Cardinality(Starters(e))
BY DEF Starters

(* Steps that leave the rows alone. *)
LEMMA CountedMoves ==
  ASSUME Counted, UNCHANGED <<status, count, crossed, claimed>>,
         \A u \in Ticks, d \in Executions :
           run'[u][d] \in Again => run[u][d] \in Again \/ claimed[u][d] < MaxAttempts
  PROVE  Counted'
BY DEF Counted

LEMMA GatedStays ==
  ASSUME Gated, RunTypes, UNCHANGED <<unspent, scenario>>,
         \A d \in Executions : Cardinality(Starters(d)') <= Cardinality(Starters(d)),
         scenario.gated => \A d \in Executions : /\ \A u \in Ticks : run'[u][d] \notin Again
                                                 /\ status'[d] = "pending" => status[d] = "pending"
  PROVE  Gated'
<1> SUFFICES ASSUME scenario.gated, NEW d \in Executions
             PROVE  Cardinality(Starters(d)') + (IF status'[d] = "pending" THEN 1 ELSE 0) <= unspent[d]
  BY DEF Gated
<1>1. Cardinality(Starters(d)) + (IF status[d] = "pending" THEN 1 ELSE 0) <= unspent[d]
  BY DEF Gated
<1>2. unspent[d] \in Int /\ (status'[d] = "pending" => status[d] = "pending")
  BY DEF RunTypes
<1>3. QED BY <1>1, <1>2, StarterCount

(* Requests and the sweep *)
LEMMA KeysRuns ==
  ASSUME RunInv, KeyTypes, (\E h \in Handlers : Handles(h)) \/ Sweeps PROVE RunInv'
<1> USE DEF RunInv
<1>1. /\ Withdraws \/ UNCHANGED executionVars
      /\ UNCHANGED <<tick, selected, cache, run, claimed, scenario, matched>>
  BY KeysLeaveExecutions
<1>2. \/ UNCHANGED <<rule, seenOn>>
      \/ rule'.state # "live" /\ UNCHANGED seenOn
      \/ seenOn' = [t \in Ticks |-> seenOn[t] \/ (tick[t] # "idle" /\ On')]
  <2>1. CASE Sweeps
    BY <2>1 DEF Sweeps, ListDueRetirements, RetireVersion, RescheduleRetirement, tickVars
  <2>2. QED BY <2>1, HandlesSeen
<1>3. /\ status' \in [Executions -> Statuses] /\ stale' \in [Executions -> BOOLEAN]
      /\ \A e \in Executions :
           /\ status'[e] = status[e] \/ (status[e] \in Open /\ status'[e] = "cancelled")
           /\ stale'[e] => stale[e]
      /\ UNCHANGED <<count, unspent, crossed>>
  <2>1. CASE Withdraws
    <3>1. stale' \in [Executions -> BOOLEAN] /\ \A e \in Executions : stale'[e] => stale[e]
      BY <2>1, Zenon DEF Withdraws, RunTypes
    <3>2. QED BY <2>1, <3>1 DEF Withdraws, RunTypes, Statuses, Final
  <2>2. CASE UNCHANGED executionVars
    BY <2>2 DEF RunTypes, executionVars
  <2>3. QED BY <1>1, <2>1, <2>2
<1>4. seenOn' \in [Ticks -> BOOLEAN] /\ \A t \in Ticks : seenOn[t] => seenOn'[t]
  <2>1. CASE UNCHANGED seenOn
    BY <2>1 DEF RunTypes
  <2>2. CASE seenOn' = [t \in Ticks |-> seenOn[t] \/ (tick[t] # "idle" /\ On')]
    BY <2>2, Zenon DEF RunTypes
  <2>3. QED BY <1>2, <2>1, <2>2
<1>5. RunTypes'
  BY <1>1, <1>3, <1>4 DEF RunTypes
<1>6. Seen'
  <2>1. ASSUME NEW t \in Ticks, tick[t] # "idle", On' PROVE seenOn'[t]
    BY <1>2, <1>4, <2>1 DEF Seen, On
  <2>2. QED BY <1>1, <1>4, <2>1 DEF Seen
<1>7. Counted'
  BY <1>1, <1>3 DEF Counted, Open
<1>8. Gated'
  BY <1>1, <1>3, SameStarters, StarterCount DEF Gated, Open, RunTypes
<1>9. QED BY <1>5, <1>6, <1>7, <1>8
(* Events and people *)
LEMMA PeopleRuns ==
  ASSUME RunInv, NEW e \in Executions,
         MatchRule(e) \/ CreateExecution(e) \/ ApproveExecution(e) \/ RetryExecution(e) \/ CancelExecution(e)
  PROVE  RunInv'
<1> USE WorkflowAssumption DEF RunInv
<1>1. UNCHANGED <<rule, tick, selected, cache, run, claimed, seenOn, scenario>>
  BY Zenon DEF MatchRule, CreateExecution, ApproveExecution, RetryExecution, CancelExecution, Decide, tickVars
<1>2. Seen'
  BY <1>1 DEF Seen, On
<1>3. ASSUME NEW to \in {"pending", "awaiting_review", "cancelled"},
             status[e] \in {"none", "awaiting_review", "failed"},
             status' = [status EXCEPT ![e] = to],
             count' = [count EXCEPT ![e] = 0] \/ (status[e] = "none" /\ UNCHANGED count),
             stale' = [stale EXCEPT ![e] = FALSE] \/ UNCHANGED stale,
             crossed' = [crossed EXCEPT ![e] = FALSE] \/ UNCHANGED crossed,
             IF scenario.gated /\ to = "pending" THEN unspent' = [unspent EXCEPT ![e] = @ + 1] ELSE UNCHANGED unspent,
             matched' \subseteq Executions
      PROVE  RunInv'
  <2>1. RunTypes'
    <3>1. status' \in [Executions -> Statuses] /\ count' \in [Executions -> Nat]
      <4>1. to \in Statuses
        BY DEF Statuses, Open, Final
      <4>2. status' \in [Executions -> Statuses]
        BY <1>3, <4>1 DEF RunTypes
      <4>3. count' \in [Executions -> Nat]
        BY <1>3 DEF RunTypes
      <4>4. QED BY <4>2, <4>3
    <3>2. stale' \in [Executions -> BOOLEAN] /\ crossed' \in [Executions -> BOOLEAN]
      BY <1>3 DEF RunTypes
    <3>3. unspent' \in [Executions -> Int]
      BY <1>3 DEF RunTypes
    <3>4. QED BY <1>1, <1>3, <3>1, <3>2, <3>3 DEF RunTypes
  <2>2. Counted'
    BY <1>1, <1>3 DEF Counted, RunTypes
  <2>3. Gated'
    BY <1>1, <1>3, SameStarters, StarterCount DEF Gated, RunTypes
  <2>4. QED BY <1>2, <2>1, <2>2, <2>3
<1>4. CASE UNCHANGED executionVars /\ matched' \subseteq Executions
  <2>1. RunTypes' /\ Counted'
    BY <1>1, <1>4 DEF RunTypes, Counted, executionVars
  <2>2. Gated'
    BY <1>1, <1>4, SameStarters DEF Gated, executionVars
  <2>3. QED BY <1>2, <2>1, <2>2
<1>5. CASE MatchRule(e)
  BY <1>4, <1>5 DEF MatchRule, RunTypes
<1>6. CASE CreateExecution(e)
  BY <1>3, <1>4, <1>6 DEF CreateExecution, RunTypes, executionVars
<1>7. CASE ApproveExecution(e)
  BY <1>3, <1>7 DEF ApproveExecution, Decide, Authorizes, RunTypes
<1>8. CASE RetryExecution(e)
  BY <1>3, <1>8 DEF RetryExecution, Decide, Authorizes, RunTypes
<1>9. CASE CancelExecution(e)
  BY <1>3, <1>9 DEF CancelExecution, Decide, RunTypes
<1>10. QED BY <1>5, <1>6, <1>7, <1>8, <1>9

LEMMA StaleRuns == ASSUME RunInv, NEW e \in Executions, GrowsStale(e) PROVE RunInv'
<1> USE WorkflowAssumption DEF RunInv
<1>1. /\ stale' = [stale EXCEPT ![e] = TRUE]
      /\ UNCHANGED <<rule, matched, status, count, unspent, crossed, tick, selected, cache, run, claimed,
                     seenOn, scenario>>
  BY DEF GrowsStale, tickVars
<1>2. RunTypes' /\ Seen'
  BY <1>1 DEF RunTypes, Seen, On
<1>3. Counted'
  BY <1>1 DEF Counted
<1>4. Gated'
  BY <1>1, SameStarters DEF Gated
<1>5. QED BY <1>2, <1>3, <1>4

(* A run of one execution *)
LEMMA ClaimRuns ==
  ASSUME RunInv, NEW t \in Ticks, NEW e \in Executions, ClaimExecution(t, e) PROVE RunInv'
<1> USE WorkflowAssumption DEF RunInv
<1>1. run[t][e] = "listed" /\ UNCHANGED <<rule, matched, unspent, crossed, tick, selected, cache, seenOn, scenario>>
  BY DEF ClaimExecution
<1>2. CASE status[e] = "pending"
  <2>1. /\ status' = [status EXCEPT ![e] = "processing"] /\ count' = [count EXCEPT ![e] = @ + 1]
        /\ stale' = [stale EXCEPT ![e] = FALSE] /\ claimed' = [claimed EXCEPT ![t][e] = count[e] + 1]
        /\ Moves(t, e, "guard")
    BY <1>2 DEF ClaimExecution
  <2>2. /\ run' \in [Ticks -> [Executions -> RunSteps]] /\ run'[t][e] = "guard"
        /\ \A u \in Ticks, d \in Executions : u # t \/ d # e => run'[u][d] = run[u][d]
    BY <2>1, MovesRun DEF RunSteps
  <2>3. /\ claimed' \in [Ticks -> [Executions -> Nat]] /\ claimed'[t][e] = count[e] + 1
        /\ \A u \in Ticks, d \in Executions : u # t \/ d # e => claimed'[u][d] = claimed[u][d]
    BY <2>1 DEF RunTypes
  <2>4. RunTypes'
    BY <1>1, <2>1, <2>2, <2>3 DEF RunTypes, Statuses
  <2>5. Seen'
    BY <1>1, <2>2 DEF Seen, On
  <2>6. Counted'
    BY <1>1, <1>2, <2>1, <2>2, <2>3 DEF Counted, Again, RunTypes
  <2>7. Gated'
    <3>1. Starters(e)' = Starters(e) \cup {t} /\ t \notin Starters(e)
      BY <1>1, <2>2 DEF Starters
    <3>2. Cardinality(Starters(e)') = Cardinality(Starters(e)) + 1
      BY <3>1, StarterCount, FS_AddElement
    <3>3. ASSUME NEW d \in Executions \ {e} PROVE Cardinality(Starters(d)') = Cardinality(Starters(d))
      BY <2>2 DEF Starters
    <3>4. \A d \in Executions \ {e} : status'[d] = status[d]
      BY <2>1 DEF RunTypes
    <3>5. status'[e] = "processing"
      BY <2>1 DEF RunTypes
    <3>6. ASSUME scenario.gated, NEW d \in Executions, NEW u \in Ticks PROVE run'[u][d] \notin Again
      BY <2>2, <3>6 DEF Gated, Again
    <3>7. ASSUME scenario.gated, NEW d \in Executions
          PROVE  Cardinality(Starters(d)') + (IF status'[d] = "pending" THEN 1 ELSE 0) <= unspent[d]
      <4>1. Cardinality(Starters(d)) + (IF status[d] = "pending" THEN 1 ELSE 0) <= unspent[d] /\ unspent[d] \in Int
        BY <3>7 DEF Gated, RunTypes
      <4>2. QED BY <1>2, <3>2, <3>3, <3>4, <3>5, <4>1, StarterCount
    <3>8. QED BY <1>1, <3>6, <3>7 DEF Gated
  <2>8. QED BY <2>4, <2>5, <2>6, <2>7
<1>3. CASE status[e] # "pending"
  <2>1. Moves(t, e, "none") /\ UNCHANGED <<status, count, stale, claimed>>
    BY <1>3 DEF ClaimExecution
  <2>2. /\ run' \in [Ticks -> [Executions -> RunSteps]] /\ run'[t][e] = "none"
        /\ \A u \in Ticks, d \in Executions : u # t \/ d # e => run'[u][d] = run[u][d]
    BY <2>1, MovesRun DEF RunSteps
  <2>3. RunTypes'
    BY <1>1, <2>1, <2>2 DEF RunTypes
  <2>4. Counted'
    BY <1>1, <2>1, <2>2, CountedMoves DEF Again
  <2>7. Seen'
    BY <1>1, <2>2 DEF Seen, On
  <2>5. Gated'
    <3>1. ASSUME NEW d \in Executions PROVE Starters(d)' = Starters(d)
      BY <1>1, <2>2 DEF Starters
    <3>2. QED BY <1>1, <2>1, <2>2, <3>1 DEF Gated, Again
  <2>6. QED BY <2>3, <2>4, <2>5, <2>7
<1>4. QED BY <1>2, <1>3

LEMMA GuardRuns ==
  ASSUME RunInv, NEW t \in Ticks, NEW e \in Executions, GuardExecution(t, e) PROVE RunInv'
<1> USE WorkflowAssumption DEF RunInv
<1>1. PICK pc \in RunSteps : Guards(t, e, pc)
  BY GuardGuards
<1>2. /\ run' \in [Ticks -> [Executions -> RunSteps]] /\ run'[t][e] = pc
      /\ \A u \in Ticks, d \in Executions : u # t \/ d # e => run'[u][d] = run[u][d]
  BY <1>1, MovesRun DEF Guards
<1>3. /\ run[t][e] = "guard" /\ pc \in {"dispatch", "fail", "catchFail", "catchRetry"}
      /\ pc \in Again => ~scenario.gated /\ claimed[t][e] < MaxAttempts
      /\ UNCHANGED <<status, count, stale, unspent, crossed, matched, tick, selected, claimed, seenOn,
                     rule, scenario>>
  BY <1>1, AfterErrorSteps DEF Guards, executionVars, Again
<1>4. /\ cache' \in [Ticks -> {"none", "enabled", "refused"}]
      /\ \A u \in Ticks : cache'[u] = "enabled" => cache[u] = "enabled" \/ (u = t /\ On)
      /\ \A u \in Ticks \ {t} : cache'[u] = cache[u]
      /\ pc = "dispatch" => cache'[t] = "enabled"
  BY <1>1 DEF Guards, RunTypes
<1>5. RunTypes'
  BY <1>2, <1>3, <1>4 DEF RunTypes
<1>6. Seen'
  <2>1. \A u \in Ticks : cache'[u] = "enabled" => seenOn[u]
    BY <1>3, <1>4 DEF Seen
  <2>2. \A u \in Ticks, d \in Executions : run'[u][d] = "dispatch" => seenOn[u]
    BY <1>2, <1>3, <1>4, <2>1 DEF Seen
  <2>3. \A u \in Ticks : tick[u] = "idle" => u # t
    BY <1>3 DEF Seen
  <2>4. QED BY <1>2, <1>3, <1>4, <2>1, <2>2, <2>3 DEF Seen, On
<1>7. Counted'
  BY <1>2, <1>3, CountedMoves
<1>8. Gated'
  <2>1. ASSUME NEW d \in Executions PROVE Starters(d)' \subseteq Starters(d)
    BY <1>2, <1>3 DEF Starters
  <2>2. \A d \in Executions : Cardinality(Starters(d)') <= Cardinality(Starters(d))
    BY <2>1, FewerStarters
  <2>3. ASSUME scenario.gated, NEW d \in Executions, NEW u \in Ticks PROVE run'[u][d] \notin Again
    BY <1>2, <1>3, <2>3 DEF Gated
  <2>4. QED BY <1>3, <2>2, <2>3, GatedStays
<1>9. QED BY <1>5, <1>6, <1>7, <1>8

LEMMA DispatchRuns ==
  ASSUME RunInv, NEW t \in Ticks, NEW e \in Executions, DispatchWorkflowAction(t, e) PROVE RunInv'
<1> USE WorkflowAssumption DEF RunInv
<1>1. PICK pc \in InTry \cup InCatch :
        Moves(t, e, pc) /\ (pc \in Again => ~scenario.gated /\ claimed[t][e] < MaxAttempts)
  BY AfterErrorSteps DEF DispatchWorkflowAction, MayRetry, InTry, InCatch, Again
<1>2. pc \in RunSteps /\ pc \notin {"guard", "dispatch"}
  BY <1>1 DEF InTry, InCatch, RunSteps
<1>3. /\ run' \in [Ticks -> [Executions -> RunSteps]] /\ run'[t][e] = pc
      /\ \A u \in Ticks, d \in Executions : u # t \/ d # e => run'[u][d] = run[u][d]
  BY <1>1, <1>2, MovesRun
<1>4. /\ run[t][e] = "dispatch"
      /\ unspent' = (IF scenario.gated THEN [unspent EXCEPT ![e] = @ - 1] ELSE unspent)
      /\ UNCHANGED <<status, count, stale, crossed, matched, tick, selected, cache, claimed, seenOn,
                     rule, scenario>>
  BY DEF DispatchWorkflowAction
<1>5. RunTypes'
  BY <1>3, <1>4 DEF RunTypes
<1>6. Seen'
  BY <1>2, <1>3, <1>4 DEF Seen, On
<1>7. Counted'
  BY <1>1, <1>3, <1>4, CountedMoves
<1>8. Gated'
  <2>1. Starters(e)' = Starters(e) \ {t} /\ t \in Starters(e)
    BY <1>2, <1>3, <1>4 DEF Starters
  <2>2. Cardinality(Starters(e)') = Cardinality(Starters(e)) - 1
    BY <2>1, StarterCount, FS_RemoveElement
  <2>3. ASSUME NEW d \in Executions \ {e} PROVE Cardinality(Starters(d)') = Cardinality(Starters(d))
    BY <1>3 DEF Starters
  <2>4. QED BY <1>1, <1>3, <1>4, <2>2, <2>3, StarterCount DEF Gated, RunTypes
<1>9. QED BY <1>5, <1>6, <1>7, <1>8

(* An outcome that is written, whatever the run does next. *)
Written(t, e, pc) ==
  /\ run[t][e] \in InTry \cup InCatch /\ pc \in {"none"} \cup InCatch /\ Moves(t, e, pc)
  /\ pc \in Again => ~scenario.gated /\ claimed[t][e] < MaxAttempts
  /\ Writes(t, e) \/ UNCHANGED <<status, stale, crossed>>
  /\ UNCHANGED <<count, unspent, matched, tick, selected, cache, claimed, seenOn, rule, scenario>>

LEMMA WriteRuns ==
  ASSUME RunInv, NEW t \in Ticks, NEW e \in Executions, NEW pc, Written(t, e, pc) PROVE RunInv'
<1> USE WorkflowAssumption DEF RunInv
<1>1. pc \in RunSteps /\ pc \notin {"guard", "dispatch"}
  BY DEF Written, RunSteps, InCatch
<1>2. /\ run' \in [Ticks -> [Executions -> RunSteps]] /\ run'[t][e] = pc
      /\ \A u \in Ticks, d \in Executions : u # t \/ d # e => run'[u][d] = run[u][d]
  BY <1>1, MovesRun DEF Written
<1>3. /\ run[t][e] \notin {"none", "listed", "guard", "dispatch"}
      /\ pc \in Again => ~scenario.gated /\ claimed[t][e] < MaxAttempts
      /\ UNCHANGED <<count, unspent, matched, tick, selected, cache, claimed, seenOn, rule, scenario>>
  BY DEF Written, InTry, InCatch
<1>4. \/ UNCHANGED <<status, stale, crossed>>
      \/ /\ status[e] = "processing" /\ stale' = [stale EXCEPT ![e] = FALSE]
         /\ \E to \in {"succeeded", "failed", "pending"} :
              /\ status' = [status EXCEPT ![e] = to] /\ (to = "pending" <=> run[t][e] \in Again)
              /\ crossed' = [crossed EXCEPT ![e] = @ \/ (to = "pending" /\ count[e] # claimed[t][e])]
  BY DEF Written, Writes, Verdict, InTry, InCatch, Again
<1>5. RunTypes'
  <2>1. status' \in [Executions -> Statuses]
    BY <1>4 DEF RunTypes, Statuses, Open, Final
  <2>2. stale' \in [Executions -> BOOLEAN]
    BY <1>4 DEF RunTypes
  <2>3. crossed' \in [Executions -> BOOLEAN]
    BY <1>4, Zenon DEF RunTypes
  <2>4. QED BY <1>2, <1>3, <2>1, <2>2, <2>3 DEF RunTypes
<1>6. Seen'
  BY <1>1, <1>2, <1>3 DEF Seen, On
<1>7. Counted'
  <2>1. CASE UNCHANGED <<status, stale, crossed>>
    BY <1>2, <1>3, <2>1, CountedMoves
  <2>2. ASSUME status[e] = "processing", NEW to \in {"succeeded", "failed", "pending"},
               status' = [status EXCEPT ![e] = to], to = "pending" <=> run[t][e] \in Again,
               crossed' = [crossed EXCEPT ![e] = @ \/ (to = "pending" /\ count[e] # claimed[t][e])]
        PROVE  Counted'
    <3>1. /\ status'[e] = to /\ crossed'[e] = (crossed[e] \/ (to = "pending" /\ count[e] # claimed[t][e]))
          /\ \A d \in Executions \ {e} : status'[d] = status[d] /\ crossed'[d] = crossed[d]
      BY <2>2 DEF RunTypes
    <3>2. \A d \in Executions, u \in Ticks : run'[u][d] \in Again => claimed[u][d] < MaxAttempts
      BY <1>2, <1>3 DEF Counted
    <3>3. ~crossed'[e] => count[e] <= MaxAttempts /\ (to = "pending" => count[e] < MaxAttempts)
      BY <2>2, <3>1 DEF Counted
    <3>4. QED BY <1>3, <2>2, <3>1, <3>2, <3>3 DEF Counted
  <2>3. QED BY <1>4, <2>1, <2>2
<1>8. Gated'
  <2>1. ASSUME NEW d \in Executions PROVE Starters(d)' = Starters(d)
    BY <1>1, <1>2, <1>3 DEF Starters
  <2>2. ASSUME scenario.gated, NEW d \in Executions, status'[d] = "pending" PROVE status[d] = "pending"
    BY <1>3, <1>4, <2>2 DEF Gated, RunTypes
  <2>3. ASSUME scenario.gated, NEW d \in Executions, NEW u \in Ticks PROVE run'[u][d] \notin Again
    BY <1>2, <1>3, <2>3 DEF Gated
  <2>4. \A d \in Executions : Cardinality(Starters(d)') <= Cardinality(Starters(d))
    BY <2>1, StarterCount
  <2>5. QED BY <1>3, <2>2, <2>3, <2>4, GatedStays
<1>9. QED BY <1>5, <1>6, <1>7, <1>8

LEMMA OutcomeRuns ==
  ASSUME RunInv, NEW t \in Ticks, NEW e \in Executions, WriteOutcome(t, e) \/ WriteThrows(t, e)
  PROVE  RunInv'
<1>1. CASE WriteOutcome(t, e)
  <2>1. Written(t, e, "none")
    BY <1>1 DEF WriteOutcome, Written, Again
  <2>2. QED BY <2>1, WriteRuns
<1>2. CASE WriteThrows(t, e)
  <2>1. Written(t, e, AfterError(t, e))
    BY <1>2, AfterErrorSteps DEF WriteThrows, Written, InCatch, Again
  <2>2. QED BY <2>1, WriteRuns
<1>3. QED BY <1>1, <1>2

LEMMA StopRuns ==
  ASSUME RunInv, NEW t \in Ticks, NEW e \in Executions, RunStops(t, e) PROVE RunInv'
<1> USE WorkflowAssumption DEF RunInv
<1>1. /\ run' \in [Ticks -> [Executions -> RunSteps]] /\ run'[t][e] = "none"
      /\ \A u \in Ticks, d \in Executions : u # t \/ d # e => run'[u][d] = run[u][d]
  BY MovesRun DEF RunSteps, RunStops
<1>2. UNCHANGED <<status, count, stale, unspent, crossed, matched, tick, selected, cache, claimed,
                  seenOn, rule, scenario>>
  BY DEF RunStops, executionVars
<1>3. RunTypes'
  BY <1>1, <1>2 DEF RunTypes
<1>4. Seen'
  BY <1>1, <1>2 DEF Seen, On
<1>5. Counted'
  BY <1>1, <1>2, CountedMoves DEF Again
<1>6. Gated'
  <2>1. ASSUME NEW d \in Executions PROVE Starters(d)' \subseteq Starters(d)
    BY <1>1 DEF Starters
  <2>2. ASSUME scenario.gated, NEW d \in Executions, NEW u \in Ticks PROVE run'[u][d] \notin Again
    BY <1>1, <2>2 DEF Gated, Again
  <2>3. QED BY <1>2, <2>1, <2>2, FewerStarters, GatedStays
<1>7. QED BY <1>3, <1>4, <1>5, <1>6

(* A tick *)
LEMMA SelectRuns ==
  ASSUME RunInv, NEW t \in Ticks, SelectStaleProcessing(t) PROVE RunInv'
<1> USE WorkflowAssumption DEF RunInv
<1>1. /\ tick[t] = "idle" /\ tick' = [tick EXCEPT ![t] = "recovering"] /\ seenOn' = [seenOn EXCEPT ![t] = On]
      /\ UNCHANGED <<rule, matched, status, count, stale, unspent, crossed, cache, run, claimed, scenario>>
  BY DEF SelectStaleProcessing, executionVars
<1>2. selected' \in [Ticks -> SUBSET Executions]
  BY DEF SelectStaleProcessing, RunTypes
<1>3. seenOn' \in [Ticks -> BOOLEAN] /\ seenOn'[t] = On /\ \A u \in Ticks \ {t} : seenOn'[u] = seenOn[u]
  <2>1. On \in BOOLEAN
    BY Zenon DEF On
  <2>2. QED BY <1>1, <2>1 DEF RunTypes
<1>4. RunTypes'
  BY <1>1, <1>2, <1>3 DEF RunTypes
<1>5. Seen'
  <2>1. \A u \in Ticks \ {t} : tick'[u] = tick[u]
    BY <1>1 DEF RunTypes
  <2>2. cache[t] = "none" /\ (\A e \in Executions : run[t][e] = "none") /\ tick'[t] = "recovering"
    BY <1>1 DEF Seen, RunTypes
  <2>3. On' <=> On
    BY <1>1 DEF On
  <2>4. QED BY <1>1, <1>3, <2>1, <2>2, <2>3 DEF Seen
<1>6. Counted'
  BY <1>1, CountedMoves
<1>7. Gated'
  BY <1>1, SameStarters DEF Gated
<1>8. QED BY <1>4, <1>5, <1>6, <1>7

(* The recovery writes what it selected, whatever became of it since. *)
LEMMA RecoverRuns ==
  ASSUME RunInv, NEW t \in Ticks, RecoverStaleProcessing(t) PROVE RunInv'
<1> USE WorkflowAssumption DEF RunInv
<1> DEFINE found == selected[t]
<1>1. /\ tick[t] = "recovering" /\ tick' = [tick EXCEPT ![t] = "recovered"]
      /\ selected' = [selected EXCEPT ![t] = {}]
      /\ UNCHANGED <<rule, matched, unspent, crossed, cache, run, claimed, seenOn, scenario>>
  BY DEF RecoverStaleProcessing
<1>2. /\ status' = [e \in Executions |-> IF e \notin found THEN status[e]
                                          ELSE IF scenario.gated THEN "failed" ELSE "pending"]
      /\ count' = [e \in Executions |-> IF e \in found /\ ~scenario.gated /\ count[e] > 0
                                         THEN count[e] - 1 ELSE count[e]]
      /\ stale' = [e \in Executions |-> stale[e] /\ e \notin found]
  BY DEF RecoverStaleProcessing
<1>3. stale' \in [Executions -> BOOLEAN]
  BY <1>2, Zenon DEF RunTypes
<1>4. selected' \in [Ticks -> SUBSET Executions]
  BY <1>1 DEF RunTypes
<1>5. RunTypes'
  BY <1>1, <1>2, <1>3, <1>4 DEF RunTypes, Statuses, Open
<1>6. Seen'
  <2>1. tick'[t] = "recovered" /\ \A u \in Ticks \ {t} : tick'[u] = tick[u]
    BY <1>1 DEF RunTypes
  <2>2. On' <=> On
    BY <1>1 DEF On
  <2>3. QED BY <1>1, <2>1, <2>2 DEF Seen
<1>7. Counted'
  <2> SUFFICES ASSUME NEW e \in Executions PROVE Counted!(e)'
    BY DEF Counted
  <2>0. count[e] \in Nat /\ Counted!(e)
    BY DEF Counted, RunTypes
  <2>1. CASE e \in found
    <3>1. status'[e] = IF scenario.gated THEN "failed" ELSE "pending"
      BY <1>2, <2>1
    <3>2. count'[e] = IF ~scenario.gated /\ count[e] > 0 THEN count[e] - 1 ELSE count[e]
      BY <1>2, <2>1
    <3>3. QED BY <1>1, <2>0, <3>1, <3>2
  <2>2. CASE e \notin found
    <3>1. status'[e] = status[e] /\ count'[e] = count[e]
      BY <1>2, <2>2
    <3>2. QED BY <1>1, <2>0, <3>1
  <2>3. QED BY <2>1, <2>2
<1>8. Gated'
  <2>1. \A e \in Executions : Cardinality(Starters(e)') <= Cardinality(Starters(e))
    BY <1>1, SameStarters, StarterCount
  <2>2. ASSUME scenario.gated, NEW e \in Executions
        PROVE  status'[e] = "pending" => status[e] = "pending"
    BY <1>2, <2>2
  <2>3. scenario.gated => \A e \in Executions, u \in Ticks : run'[u][e] \notin Again
    BY <1>1 DEF Gated
  <2>4. QED BY <1>1, <2>1, <2>2, <2>3, GatedStays
<1>9. QED BY <1>5, <1>6, <1>7, <1>8

LEMMA ListRuns ==
  ASSUME RunInv, NEW t \in Ticks, ListDueExecutions(t) PROVE RunInv'
<1> USE WorkflowAssumption DEF RunInv
<1>1. /\ tick[t] = "recovered" /\ tick' = [tick EXCEPT ![t] = "running"]
      /\ UNCHANGED <<rule, matched, status, count, stale, unspent, crossed, selected, cache, claimed,
                     seenOn, scenario>>
  BY DEF ListDueExecutions, executionVars
<1>2. /\ run' \in [Ticks -> [Executions -> RunSteps]]
      /\ \A e \in Executions : run'[t][e] \in {"listed", "none"}
      /\ \A u \in Ticks \ {t} : run'[u] = run[u]
  BY DEF ListDueExecutions, RunTypes, RunSteps
<1>3. RunTypes'
  BY <1>1, <1>2 DEF RunTypes
<1>4. Seen'
  <2>1. tick'[t] = "running" /\ \A u \in Ticks \ {t} : tick'[u] = tick[u]
    BY <1>1 DEF RunTypes
  <2>2. QED BY <1>1, <1>2, <2>1 DEF Seen, On
<1>5. Counted'
  BY <1>1, <1>2, CountedMoves DEF Again
<1>6. Gated'
  <2>1. ASSUME NEW d \in Executions PROVE Starters(d)' \subseteq Starters(d)
    BY <1>2 DEF Starters
  <2>2. ASSUME scenario.gated, NEW d \in Executions, NEW u \in Ticks PROVE run'[u][d] \notin Again
    BY <1>2, <2>2 DEF Gated, Again
  <2>3. QED BY <1>1, <2>1, <2>2, FewerStarters, GatedStays
<1>7. QED BY <1>3, <1>4, <1>5, <1>6

LEMMA ForgetRuns == ASSUME RunInv, NEW t \in Ticks, Forgets(t) PROVE RunInv'
<1> USE WorkflowAssumption DEF RunInv
<1>1. /\ tick' = [tick EXCEPT ![t] = "idle"] /\ cache' = [cache EXCEPT ![t] = "none"]
      /\ seenOn' = [seenOn EXCEPT ![t] = FALSE]
      /\ selected' = [selected EXCEPT ![t] = {}]
      /\ UNCHANGED <<rule, matched, status, count, stale, unspent, crossed, scenario>>
  BY DEF Forgets, executionVars
<1>2. /\ run' \in [Ticks -> [Executions -> RunSteps]]
      /\ \A e \in Executions : run'[t][e] = "none"
      /\ \A u \in Ticks \ {t} : run'[u] = run[u]
  BY DEF Forgets, RunTypes, RunSteps
<1>3. claimed' \in [Ticks -> [Executions -> Nat]] /\ \A u \in Ticks \ {t} : claimed'[u] = claimed[u]
  BY DEF Forgets, RunTypes
<1>4. RunTypes'
  <2>1. selected' \in [Ticks -> SUBSET Executions]
    BY <1>1 DEF RunTypes
  <2>2. QED BY <1>1, <1>2, <1>3, <2>1 DEF RunTypes
<1>5. Seen'
  <2>1. /\ tick'[t] = "idle" /\ cache'[t] = "none"
        /\ \A u \in Ticks \ {t} : tick'[u] = tick[u] /\ cache'[u] = cache[u] /\ seenOn'[u] = seenOn[u]
    BY <1>1 DEF RunTypes
  <2>2. QED BY <1>1, <1>2, <2>1 DEF Seen, On
<1>6. Counted'
  BY <1>1, <1>2, <1>3 DEF Counted, Again
<1>7. Gated'
  <2>1. ASSUME NEW d \in Executions PROVE Starters(d)' \subseteq Starters(d)
    BY <1>2 DEF Starters
  <2>2. ASSUME scenario.gated, NEW d \in Executions, NEW u \in Ticks PROVE run'[u][d] \notin Again
    BY <1>2, <2>2 DEF Gated, Again
  <2>3. QED BY <1>1, <2>1, <2>2, FewerStarters, GatedStays
<1>8. QED BY <1>4, <1>5, <1>6, <1>7

LEMMA RunInvInit == Init => RunInv
<1> SUFFICES ASSUME Init PROVE RunInv
  OBVIOUS
<1> USE WorkflowAssumption DEF Init
<1>1. RunTypes
  BY DEF RunTypes, Statuses, RunSteps
<1>2. Seen
  BY DEF Seen
<1>3. Counted
  BY DEF Counted, Again
<1>4. Gated
  <2>1. ASSUME NEW e \in Executions PROVE Cardinality(Starters(e)) = 0
    <3>1. Starters(e) = {}
      BY DEF Starters
    <3>2. QED BY <3>1, FS_EmptySet
  <2>2. QED BY <2>1 DEF Gated, Again
<1>5. QED BY <1>1, <1>2, <1>3, <1>4 DEF RunInv

LEMMA RunInvStep == RunInv /\ KeyTypes /\ [Next]_vars => RunInv'
<1> SUFFICES ASSUME RunInv, KeyTypes, [Next]_vars PROVE RunInv'
  OBVIOUS
<1>1. ASSUME NEW e \in Executions, Executes(e) PROVE RunInv'
  BY <1>1, PeopleRuns, StaleRuns, ClaimRuns, GuardRuns, DispatchRuns, OutcomeRuns, StopRuns
     DEF Executes, RunStep
<1>2. ASSUME NEW t \in Ticks, TicksOn(t) PROVE RunInv'
  BY <1>2, SelectRuns, RecoverRuns, ListRuns, ForgetRuns DEF TicksOn, TickEnds, TickStops
<1>3. CASE UNCHANGED vars
  <2>1. UNCHANGED <<rule, matched, status, count, stale, unspent, crossed, tick, selected, cache, run,
                    claimed, seenOn, scenario>>
    BY <1>3 DEF vars, executionVars, tickVars
  <2>2. RunTypes' /\ Seen' /\ Counted'
    BY <2>1 DEF RunInv, RunTypes, Seen, Counted, On
  <2>3. Gated'
    BY <2>1, SameStarters DEF RunInv, Gated
  <2>4. QED BY <2>2, <2>3 DEF RunInv
<1>4. QED BY <1>1, <1>2, <1>3, KeysRuns, NextSteps

LEMMA RunInvariant == Spec => []RunInv
<1>1. KeyInv => KeyTypes
  BY DEF KeyInv
<1>2. QED BY <1>1, KeyInvariant, RunInvInit, RunInvStep, PTL DEF Spec

-----------------------------------------------------------------------------
(* Every variable keeps the values its column or step may have. *)
THEOREM Typed == Spec => []TypeOK
<1>1. KeyInv /\ RunInv => TypeOK
  BY DEF KeyInv, KeyTypes, RunInv, RunTypes, RequestRecords, TypeOK
<1>2. QED BY <1>1, KeyInvariant, RunInvariant, PTL

(* A tick that began after the rule was withdrawn starts none of its       *)
(* actions, with any number of ticks and requests interleaved.             *)
THEOREM Withdrawn == Spec => []WithdrawnNeverRuns
<1>1. RunInv => WithdrawnNeverRuns
  BY DEF RunInv, Seen, WithdrawnNeverRuns
<1>2. QED BY <1>1, RunInvariant, PTL

(* No attempt count strands a due execution, whatever throws, stops or is  *)
(* taken for dead, unless a late or second write rescheduled it after      *)
(* another run had claimed it (processDueExecution, rescheduleExecution).  *)
THEOREM NotStranded == Spec => []PendingCanRun
<1>1. RunInv => PendingCanRun
  BY DEF RunInv, Counted, PendingCanRun
<1>2. QED BY <1>1, RunInvariant, PTL

(* A destructive action starts at most once per decision, for any number   *)
(* of overlapping ticks, crashes, stale recoveries and decisions.          *)
THEOREM OncePerDecision == Spec => []GatedRunsOncePerDecision
<1>1. RunInv => GatedRunsOncePerDecision
  <2> SUFFICES ASSUME RunInv, NEW e \in Executions PROVE unspent[e] >= 0
    BY DEF GatedRunsOncePerDecision
  <2>1. CASE scenario.gated
    BY <2>1, StarterCount DEF RunInv, Gated, RunTypes
  <2>2. CASE ~scenario.gated
    BY <2>2 DEF RunInv, Gated
  <2>3. QED BY <2>1, <2>2
<1>2. QED BY <1>1, RunInvariant, PTL

(* Whatever late runs, second writes, decisions and requests do, a         *)
(* succeeded or cancelled execution stays as it is; only a stale recovery  *)
(* that selected it before overwrites it (completeExecution,               *)
(* recoverStaleProcessing).                                                *)
THEOREM FinalForGood == Spec => FinalStays
<1> DEFINE Kept == \A e \in Executions : status[e] \in Final => status'[e] = status[e]
           Recovered == \A e \in Executions : status[e] \in Final =>
                          status'[e] = status[e] \/ \E t \in Ticks : e \in selected[t] \ selected'[t]
<1>1. ASSUME RunInv, [Next]_vars PROVE Recovered
  <2> USE <1>1 DEF RunInv, RunTypes, Final, Open
  <2>1. ASSUME NEW e \in Executions, Executes(e) PROVE Kept
    <3>1. CASE MatchRule(e) \/ CreateExecution(e)
      BY <3>1 DEF MatchRule, CreateExecution, executionVars
    <3>2. CASE ApproveExecution(e) \/ RetryExecution(e) \/ CancelExecution(e)
      BY <3>2 DEF ApproveExecution, RetryExecution, CancelExecution, Decide
    <3>3. CASE GrowsStale(e)
      BY <3>3 DEF GrowsStale
    <3>4. ASSUME NEW t \in Ticks, RunStep(t, e) \/ WriteThrows(t, e) \/ RunStops(t, e) PROVE Kept
      <4>1. CASE ClaimExecution(t, e)
        BY <4>1 DEF ClaimExecution
      <4>2. CASE GuardExecution(t, e) \/ DispatchWorkflowAction(t, e) \/ RunStops(t, e)
        BY <4>2 DEF GuardExecution, DispatchWorkflowAction, RunStops, executionVars
      <4>3. CASE WriteOutcome(t, e) \/ WriteThrows(t, e)
        BY <4>3 DEF WriteOutcome, WriteThrows, Writes
      <4>4. QED BY <3>4, <4>1, <4>2, <4>3 DEF RunStep
    <3>5. QED BY <2>1, <3>1, <3>2, <3>3, <3>4 DEF Executes
  <2>2. ASSUME NEW t \in Ticks, RecoverStaleProcessing(t) PROVE Recovered
    <3>1. \A e \in Executions : e \notin selected[t] => status'[e] = status[e]
      BY <2>2 DEF RecoverStaleProcessing
    <3>2. selected'[t] = {}
      BY <2>2 DEF RecoverStaleProcessing
    <3>3. QED BY <3>1, <3>2
  <2>3. ASSUME NEW t \in Ticks, TicksOn(t), ~RecoverStaleProcessing(t) PROVE Kept
    BY <2>3 DEF TicksOn, SelectStaleProcessing, ListDueExecutions, TickEnds, TickStops, Forgets, executionVars
  <2>4. CASE (\E h \in Handlers : Handles(h)) \/ Sweeps
    BY <2>4, KeysLeaveExecutions DEF Withdraws, executionVars
  <2>5. CASE UNCHANGED vars
    BY <2>5 DEF vars, executionVars
  <2>6. QED BY <2>1, <2>2, <2>3, <2>4, <2>5, NextSteps
<1>2. QED BY <1>1, RunInvariant, PTL DEF Spec, FinalStays
=============================================================================
