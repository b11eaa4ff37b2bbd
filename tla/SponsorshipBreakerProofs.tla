---------------------- MODULE SponsorshipBreakerProofs ----------------------
(***************************************************************************)
(* Proofs about the sponsorship breaker, for any number of requests, ticks *)
(* and operators, and with no use of the model-checking bounds.            *)
(***************************************************************************)
EXTENDS SponsorshipBreaker, TLAPS

(* A snapshot of the row, wherever it travels, is not ahead of the row and *)
(* agrees with it at the row's own version.                                *)
Faithful(version, enabled) ==
  /\ version <= policy.version
  /\ version = policy.version => enabled = policy.enabled

(* A disable that only a human may lift has a provenance that is not the   *)
(* one the automatic resume compares with.                                 *)
StandingProvenance == standing => ~policy.enabled /\ policy.prov # ConfigUnavailable

SyncsAreFaithful == \A s \in syncs : Faithful(s.version, s.enabled)

RequestsAreFaithful ==
  \A r \in Requests : req[r].pc # "idle" => Faithful(req[r].version, TRUE)

(* The field keeps the newest version it was told.                         *)
ControlIsNewest == told = control.version

IInv ==
  /\ TypeOK
  /\ StandingProvenance
  /\ Faithful(control.version, control.enabled)
  /\ SyncsAreFaithful
  /\ RequestsAreFaithful
  /\ ControlIsNewest
  /\ policy.version >= 1

(* What a committed write does to the invariant's parts about the row: all *)
(* snapshots become strictly older, and the new one is added.              *)
LEMMA WriteKeepsSnapshots ==
  ASSUME IInv, NEW p \in Policies, p.version = policy.version + 1, Written(p),
         UNCHANGED <<control, req, told>>
  PROVE  /\ policy' \in Policies /\ syncs' \subseteq Controls
         /\ Faithful(control.version, control.enabled)'
         /\ SyncsAreFaithful' /\ RequestsAreFaithful' /\ ControlIsNewest'
         /\ policy'.version >= 1
<1>1. policy' = p /\ policy' \in Policies /\ policy'.version = policy.version + 1
  BY DEF Written
<1>2. policy.version \in Nat /\ policy'.version \in Nat /\ p.enabled \in BOOLEAN
  BY <1>1 DEF IInv, TypeOK, Policies
<1>3. syncs' \subseteq Controls
  BY <1>1, <1>2 DEF Written, IInv, TypeOK, Controls
<1>4. Faithful(control.version, control.enabled)'
  BY <1>1, <1>2 DEF Faithful, IInv, TypeOK, Controls
<1>5. SyncsAreFaithful'
  <2>1. SUFFICES ASSUME NEW s \in syncs' PROVE Faithful(s.version, s.enabled)'
    BY DEF SyncsAreFaithful
  <2>2. CASE s \in syncs
    <3>1. s.version \in Nat /\ s.version <= policy.version
      BY <2>2 DEF IInv, SyncsAreFaithful, Faithful, TypeOK, Controls
    <3>2. QED BY <3>1, <1>1, <1>2 DEF Faithful
  <2>3. CASE s = [version |-> p.version, enabled |-> p.enabled]
    BY <2>3, <1>1, <1>2 DEF Faithful
  <2>4. QED BY <2>1, <2>2, <2>3 DEF Written
<1>6. RequestsAreFaithful'
  <2>1. SUFFICES ASSUME NEW r \in Requests, req[r].pc # "idle"
                 PROVE Faithful(req[r].version, TRUE)'
    BY DEF RequestsAreFaithful
  <2>2. req[r].version \in Nat /\ req[r].version <= policy.version
    BY <2>1 DEF IInv, RequestsAreFaithful, Faithful, TypeOK
  <2>3. QED BY <2>2, <1>1, <1>2 DEF Faithful
<1>7. ControlIsNewest' /\ policy'.version >= 1
  BY <1>1, <1>2 DEF ControlIsNewest, IInv
<1>8. QED BY <1>1, <1>3, <1>4, <1>5, <1>6, <1>7

(* Telling Redis of a snapshot keeps the field faithful and newest.        *)
LEMMA SyncKeepsControl ==
  ASSUME IInv, NEW v \in Nat, NEW e \in BOOLEAN, Faithful(v, e),
         SyncControl(v, e), Tell(v), UNCHANGED policy
  PROVE  /\ control' \in Controls /\ told' \in Nat
         /\ Faithful(control.version, control.enabled)' /\ ControlIsNewest'
<1>1. control \in Controls /\ told = control.version /\ control.version \in Nat
  BY DEF IInv, TypeOK, Controls, ControlIsNewest
<1>2. CASE control.version > v
  BY <1>1, <1>2 DEF SyncControl, Tell, Faithful, IInv, ControlIsNewest
<1>3. CASE ~(control.version > v)
  <2>1. control' = [version |-> v, enabled |-> e]
    BY <1>3 DEF SyncControl
  <2>2. told' = v
    BY <1>1, <1>3 DEF Tell
  <2>3. QED BY <2>1, <2>2 DEF Faithful, Controls, ControlIsNewest
<1>4. QED BY <1>2, <1>3
-----------------------------------------------------------------------------
(* The invariant holds initially.                                          *)
LEMMA InitEstablishes == Init => IInv
<1> SUFFICES ASSUME Init PROVE IInv
  OBVIOUS
<1>1. policy \in Policies /\ policy.version = 1
  BY DEF Init, Policies, Provenance
<1>2. TypeOK
  BY <1>1 DEF Init, TypeOK, Controls, ReqIdle, TickIdle
<1>3. Faithful(control.version, control.enabled)
  BY <1>1 DEF Init, Faithful
<1>4. SyncsAreFaithful /\ ControlIsNewest /\ StandingProvenance
  BY DEF Init, SyncsAreFaithful, ControlIsNewest, StandingProvenance
<1>5. RequestsAreFaithful
  BY DEF Init, RequestsAreFaithful, ReqIdle
<1>6. QED BY <1>1, <1>2, <1>3, <1>4, <1>5 DEF IInv

(* The row's writers.  A kill and a fault leave a provenance of their own, *)
(* so the standing disable cannot be mistaken for a recoverable one.       *)
LEMMA DisableKeepsInv ==
  ASSUME IInv, NEW prov \in Humans \cup Faults, SetPolicyEnabled(FALSE, prov, TRUE),
         standing' = TRUE, UNCHANGED <<control, failures, req, tick, told>>
  PROVE  IInv'
<1>1. prov \in Provenance /\ prov # ConfigUnavailable
  BY BreakerAssumption DEF Provenance
<1>2. CASE policy.enabled # FALSE \/ policy.prov # prov
  <2> DEFINE p == [enabled |-> FALSE, version |-> policy.version + 1, prov |-> prov]
  <2>0. p \in Policies /\ p.version = policy.version + 1
    BY <1>1 DEF Policies, IInv, TypeOK
  <2>1. p \in Policies /\ p.version = policy.version + 1 /\ Written(p)
    BY <2>0, <1>2, Zenon DEF SetPolicyEnabled
  <2>2. policy' = p
    BY <2>1 DEF Written
  <2>3. /\ policy' \in Policies /\ syncs' \subseteq Controls
        /\ Faithful(control.version, control.enabled)'
        /\ SyncsAreFaithful' /\ RequestsAreFaithful' /\ ControlIsNewest'
        /\ policy'.version >= 1
    BY <2>1, WriteKeepsSnapshots
  <2>4. StandingProvenance'
    BY <2>2, <1>1 DEF StandingProvenance
  <2>5. TypeOK'
    BY <2>3 DEF IInv, TypeOK
  <2>6. QED BY <2>3, <2>4, <2>5 DEF IInv
<1>3. CASE ~(policy.enabled # FALSE \/ policy.prov # prov)
  <2>1. UNCHANGED <<policy, syncs>>
    BY <1>3 DEF SetPolicyEnabled
  <2>2. StandingProvenance'
    BY <2>1, <1>3, <1>1 DEF StandingProvenance
  <2>3. TypeOK'
    BY <2>1 DEF IInv, TypeOK
  <2>4. QED
    BY <2>1, <2>2, <2>3 DEF IInv, Faithful, SyncsAreFaithful, RequestsAreFaithful,
                            ControlIsNewest
<1>4. QED BY <1>2, <1>3

(* A human enables: the standing disable ends with it.                     *)
LEMMA EnableKeepsInv ==
  ASSUME IInv, NEW prov \in Humans, SetPolicyEnabled(TRUE, prov, TRUE),
         standing' = FALSE, UNCHANGED <<control, failures, req, tick, told>>
  PROVE  IInv'
<1>1. StandingProvenance'
  BY DEF StandingProvenance
<1>2. CASE policy.enabled # TRUE
  <2> DEFINE p == [enabled |-> TRUE, version |-> policy.version + 1, prov |-> prov]
  <2>1. p \in Policies /\ p.version = policy.version + 1 /\ Written(p)
    BY <1>2 DEF SetPolicyEnabled, Policies, Provenance, IInv, TypeOK
  <2>2. /\ policy' \in Policies /\ syncs' \subseteq Controls
        /\ Faithful(control.version, control.enabled)'
        /\ SyncsAreFaithful' /\ RequestsAreFaithful' /\ ControlIsNewest'
        /\ policy'.version >= 1
    BY <2>1, WriteKeepsSnapshots
  <2>3. TypeOK'
    BY <2>2 DEF IInv, TypeOK
  <2>4. QED BY <1>1, <2>2, <2>3 DEF IInv
<1>3. CASE policy.enabled = TRUE
  <2>1. UNCHANGED <<policy, syncs>>
    BY <1>3 DEF SetPolicyEnabled
  <2>2. TypeOK'
    BY <2>1 DEF IInv, TypeOK
  <2>3. QED
    BY <1>1, <2>1, <2>2 DEF IInv, Faithful, SyncsAreFaithful, RequestsAreFaithful,
                            ControlIsNewest
<1>4. QED BY <1>2, <1>3

(* A human rewrites the policy, disabling or enabling it.                  *)
LEMMA UpsertKeepsInv ==
  ASSUME IInv, NEW h \in Humans, NEW e \in BOOLEAN, UpsertPolicy(h, e)
  PROVE  IInv'
<1> DEFINE p == [enabled |-> e, version |-> policy.version + 1, prov |-> h]
<1>1. /\ p \in Policies /\ p.version = policy.version + 1 /\ Written(p)
      /\ UNCHANGED <<control, req, told>>
  BY DEF UpsertPolicy, Policies, Provenance, IInv, TypeOK
<1>2. /\ policy' \in Policies /\ syncs' \subseteq Controls
      /\ Faithful(control.version, control.enabled)'
      /\ SyncsAreFaithful' /\ RequestsAreFaithful' /\ ControlIsNewest'
      /\ policy'.version >= 1
  BY <1>1, WriteKeepsSnapshots
<1>3. StandingProvenance'
  <2>1. policy' = p /\ policy'.enabled = e /\ policy'.prov = h
    BY <1>1 DEF Written
  <2>2. standing' = ~e /\ h # ConfigUnavailable
    BY BreakerAssumption DEF UpsertPolicy
  <2>3. QED BY <2>1, <2>2, Zenon DEF StandingProvenance
<1>4. TypeOK'
  BY <1>2 DEF UpsertPolicy, IInv, TypeOK
<1>5. QED BY <1>2, <1>3, <1>4 DEF IInv

(* A recoverable trip writes only over an enabled row, and then no disable *)
(* is standing.                                                            *)
LEMMA RecoverableTripKeepsInv ==
  ASSUME IInv, NEW t \in Ticks, RecoverableTrip(t)
  PROVE  IInv'
<1>1. tick' \in [Ticks -> [pc : {"idle", "config", "record", "trip", "reset", "resume"},
                           work : BOOLEAN, recoverable : BOOLEAN]]
  BY DEF RecoverableTrip, TickIdle, IInv, TypeOK
<1>2. CASE policy.enabled # FALSE
  <2> DEFINE p == [enabled |-> FALSE, version |-> policy.version + 1,
                   prov |-> ConfigUnavailable]
  <2>1. /\ p \in Policies /\ p.version = policy.version + 1 /\ Written(p)
        /\ UNCHANGED <<control, req, told>>
    BY <1>2 DEF RecoverableTrip, TripGlobalBreaker, SetPolicyEnabled, Policies, Provenance,
                IInv, TypeOK
  <2>2. /\ policy' \in Policies /\ syncs' \subseteq Controls
        /\ Faithful(control.version, control.enabled)'
        /\ SyncsAreFaithful' /\ RequestsAreFaithful' /\ ControlIsNewest'
        /\ policy'.version >= 1
    BY <2>1, WriteKeepsSnapshots
  <2>3. StandingProvenance'
    BY <1>2 DEF RecoverableTrip, StandingProvenance, IInv, TypeOK, Policies
  <2>4. TypeOK'
    BY <2>2, <1>1 DEF RecoverableTrip, IInv, TypeOK
  <2>5. QED BY <2>2, <2>3, <2>4 DEF IInv
<1>3. CASE ~(policy.enabled # FALSE)
  <2>1. UNCHANGED <<policy, syncs, control, req, told, standing, failures>>
    BY <1>3 DEF RecoverableTrip, TripGlobalBreaker, SetPolicyEnabled
  <2>2. TypeOK'
    BY <2>1, <1>1 DEF IInv, TypeOK
  <2>3. QED
    BY <2>1, <2>2 DEF IInv, Faithful, SyncsAreFaithful, RequestsAreFaithful,
                      ControlIsNewest, StandingProvenance
<1>4. QED BY <1>2, <1>3

(* The automatic resume touches a recoverable disable only.                *)
LEMMA AutoResumeKeepsInv ==
  ASSUME IInv, NEW t \in Ticks, AutoResume(t)
  PROVE  IInv'
<1>1. tick' \in [Ticks -> [pc : {"idle", "config", "record", "trip", "reset", "resume"},
                           work : BOOLEAN, recoverable : BOOLEAN]]
  BY DEF AutoResume, TickIdle, IInv, TypeOK
<1>2. CASE ~policy.enabled /\ policy.prov = ConfigUnavailable
  <2> DEFINE p == [enabled |-> TRUE, version |-> policy.version + 1, prov |-> Recovered]
  <2>1. /\ p \in Policies /\ p.version = policy.version + 1 /\ Written(p)
        /\ UNCHANGED <<control, req, told>>
    BY <1>2 DEF AutoResume, ResumeGlobalBreaker, Policies, Provenance, IInv, TypeOK
  <2>2. /\ policy' \in Policies /\ syncs' \subseteq Controls
        /\ Faithful(control.version, control.enabled)'
        /\ SyncsAreFaithful' /\ RequestsAreFaithful' /\ ControlIsNewest'
        /\ policy'.version >= 1
    BY <2>1, WriteKeepsSnapshots
  <2>3. ~standing
    BY <1>2 DEF IInv, StandingProvenance
  <2>4. StandingProvenance'
    BY <2>3 DEF AutoResume, StandingProvenance
  <2>5. TypeOK'
    BY <2>2, <1>1 DEF AutoResume, IInv, TypeOK
  <2>6. QED BY <2>2, <2>4, <2>5 DEF IInv
<1>3. CASE ~(~policy.enabled /\ policy.prov = ConfigUnavailable)
  <2>1. UNCHANGED <<policy, syncs, control, req, told, standing, failures>>
    BY <1>3 DEF AutoResume, ResumeGlobalBreaker
  <2>2. TypeOK'
    BY <2>1, <1>1 DEF IInv, TypeOK
  <2>3. QED
    BY <2>1, <2>2 DEF IInv, Faithful, SyncsAreFaithful, RequestsAreFaithful,
                      ControlIsNewest, StandingProvenance
<1>4. QED BY <1>2, <1>3

(* Steps that leave the row, the snapshots in flight and Redis alone.      *)
LEMMA TickStepKeepsInv ==
  ASSUME IInv, UNCHANGED <<policy, control, syncs, req, standing, told>>,
         failures' \in Nat,
         tick' \in [Ticks -> [pc : {"idle", "config", "record", "trip", "reset", "resume"},
                              work : BOOLEAN, recoverable : BOOLEAN]]
  PROVE  IInv'
<1>1. TypeOK'
  BY DEF IInv, TypeOK
<1>2. QED
  BY <1>1 DEF IInv, Faithful, SyncsAreFaithful, RequestsAreFaithful, ControlIsNewest,
              StandingProvenance

(* Steps of one request that only move that request.                       *)
LEMMA RequestStepKeepsInv ==
  ASSUME IInv, UNCHANGED <<policy, control, syncs, failures, tick, standing, told>>,
         NEW r \in Requests,
         NEW q \in [pc : {"idle", "sync", "reserve", "again", "admitted"},
                    version : Nat, round : {1, 2}],
         req' = [req EXCEPT ![r] = q],
         q.pc # "idle" => Faithful(q.version, TRUE)
  PROVE  IInv'
<1>1. TypeOK'
  BY DEF IInv, TypeOK
<1>2. RequestsAreFaithful'
  BY DEF IInv, TypeOK, RequestsAreFaithful, Faithful
<1>3. QED
  BY <1>1, <1>2 DEF IInv, Faithful, SyncsAreFaithful, ControlIsNewest, StandingProvenance

(* Syncs in flight carry faithful snapshots, whenever they arrive.         *)
LEMMA SyncStepsKeepInv ==
  ASSUME IInv, (\E s \in syncs : DeliverSync(s) \/ DropSync(s)) \/ LoseControl
  PROVE  IInv'
<1>1. ASSUME NEW s \in syncs, DeliverSync(s) PROVE IInv'
  <2>1. s.version \in Nat /\ s.enabled \in BOOLEAN /\ Faithful(s.version, s.enabled)
    BY DEF IInv, TypeOK, Controls, SyncsAreFaithful
  <2>2. /\ control' \in Controls /\ told' \in Nat
        /\ Faithful(control.version, control.enabled)' /\ ControlIsNewest'
    BY <1>1, <2>1, SyncKeepsControl DEF DeliverSync
  <2>3. TypeOK'
    BY <1>1, <2>2 DEF DeliverSync, IInv, TypeOK
  <2>4. QED
    BY <1>1, <2>2, <2>3 DEF DeliverSync, IInv, Faithful, SyncsAreFaithful,
                            RequestsAreFaithful, StandingProvenance
<1>2. ASSUME NEW s \in syncs, DropSync(s) PROVE IInv'
  <2>1. TypeOK'
    BY <1>2 DEF DropSync, IInv, TypeOK
  <2>2. QED
    BY <1>2, <2>1 DEF DropSync, IInv, Faithful, SyncsAreFaithful, RequestsAreFaithful,
                      ControlIsNewest, StandingProvenance
<1>3. ASSUME LoseControl PROVE IInv'
  <2>1. TypeOK'
    BY <1>3 DEF LoseControl, IInv, TypeOK, Controls
  <2>2. Faithful(control.version, control.enabled)' /\ ControlIsNewest'
    <3>1. control'.version = 0 /\ told' = 0 /\ policy' = policy
      BY <1>3 DEF LoseControl
    <3>2. policy.version \in Nat /\ policy.version >= 1
      BY DEF IInv, TypeOK, Policies
    <3>3. QED BY <3>1, <3>2 DEF Faithful, ControlIsNewest
  <2>3. QED
    BY <1>3, <2>1, <2>2 DEF LoseControl, IInv, Faithful, SyncsAreFaithful,
                            RequestsAreFaithful, StandingProvenance
<1>4. QED BY <1>1, <1>2, <1>3

(* A request is admitted on a snapshot that is the newest Redis was told.  *)
LEMMA RequestStepsKeepInv ==
  ASSUME IInv, NEW r \in Requests,
         Resolve(r) \/ SyncResolved(r) \/ Admit(r) \/ StalePolicy(r) \/ EndRequest(r)
  PROVE  IInv'
<1>0. /\ req[r] \in [pc : {"idle", "sync", "reserve", "again", "admitted"},
                     version : Nat, round : {1, 2}]
      /\ req[r].pc # "idle" => Faithful(req[r].version, TRUE)
  BY DEF IInv, TypeOK, RequestsAreFaithful
<1>1. CASE Resolve(r)
  <2>1. CASE ~policy.enabled
    BY <1>1, <2>1, RequestStepKeepsInv DEF Resolve, ReqIdle
  <2>2. CASE policy.enabled
    <3> DEFINE q == [pc |-> "sync", version |-> policy.version,
                     round |-> IF req[r].pc = "again" THEN 2 ELSE 1]
    <3>1. q \in [pc : {"idle", "sync", "reserve", "again", "admitted"},
                 version : Nat, round : {1, 2}]
      BY DEF IInv, TypeOK, Policies
    <3>2. req' = [req EXCEPT ![r] = q]
      BY <1>1, <2>2 DEF Resolve
    <3>3. Faithful(q.version, TRUE)
      BY <2>2 DEF Faithful, IInv, TypeOK, Policies
    <3>4. UNCHANGED <<policy, control, syncs, failures, tick, standing, told>>
      BY <1>1 DEF Resolve
    <3>5. QED BY <3>1, <3>2, <3>3, <3>4, RequestStepKeepsInv
  <2>3. QED BY <2>1, <2>2
<1>2. CASE SyncResolved(r)
  <2>1. req[r].version \in Nat /\ Faithful(req[r].version, TRUE)
    BY <1>0, <1>2 DEF SyncResolved
  <2>2. /\ control' \in Controls /\ told' \in Nat
        /\ Faithful(control.version, control.enabled)' /\ ControlIsNewest'
    BY <1>2, <2>1, SyncKeepsControl DEF SyncResolved
  <2>3. TypeOK'
    BY <1>2, <1>0, <2>2 DEF SyncResolved, IInv, TypeOK
  <2>4. RequestsAreFaithful'
    BY <1>2, <2>1 DEF SyncResolved, IInv, TypeOK, RequestsAreFaithful, Faithful
  <2>5. QED
    BY <1>2, <2>2, <2>3, <2>4 DEF SyncResolved, IInv, Faithful, SyncsAreFaithful,
                                  StandingProvenance
<1>3. CASE Admit(r)
  <2> DEFINE q == [req[r] EXCEPT !.pc = "admitted"]
  <2>1. /\ q \in [pc : {"idle", "sync", "reserve", "again", "admitted"},
                  version : Nat, round : {1, 2}]
        /\ q.version = req[r].version
    BY <1>0
  <2>2. req' = [req EXCEPT ![r] = q]
    BY <1>3 DEF Admit
  <2>3. Faithful(q.version, TRUE)
    BY <1>0, <1>3, <2>1 DEF Admit
  <2>4. QED BY <1>3, <2>1, <2>2, <2>3, RequestStepKeepsInv DEF Admit
<1>4. CASE StalePolicy(r)
  <2>1. CASE req[r].round = 1
    <3> DEFINE q == [req[r] EXCEPT !.pc = "again"]
    <3>1. /\ q \in [pc : {"idle", "sync", "reserve", "again", "admitted"},
                    version : Nat, round : {1, 2}]
          /\ q.version = req[r].version
      BY <1>0
    <3>2. req' = [req EXCEPT ![r] = q]
      BY <1>4, <2>1 DEF StalePolicy
    <3>3. Faithful(q.version, TRUE)
      BY <1>0, <1>4, <3>1 DEF StalePolicy
    <3>4. QED BY <1>4, <3>1, <3>2, <3>3, RequestStepKeepsInv DEF StalePolicy
  <2>2. CASE req[r].round # 1
    BY <1>4, <2>2, RequestStepKeepsInv DEF StalePolicy, ReqIdle
  <2>3. QED BY <2>1, <2>2
<1>5. CASE EndRequest(r)
  BY <1>5, RequestStepKeepsInv DEF EndRequest, ReqIdle
<1>6. QED BY <1>1, <1>2, <1>3, <1>4, <1>5

(* The invariant is inductive.                                             *)
LEMMA NextKeepsInv == IInv /\ [Next]_vars => IInv'
<1> SUFFICES ASSUME IInv, [Next]_vars PROVE IInv'
  OBVIOUS
<1>1. ASSUME NEW h \in Humans, Kill(h) PROVE IInv'
  BY <1>1, DisableKeepsInv DEF Kill
<1>2. ASSUME NEW h \in Humans, Resume(h) PROVE IInv'
  BY <1>2, EnableKeepsInv DEF Resume
<1>3. ASSUME NEW h \in Humans, NEW e \in BOOLEAN, UpsertPolicy(h, e) PROVE IInv'
  BY <1>3, UpsertKeepsInv
<1>4. ASSUME NEW f \in Faults, IntegrityTrip(f) PROVE IInv'
  <2>1. SetPolicyEnabled(FALSE, f, TRUE)
    BY <1>4, Zenon DEF IntegrityTrip, TripGlobalBreaker
  <2>2. QED BY <1>4, <2>1, DisableKeepsInv DEF IntegrityTrip
<1>5. CASE (\E s \in syncs : DeliverSync(s) \/ DropSync(s)) \/ LoseControl
  BY <1>5, SyncStepsKeepInv
<1>6. ASSUME NEW r \in Requests,
             Resolve(r) \/ SyncResolved(r) \/ Admit(r) \/ StalePolicy(r) \/ EndRequest(r)
      PROVE IInv'
  BY <1>6, RequestStepsKeepInv
<1>7. ASSUME NEW t \in Ticks, NEW work \in BOOLEAN, TickStart(t, work) PROVE IInv'
  <2>1. IsRecoverableBreakerTrip \in BOOLEAN
    BY DEF IsRecoverableBreakerTrip
  <2>2. QED BY <1>7, <2>1, TickStepKeepsInv DEF TickStart, IInv, TypeOK
<1>8. ASSUME NEW t \in Ticks, TickStep(t) PROVE IInv'
  <2>1. CASE ConfigUnreadable(t)
    BY <2>1, TickStepKeepsInv DEF ConfigUnreadable, TickIdle, IInv, TypeOK
  <2>2. CASE RecordProviderConfigFailure(t)
    BY <2>2, TickStepKeepsInv DEF RecordProviderConfigFailure, TickIdle, IInv, TypeOK
  <2>3. CASE RecoverableTrip(t)
    BY <2>3, RecoverableTripKeepsInv
  <2>4. CASE ConfigReadable(t)
    BY <2>4, TickStepKeepsInv DEF ConfigReadable, IInv, TypeOK
  <2>5. CASE ResetProviderConfigFailures(t)
    BY <2>5, TickStepKeepsInv DEF ResetProviderConfigFailures, TickIdle, IInv, TypeOK
  <2>6. CASE AutoResume(t)
    BY <2>6, AutoResumeKeepsInv
  <2>7. CASE TickCrash(t)
    BY <2>7, TickStepKeepsInv DEF TickCrash, TickIdle, IInv, TypeOK
  <2>8. QED BY <1>8, <2>1, <2>2, <2>3, <2>4, <2>5, <2>6, <2>7 DEF TickStep
<1>9. CASE UNCHANGED vars
  BY <1>9, TickStepKeepsInv DEF vars, IInv, TypeOK
<1>10. QED BY <1>1, <1>2, <1>3, <1>4, <1>5, <1>6, <1>7, <1>8, <1>9 DEF Next

(* The inductive invariant holds in every reachable state.                 *)
LEMMA InvariantHolds == Spec => []IInv
<1>1. QED BY InitEstablishes, NextKeepsInv, PTL DEF Spec

-----------------------------------------------------------------------------
(* Every variable keeps its type (the rows, the Redis field, the calls in  *)
(* flight and the two kinds of actors).                                    *)
THEOREM BreakerTyped == Spec => []TypeOK
<1>1. IInv => TypeOK
  BY DEF IInv
<1>2. QED BY <1>1, InvariantHolds, PTL

(* No behaviour of ticks, trips and requests re-enables sponsorship after  *)
(* an operator kill or an integrity trip (setPolicyEnabled,                *)
(* resumeGlobalBreaker).                                                   *)
THEOREM KillNeedsHuman == Spec => []StandingDisableHolds
<1>1. IInv => StandingDisableHolds
  BY DEF IInv, StandingProvenance, StandingDisableHolds
<1>2. QED BY <1>1, InvariantHolds, PTL

(* The Redis control field is never ahead of the policy row and agrees     *)
(* with it at its version (SYNC_CONTROL_LUA, syncPolicy).                  *)
THEOREM ControlFollowsPolicy == Spec => []ControlIsFaithful
<1>1. IInv => ControlIsFaithful
  BY DEF IInv, Faithful, ControlIsFaithful
<1>2. QED BY <1>1, InvariantHolds, PTL

(* Admission never succeeds under a version older than one Redis was told  *)
(* of (the control comparison of RESERVE_LUA).                             *)
THEOREM NoStaleAdmission == Spec => AdmissionSeesNewest
<1>1. IInv /\ [Next]_vars =>
        [\A r \in Requests : req[r].pc = "reserve" /\ req'[r].pc = "admitted"
                              => req[r].version >= told]_vars
  <2> SUFFICES ASSUME IInv, Next, NEW r \in Requests,
                      req[r].pc = "reserve", req'[r].pc = "admitted"
               PROVE  req[r].version >= told
    OBVIOUS
  <2>0. req \in [Requests -> [pc : {"idle", "sync", "reserve", "again", "admitted"},
                              version : Nat, round : {1, 2}]]
    BY DEF IInv, TypeOK
  <2>1. req' # req
    OBVIOUS
  <2>2. PICK q \in Requests :
          Resolve(q) \/ SyncResolved(q) \/ Admit(q) \/ StalePolicy(q) \/ EndRequest(q)
    BY <2>1 DEF Next, Kill, Resume, UpsertPolicy, IntegrityTrip, DeliverSync, DropSync,
                LoseControl, TickStart, TickStep, ConfigUnreadable,
                RecordProviderConfigFailure, RecoverableTrip, ConfigReadable,
                ResetProviderConfigFailures, AutoResume, TickCrash
  <2>3. q = r
    BY <2>0, <2>2 DEF Resolve, SyncResolved, Admit, StalePolicy, EndRequest
  <2>4. control.version = req[r].version
    <3>1. ~Resolve(r) /\ ~SyncResolved(r)
      BY <2>0 DEF Resolve, SyncResolved
    <3>2. ~StalePolicy(r)
      BY <2>0 DEF StalePolicy, ReqIdle
    <3>3. ~EndRequest(r)
      BY <2>0 DEF EndRequest, ReqIdle
    <3>4. QED BY <2>2, <2>3, <3>1, <3>2, <3>3 DEF Admit, ControlAllows
  <2>5. QED BY <2>4, <2>0 DEF IInv, ControlIsNewest
<1>2. QED BY <1>1, InvariantHolds, PTL DEF Spec, AdmissionSeesNewest
=============================================================================
