------------------------- MODULE SponsorshipBreaker -------------------------
(***************************************************************************)
(* The global sponsorship policy of one network and the breaker around it. *)
(*                                                                         *)
(* Postgres holds the policy row (sponsorship_budget_policies), Redis a    *)
(* control field "version:enabled" that RESERVE compares with the policy   *)
(* the request resolved.  Four kinds of actors write the row: operators    *)
(* (scripts/sponsorship-budget.ts), any accounting fault (an integrity     *)
(* trip), reconciliation ticks (a recoverable trip after repeated          *)
(* unreadable provider configuration, and the automatic resume).  A write  *)
(* commits first and calls syncPolicy afterwards, so the Redis field lags, *)
(* may be told late or out of order, and may never be told.                *)
(*                                                                         *)
(* Provenance is the pair (updated_by, update_reason), which the code only *)
(* compares for equality: a member of Humans (an operator and a reason), a *)
(* member of Faults (the breaker and an integrity reason), or one of the   *)
(* two reasons reconciliation itself writes.                               *)
(***************************************************************************)
EXTENDS Integers

CONSTANTS
  Requests,     \* concurrent admissions
  Ticks,        \* reconciliation ticks that may overlap (several instances)
  Humans,       \* provenance of operator commands
  Faults,       \* provenance of integrity trips
  Threshold,    \* CONSECUTIVE_CONFIG_FAILURES_BEFORE_TRIP
  MaxVersion,   \* bound: no commanded policy write at or above this version
  MaxFailures   \* bound: no tick fails once this many failures are recorded

ConfigUnavailable == "config"    \* KORA_CONFIG_UNAVAILABLE_BREAKER_REASON
Recovered == "recovered"         \* BREAKER_RECOVERY_REASON
Migration == "migration"         \* provenance of the seeded policy

ASSUME BreakerAssumption ==
  /\ Threshold \in Nat \ {0} /\ MaxVersion \in Nat /\ MaxFailures \in Nat
  /\ {ConfigUnavailable, Recovered, Migration} \cap (Humans \cup Faults) = {}

Provenance == Humans \cup Faults \cup {ConfigUnavailable, Recovered, Migration}

VARIABLES
  policy,    \* the row: enabled, version, provenance
  control,   \* the Redis control field; version 0 when it is absent
  syncs,     \* syncPolicy calls in flight after a committed write
  failures,  \* sponsorship_reconciliation_state.consecutive_config_failures
  req,       \* the admission a request is in
  tick,      \* the progress of a reconciliation tick
  standing,  \* history: a kill or an integrity trip nobody has resumed yet
  told       \* history: the newest version Redis was told since its last loss

vars == <<policy, control, syncs, failures, req, tick, standing, told>>

Policies == [enabled : BOOLEAN, version : Nat, prov : Provenance]
Controls == [version : Nat, enabled : BOOLEAN]
ReqIdle == [pc |-> "idle", version |-> 0, round |-> 1]
TickIdle == [pc |-> "idle", work |-> FALSE, recoverable |-> FALSE]

(* The seeded row differs by network: devnet is enabled, mainnet is not.   *)
Init ==
  /\ policy \in [enabled : BOOLEAN, version : {1}, prov : {Migration}]
  /\ control = [version |-> 0, enabled |-> FALSE]
  /\ syncs = {}
  /\ failures = 0
  /\ req = [r \in Requests |-> ReqIdle]
  /\ tick = [t \in Ticks |-> TickIdle]
  /\ standing = FALSE
  /\ told = 0

-----------------------------------------------------------------------------
(* Writes of the policy row.  Each is one SQL statement; the caller then   *)
(* syncs the row it got back.                                              *)

Written(p) ==
  /\ policy' = p
  /\ syncs' = syncs \cup {[version |-> p.version, enabled |-> p.enabled]}

(* Slip: a disable over a disabled policy is always a no-op.               *)
SetPolicyEnabled_KeepsProvenance(enabled, prov, overwrite) ==
  IF policy.enabled # enabled
  THEN Written([enabled |-> enabled, version |-> policy.version + 1, prov |-> prov])
  ELSE UNCHANGED <<policy, syncs>>

(* Slip: the version is not bumped.                                        *)
SetPolicyEnabled_SameVersion(enabled, prov, overwrite) ==
  IF \/ policy.enabled # enabled
     \/ overwrite /\ ~enabled /\ policy.prov # prov
  THEN Written([enabled |-> enabled, version |-> policy.version, prov |-> prov])
  ELSE UNCHANGED <<policy, syncs>>

(* setPolicyEnabled: a disable over a disabled policy still overwrites the *)
(* provenance unless the caller opted out; a repeat of it is a no-op.      *)
SetPolicyEnabled(enabled, prov, overwrite) ==
  IF \/ policy.enabled # enabled
     \/ overwrite /\ ~enabled /\ policy.prov # prov
  THEN Written([enabled |-> enabled, version |-> policy.version + 1, prov |-> prov])
  ELSE UNCHANGED <<policy, syncs>>

TripGlobalBreaker(prov, recoverable) == SetPolicyEnabled(FALSE, prov, ~recoverable)

(* Slip: the recovery reason is passed as the expected one.                *)
ResumeGlobalBreaker_SwappedReasons ==
  IF ~policy.enabled /\ policy.prov = Recovered
  THEN Written([enabled |-> TRUE, version |-> policy.version + 1, prov |-> ConfigUnavailable])
  ELSE UNCHANGED <<policy, syncs>>

(* resumeGlobalBreaker: a compare-and-set on the provenance of the trip.   *)
ResumeGlobalBreaker ==
  IF ~policy.enabled /\ policy.prov = ConfigUnavailable
  THEN Written([enabled |-> TRUE, version |-> policy.version + 1, prov |-> Recovered])
  ELSE UNCHANGED <<policy, syncs>>

Kill(h) ==
  /\ policy.version < MaxVersion
  /\ SetPolicyEnabled(FALSE, h, TRUE)
  /\ standing' = TRUE
  /\ UNCHANGED <<control, failures, req, tick, told>>

Resume(h) ==
  /\ policy.version < MaxVersion
  /\ SetPolicyEnabled(TRUE, h, TRUE)
  /\ standing' = FALSE
  /\ UNCHANGED <<control, failures, req, tick, told>>

(* `set` writes the limits and always the enabled flag, which defaults to  *)
(* true: changing a limit of a killed policy resumes it.                   *)
UpsertPolicy(h, enabled) ==
  /\ policy.version < MaxVersion
  /\ Written([enabled |-> enabled, version |-> policy.version + 1, prov |-> h])
  /\ standing' = ~enabled
  /\ UNCHANGED <<control, failures, req, tick, told>>

(* tripBreaker by the service (accountingUnavailable, a lost release) or   *)
(* by a tick (changed signer, overspend, failed settlement, lost charge).  *)
IntegrityTrip(f) ==
  /\ policy.version < MaxVersion
  /\ TripGlobalBreaker(f, FALSE)
  /\ standing' = TRUE
  /\ UNCHANGED <<control, failures, req, tick, told>>

-----------------------------------------------------------------------------
(* The Redis control field.                                                *)

(* Slip: the last writer wins.                                             *)
SyncControl_Blind(version, enabled) ==
  control' = [version |-> version, enabled |-> enabled]

(* SYNC_CONTROL_LUA: an older version never replaces a newer one.          *)
SyncControl(version, enabled) ==
  control' = IF control.version > version
             THEN control
             ELSE [version |-> version, enabled |-> enabled]

Tell(version) == told' = IF version > told THEN version ELSE told

DeliverSync(s) ==
  /\ syncs' = syncs \ {s}
  /\ SyncControl(s.version, s.enabled)
  /\ Tell(s.version)
  /\ UNCHANGED <<policy, failures, req, tick, standing>>

(* The writer crashed, or Redis refused the command: nobody retries it.    *)
DropSync(s) ==
  /\ syncs' = syncs \ {s}
  /\ UNCHANGED <<policy, control, failures, req, tick, standing, told>>

(* External: Redis loses the control hash (flush, failover without data).  *)
LoseControl ==
  /\ control' = [version |-> 0, enabled |-> FALSE]
  /\ told' = 0
  /\ UNCHANGED <<policy, syncs, failures, req, tick, standing>>

-----------------------------------------------------------------------------
(* Admission, as far as the policy goes: resolve, sync, compare.           *)

(* resolveEnabledPolicies and assertSponsorshipEnabled, in either round.   *)
Resolve(r) ==
  /\ req[r].pc \in {"idle", "again"}
  /\ req' = [req EXCEPT ![r] =
       IF ~policy.enabled THEN ReqIdle
       ELSE [pc |-> "sync", version |-> policy.version,
             round |-> IF req[r].pc = "again" THEN 2 ELSE 1]]
  /\ UNCHANGED <<policy, control, syncs, failures, tick, standing, told>>

(* reserve() re-syncs the policies it was given before the Lua gate.       *)
SyncResolved(r) ==
  /\ req[r].pc = "sync"
  /\ SyncControl(req[r].version, TRUE)
  /\ Tell(req[r].version)
  /\ req' = [req EXCEPT ![r].pc = "reserve"]
  /\ UNCHANGED <<policy, syncs, failures, tick, standing>>

(* RESERVE_LUA: the control field must read "<resolved version>:1".        *)
ControlAllows(version) == control = [version |-> version, enabled |-> TRUE]

Admit(r) ==
  /\ req[r].pc = "reserve"
  /\ ControlAllows(req[r].version)
  /\ req' = [req EXCEPT ![r].pc = "admitted"]
  /\ UNCHANGED <<policy, control, syncs, failures, tick, standing, told>>

StalePolicy(r) ==
  /\ req[r].pc = "reserve"
  /\ ~ControlAllows(req[r].version)
  /\ req' = [req EXCEPT ![r] = IF req[r].round = 1
                               THEN [req[r] EXCEPT !.pc = "again"] ELSE ReqIdle]
  /\ UNCHANGED <<policy, control, syncs, failures, tick, standing, told>>

(* The request ends: sponsored, denied on its budget, failed or crashed.   *)
EndRequest(r) ==
  /\ req[r].pc # "idle"
  /\ req' = [req EXCEPT ![r] = ReqIdle]
  /\ UNCHANGED <<policy, control, syncs, failures, tick, standing, told>>

-----------------------------------------------------------------------------
(* A reconciliation tick, up to the loop over its reservations.            *)

IsRecoverableBreakerTrip == ~policy.enabled /\ policy.prov = ConfigUnavailable

(* List the candidates (work: there are some), then read the policy.       *)
TickStart(t, work) ==
  /\ tick[t].pc = "idle"
  /\ work \/ IsRecoverableBreakerTrip
  /\ tick' = [tick EXCEPT ![t] = [pc |-> "config", work |-> work,
                                  recoverable |-> IsRecoverableBreakerTrip]]
  /\ UNCHANGED <<policy, control, syncs, failures, req, standing, told>>

(* Every read of the provider configuration failed.  Without candidates    *)
(* nothing is recorded.                                                    *)
ConfigUnreadable(t) ==
  /\ tick[t].pc = "config"
  /\ tick[t].work => failures < MaxFailures
  /\ tick' = [tick EXCEPT ![t] = IF tick[t].work
                                 THEN [tick[t] EXCEPT !.pc = "record"] ELSE TickIdle]
  /\ UNCHANGED <<policy, control, syncs, failures, req, standing, told>>

RecordProviderConfigFailure(t) ==
  /\ tick[t].pc = "record"
  /\ failures' = failures + 1
  /\ tick' = [tick EXCEPT ![t] = IF failures + 1 >= Threshold
                                 THEN [tick[t] EXCEPT !.pc = "trip"] ELSE TickIdle]
  /\ UNCHANGED <<policy, control, syncs, req, standing, told>>

RecoverableTrip(t) ==
  /\ tick[t].pc = "trip"
  /\ policy.enabled => policy.version < MaxVersion
  /\ TripGlobalBreaker(ConfigUnavailable, TRUE)
  /\ tick' = [tick EXCEPT ![t] = TickIdle]
  /\ UNCHANGED <<control, failures, req, standing, told>>

ConfigReadable(t) ==
  /\ tick[t].pc = "config"
  /\ tick' = [tick EXCEPT ![t].pc = "reset"]
  /\ UNCHANGED <<policy, control, syncs, failures, req, standing, told>>

ResetProviderConfigFailures(t) ==
  /\ tick[t].pc = "reset"
  /\ failures' = 0
  /\ tick' = [tick EXCEPT ![t] = IF tick[t].recoverable
                                 THEN [tick[t] EXCEPT !.pc = "resume"] ELSE TickIdle]
  /\ UNCHANGED <<policy, control, syncs, req, standing, told>>

AutoResume(t) ==
  /\ tick[t].pc = "resume"
  /\ ResumeGlobalBreaker
  /\ tick' = [tick EXCEPT ![t] = TickIdle]
  /\ UNCHANGED <<control, failures, req, standing, told>>

TickCrash(t) ==
  /\ tick[t].pc # "idle"
  /\ tick' = [tick EXCEPT ![t] = TickIdle]
  /\ UNCHANGED <<policy, control, syncs, failures, req, standing, told>>

TickStep(t) ==
  \/ ConfigUnreadable(t) \/ RecordProviderConfigFailure(t) \/ RecoverableTrip(t)
  \/ ConfigReadable(t) \/ ResetProviderConfigFailures(t) \/ AutoResume(t)
  \/ TickCrash(t)

-----------------------------------------------------------------------------
Next ==
  \/ \E h \in Humans : Kill(h) \/ Resume(h) \/ \E e \in BOOLEAN : UpsertPolicy(h, e)
  \/ \E f \in Faults : IntegrityTrip(f)
  \/ \E s \in syncs : DeliverSync(s) \/ DropSync(s)
  \/ LoseControl
  \/ \E r \in Requests :
       Resolve(r) \/ SyncResolved(r) \/ Admit(r) \/ StalePolicy(r) \/ EndRequest(r)
  \/ \E t \in Ticks :
       TickStep(t) \/ \E work \in BOOLEAN : TickStart(t, work)

Spec == Init /\ [][Next]_vars

(* The cron entry runs every minute, so a tick that has something to do is *)
(* started again and again; crashes and unreadable configuration are       *)
(* transient, so each of its steps is eventually taken.                    *)
Fairness ==
  \A t \in Ticks :
    /\ WF_vars(\E work \in BOOLEAN : TickStart(t, work))
    /\ WF_vars(TickStep(t))
    /\ SF_vars(ConfigReadable(t))
    /\ SF_vars(ResetProviderConfigFailures(t))
    /\ SF_vars(AutoResume(t))

FairSpec == Spec /\ Fairness

-----------------------------------------------------------------------------
(* Properties.                                                             *)

(* Every variable has its type; the bounds are those of the actions.       *)
TypeOK ==
  /\ policy \in Policies
  /\ control \in Controls
  /\ syncs \subseteq Controls
  /\ failures \in Nat
  /\ req \in [Requests -> [pc : {"idle", "sync", "reserve", "again", "admitted"},
                           version : Nat, round : {1, 2}]]
  /\ tick \in [Ticks -> [pc : {"idle", "config", "record", "trip", "reset", "resume"},
                         work : BOOLEAN, recoverable : BOOLEAN]]
  /\ standing \in BOOLEAN
  /\ told \in Nat

(* An operator kill or an integrity trip keeps sponsorship disabled until  *)
(* an operator resumes it: no order of recoverable trips, late recovery    *)
(* decisions and overlapping ticks brings the policy back by itself        *)
(* (setPolicyEnabled's provenance rules, resumeGlobalBreaker).             *)
StandingDisableHolds == standing => ~policy.enabled

(* The Redis control field is never ahead of the policy row, and at the    *)
(* row's own version it says what the row says (syncPolicy is called with  *)
(* rows that are already out of date).                                     *)
ControlIsFaithful ==
  /\ control.version <= policy.version
  /\ control.version = policy.version => control.enabled = policy.enabled

(* No admission succeeds under a policy version older than one that Redis  *)
(* has been told of, so a kill that reached Redis also stops the requests  *)
(* that resolved the policy before it (SYNC_CONTROL_LUA and the control    *)
(* comparison of RESERVE_LUA).                                             *)
AdmissionSeesNewest ==
  [][\A r \in Requests :
       req[r].pc = "reserve" /\ req'[r].pc = "admitted" => req[r].version >= told]_vars

(* A breaker that tripped only because the provider configuration could    *)
(* not be read does not stay down: reconciliation resumes it, or somebody  *)
(* else takes the decision over.                                           *)
ConfigTripRecovers == IsRecoverableBreakerTrip ~> ~IsRecoverableBreakerTrip
=============================================================================
