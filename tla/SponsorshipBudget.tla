------------------------- MODULE SponsorshipBudget --------------------------
(***************************************************************************)
(* The budget counters that Redis keeps for a network: one hash per hour   *)
(* and one per day, each with a counter for the whole network, for every   *)
(* organization and for every project, and the Lua scripts that seed them  *)
(* from Postgres, take from them and settle them.                          *)
(*                                                                         *)
(* SponsorshipReservations has the durable rows in full.  Here a row is    *)
(* "reserved" while its transaction has not left the service and "sent"    *)
(* once it has (signed or submitted), and a request that owns an attempt   *)
(* is past the contention for it.  Policies do not change; a control       *)
(* field that does not match is an answer Redis may give at any time.      *)
(***************************************************************************)
EXTENDS Integers, FiniteSets, Functions

CONSTANTS
  Ids,        \* reservation ids
  Fields,     \* counters: the network, organizations, projects
  FieldsOf,   \* the counters a reservation is charged to
  AmountOf,   \* reserved lamports
  Hours,      \* hour buckets, all of one day
  PerTx,      \* perTransactionLamports of the policy of a counter
  HourLimit,  \* hourlyLamports
  DayLimit,   \* dailyLamports
  Callers,    \* concurrent API requests
  Jobs,       \* reconciliation passes
  MaxAttempt, \* bound on the attempts of one reservation
  Excess,     \* bound on the lamports spent above a reservation
  Lossy,      \* Redis may lose data
  Resends     \* the Redis client may resend a script whose reply it lost

Day == "day"
None == "none"
Unset == -2   \* neither the reservation nor the settlement key exists
Held == -1    \* the reservation key exists

ASSUME BudgetAssumption ==
  /\ {Lossy, Resends} \subseteq BOOLEAN /\ IsFiniteSet(Ids)
  /\ MaxAttempt \in Nat \ {0} /\ Excess \in Nat /\ Day \notin Hours /\ None \notin Ids
  /\ FieldsOf \in [Ids -> SUBSET Fields] /\ AmountOf \in [Ids -> Nat]
  /\ {PerTx, HourLimit, DayLimit} \subseteq [Fields -> Nat]

VARIABLES
  row,    \* sponsorship_budget_reservations
  win,    \* Redis: the hash of every window
  key,    \* Redis: Unset, Held or the settled amount of an attempt
  call,   \* the progress of a request
  job     \* the candidate a reconciliation pass is settling

vars == <<row, win, key, call, job>>

Attempts == 1..MaxAttempt
Windows == Hours \cup {Day}
WindowsAt(h) == {h, Day}
LimitOf(w, f) == IF w = Day THEN DayLimit[f] ELSE HourLimit[f]

Cold == [init |-> {}, used |-> [f \in Fields |-> 0], own |-> {}, bare |-> {}]
Absent == [status |-> "absent", attempt |-> 0, hour |-> Day, actual |-> 0,
           settled |-> FALSE, admitted |-> FALSE]
NoSnapshot == [usage |-> [w \in Windows |-> [f \in Fields |-> 0]],
               live |-> [i \in {} |-> [attempt |-> 0, hour |-> Day]]]
Idle == [pc |-> "idle", id |-> None, attempt |-> 0, hour |-> Day, round |-> 1,
         snap |-> NoSnapshot]
JobIdle == [pc |-> "idle", id |-> None, attempt |-> 0, hour |-> Day, actual |-> 0]

Init ==
  /\ row = [i \in Ids |-> Absent]
  /\ win = [w \in Windows |-> Cold]
  /\ key = [i \in Ids |-> [a \in Attempts |-> Unset]]
  /\ call = [c \in Callers |-> Idle]
  /\ job = [k \in Jobs |-> JobIdle]

-----------------------------------------------------------------------------
(* The durable side.                                                       *)

Live(i) == row[i].status \in {"reserved", "sent"}
Charged(i) == row[i].status \notin {"absent", "released"}
Cost(i) == IF row[i].status = "committed" THEN row[i].actual ELSE AmountOf[i]
In(i, w) == w \in WindowsAt(row[i].hour)

(* loadWindowAdmissionSnapshot: usage and live reservations of the hour    *)
(* and the day, read together and without the request's own reservation.   *)
(* Slip: outcomes that stayed unknown are left out of the usage.           *)
Usage_KnownOnly(w, f, except) ==
  SumFunctionOnSet([i \in Ids |-> Cost(i)],
    {i \in Ids \ {except} : /\ Live(i) \/ row[i].status = "committed"
                            /\ In(i, w) /\ f \in FieldsOf[i]})

Usage(w, f, except) ==
  SumFunctionOnSet([i \in Ids |-> Cost(i)],
    {i \in Ids \ {except} : Charged(i) /\ In(i, w) /\ f \in FieldsOf[i]})

Snapshot(i, h) ==
  [usage |-> [w \in Windows |-> [f \in Fields |->
      IF w \in WindowsAt(h) /\ f \in FieldsOf[i] THEN Usage(w, f, i) ELSE 0]],
   live |-> [j \in {j \in Ids \ {i} : Live(j)} |->
               [attempt |-> row[j].attempt, hour |-> row[j].hour]]]

-----------------------------------------------------------------------------
(* The Lua scripts.                                                        *)

Settled(i, a) == key[i][a] >= 0

(* Slip: the correction ignores the window a settled reservation is in.    *)
InitializedWindow_AnyWindow(w, i, snap) ==
  LET h == win[w]
      seeded == FieldsOf[i] \ h.init
      value(j) == key[j][snap.live[j].attempt]
      delta == [j \in DOMAIN snap.live |-> value(j) - AmountOf[j]]
      late(f) == {j \in DOMAIN snap.live : f \in FieldsOf[j] /\ value(j) >= 0}
  IN [h EXCEPT !.init = @ \cup seeded,
               !.used = [f \in Fields |-> IF f \in seeded
                           THEN snap.usage[w][f] + SumFunctionOnSet(delta, late(f)) ELSE @[f]]]

(* INITIALIZE on one hash: seed the missing counters of a reservation from *)
(* the snapshot, then correct them for what has been settled since, and    *)
(* mark what may still be settled.                                         *)
InitializedWindow(w, i, snap) ==
  LET h == win[w]
      seeded == FieldsOf[i] \ h.init
      known == {j \in DOMAIN snap.live : w \in WindowsAt(snap.live[j].hour)}
      value(j) == key[j][snap.live[j].attempt]
      delta == [j \in known |-> value(j) - AmountOf[j]]
      late(f) == {j \in known : f \in FieldsOf[j] /\ value(j) >= 0}
      open == {j \in known : value(j) < 0 /\ FieldsOf[j] \cap seeded # {}}
  IN [init |-> h.init \cup seeded,
      used |-> [f \in Fields |-> IF f \in seeded
                                 THEN snap.usage[w][f] + SumFunctionOnSet(delta, late(f))
                                 ELSE h.used[f]],
      own |-> h.own \cup UNION {{<<j, snap.live[j].attempt, f>> : f \in FieldsOf[j] \cap seeded} :
                                  j \in open},
      bare |-> h.bare \cup {<<j, snap.live[j].attempt>> : j \in open}]

(* Whether a hash already counts an attempt in a field: its own marker, or *)
(* the bare marker of the previous format.                                 *)
Counts(w, i, a, f) ==
  \/ <<i, a, f>> \in win[w].own
  \/ <<i, a>> \in win[w].bare /\ \A g \in FieldsOf[i] : <<i, a, g>> \notin win[w].own

Covers(w, i, a, f) ==
  /\ Counts(w, i, a, f)
  /\ <<i, a, f>> \in win[w].own \/ f \in win[w].init

Warm(i, h) == \A w \in WindowsAt(h) : FieldsOf[i] \subseteq win[w].init

(* Slip: the day is not checked.                                           *)
WithinLimits_HourOnly(i, a, h) ==
  \A f \in FieldsOf[i] :
    /\ AmountOf[i] <= PerTx[f]
    /\ win[h].used[f] + (IF Counts(h, i, a, f) THEN 0 ELSE AmountOf[i]) <= LimitOf(h, f)

WithinLimits(i, a, h) ==
  \A f \in FieldsOf[i] :
    /\ AmountOf[i] <= PerTx[f]
    /\ \A w \in WindowsAt(h) :
         win[w].used[f] + (IF Counts(w, i, a, f) THEN 0 ELSE AmountOf[i]) <= LimitOf(w, f)

(* RESERVE: what it answers when the control fields match, and the hash it *)
(* leaves when it admits.                                                  *)
ReserveAnswer(i, a, h) ==
  IF ~Warm(i, h) THEN "denied"
  ELSE IF key[i][a] # Unset THEN "duplicate"
  ELSE IF WithinLimits(i, a, h) THEN "admitted" ELSE "denied"

ReservedWindow(w, i, a) ==
  LET new == {f \in FieldsOf[i] : ~Counts(w, i, a, f)} IN
  [win[w] EXCEPT
     !.used = [f \in Fields |-> IF f \in new THEN @[f] + AmountOf[i] ELSE @[f]],
     !.own = @ \cup {<<i, a, f>> : f \in new},
     !.bare = @ \cup {<<i, a>>}]

(* Slip: a counter that holds exactly the difference is refused too.      *)
SettleRefused_OffByOne(i, a, h, actual) ==
  /\ ~Settled(i, a) /\ actual < AmountOf[i]
  /\ \E w \in WindowsAt(h), f \in FieldsOf[i] :
       Covers(w, i, a, f) /\ win[w].used[f] <= AmountOf[i] - actual

(* SETTLE: refuse to take a counter below zero, else apply the difference  *)
(* to every counter that holds the attempt and drop its markers.           *)
SettleRefused(i, a, h, actual) ==
  /\ ~Settled(i, a) /\ actual < AmountOf[i]
  /\ \E w \in WindowsAt(h), f \in FieldsOf[i] :
       Covers(w, i, a, f) /\ win[w].used[f] < AmountOf[i] - actual

SettledWindow(w, i, a, actual) ==
  LET adjusted == {f \in FieldsOf[i] : Covers(w, i, a, f)} IN
  [win[w] EXCEPT
     !.used = [f \in Fields |-> IF f \in adjusted THEN @[f] + actual - AmountOf[i] ELSE @[f]],
     !.own = @ \ {<<i, a, f>> : f \in adjusted},
     !.bare = @ \ {<<i, a>>}]

Settle(i, a, h, actual) ==
  IF Settled(i, a) \/ SettleRefused(i, a, h, actual)
  THEN UNCHANGED <<win, key>>
  ELSE /\ win' = [w \in Windows |-> IF w \in WindowsAt(h)
                                    THEN SettledWindow(w, i, a, actual) ELSE win[w]]
       /\ key' = [key EXCEPT ![i][a] = actual]

-----------------------------------------------------------------------------
(* A request.                                                              *)

Goto(c, pc) == call' = [call EXCEPT ![c].pc = pc]
Return(c) == call' = [call EXCEPT ![c] = Idle]
Write(i, r) == row' = [row EXCEPT ![i] = r]
Owns(x, statuses) == row[x.id].attempt = x.attempt /\ row[x.id].status \in statuses

(* createReservation, or reopenReleasedReservation in the bucket of now.   *)
Persist(c, i, h) ==
  LET r == row[i] IN
  /\ call[c].pc = "idle"
  /\ r.status = "absent" \/ (r.status = "released" /\ r.settled)
  /\ r.attempt < MaxAttempt
  /\ Write(i, [Absent EXCEPT !.status = "reserved", !.attempt = r.attempt + 1, !.hour = h])
  /\ call' = [call EXCEPT ![c] = [Idle EXCEPT !.pc = "snapshot", !.id = i, !.hour = h,
                                              !.attempt = r.attempt + 1]]
  /\ UNCHANGED <<win, key, job>>

LoadSnapshot(c) ==
  LET x == call[c] IN
  /\ x.pc = "snapshot"
  /\ call' = [call EXCEPT ![c].pc = "initialize", ![c].snap = Snapshot(x.id, x.hour)]
  /\ UNCHANGED <<row, win, key, job>>

Initialize(c) ==
  LET x == call[c] IN
  /\ x.pc = "initialize"
  /\ win' = [w \in Windows |-> IF w \in WindowsAt(x.hour)
                               THEN InitializedWindow(w, x.id, x.snap) ELSE win[w]]
  /\ call' = [call EXCEPT ![c].pc = "reserve", ![c].snap = NoSnapshot]
  /\ UNCHANGED <<row, key, job>>

(* A control field does not match: once more from the top, then give up.   *)
StalePolicy(c) ==
  LET x == call[c] IN
  /\ x.pc = "reserve"
  /\ IF x.round = 1
     THEN call' = [call EXCEPT ![c].pc = "snapshot", ![c].round = 2]
     ELSE Goto(c, "unreserve")
  /\ UNCHANGED <<row, win, key, job>>

(* The answer arrives, or it is lost; a resent script is answered as a     *)
(* duplicate.                                                              *)
Reserve(c) ==
  LET x == call[c] IN
  /\ x.pc = "reserve" /\ ReserveAnswer(x.id, x.attempt, x.hour) = "admitted"
  /\ win' = [w \in Windows |-> IF w \in WindowsAt(x.hour)
                               THEN ReservedWindow(w, x.id, x.attempt) ELSE win[w]]
  /\ key' = [key EXCEPT ![x.id][x.attempt] = Held]
  /\ \/ Goto(c, "provider") /\ Write(x.id, [row[x.id] EXCEPT !.admitted = TRUE])
     \/ Return(c) /\ UNCHANGED row
     \/ Resends /\ Goto(c, "unreserve") /\ UNCHANGED row
  /\ UNCHANGED job

Refuse(c) ==
  LET x == call[c] IN
  /\ x.pc = "reserve" /\ ReserveAnswer(x.id, x.attempt, x.hour) # "admitted"
  /\ Goto(c, "unreserve")
  /\ UNCHANGED <<row, win, key, job>>

(* releaseDurable in its two statements; Redis is not told.                *)
Unreserve(c) ==
  LET x == call[c] IN
  /\ x.pc = "unreserve"
  /\ IF Owns(x, {"reserved"})
     THEN Write(x.id, [row[x.id] EXCEPT !.status = "released"]) ELSE UNCHANGED row
  /\ Goto(c, "unmark")
  /\ UNCHANGED <<win, key, job>>

(* The provider signed or sent it; or may have.                            *)
Keep(c) ==
  LET x == call[c] IN
  /\ x.pc = "provider"
  /\ \/ Owns(x, {"reserved"}) /\ Write(x.id, [row[x.id] EXCEPT !.status = "sent"])
     \/ Owns(x, {"reserved"}) /\ Write(x.id, [row[x.id] EXCEPT !.status = "charged_unknown"])
     \/ ~Owns(x, {"reserved"}) /\ UNCHANGED row
  /\ Return(c)
  /\ UNCHANGED <<win, key, job>>

(* releaseDeterministic: release the row, settle Redis at zero, mark it.   *)
Release(c) ==
  LET x == call[c] IN
  /\ x.pc = "provider" /\ Owns(x, {"reserved"})
  /\ Write(x.id, [row[x.id] EXCEPT !.status = "released"])
  /\ Goto(c, "refund")
  /\ UNCHANGED <<win, key, job>>

Refund(c) ==
  LET x == call[c] IN
  /\ x.pc = "refund"
  /\ Settle(x.id, x.attempt, x.hour, 0)
  /\ IF SettleRefused(x.id, x.attempt, x.hour, 0) THEN Return(c) ELSE Goto(c, "unmark")
  /\ UNCHANGED <<row, job>>

MarkRedisSettled(c) ==
  LET x == call[c] IN
  /\ x.pc = "unmark"
  /\ IF Owns(x, {"committed", "released"})
     THEN Write(x.id, [row[x.id] EXCEPT !.settled = TRUE]) ELSE UNCHANGED row
  /\ Return(c)
  /\ UNCHANGED <<win, key, job>>

(* A failure or the death of the process, at any point.                    *)
Crash(c) ==
  /\ call[c].pc # "idle"
  /\ Return(c)
  /\ UNCHANGED <<row, win, key, job>>

-----------------------------------------------------------------------------
(* The reconciliation pass.                                                *)

Candidate(i, actual) ==
  [pc |-> "settle", id |-> i, attempt |-> row[i].attempt, hour |-> row[i].hour,
   actual |-> actual]

(* The transaction is on chain: commit what it cost, even above what was   *)
(* reserved.                                                               *)
Commit(k, i, actual) ==
  /\ job[k].pc = "idle" /\ row[i].status = "sent"
  /\ Write(i, [row[i] EXCEPT !.status = "committed", !.actual = actual])
  /\ job' = [job EXCEPT ![k] = Candidate(i, actual)]
  /\ UNCHANGED <<win, key, call>>

(* A terminal row that Redis may not have seen.                            *)
ListTerminal(k, i) ==
  /\ job[k].pc = "idle" /\ row[i].status \in {"committed", "released"} /\ ~row[i].settled
  /\ job' = [job EXCEPT ![k] = Candidate(i, IF row[i].status = "committed"
                                            THEN row[i].actual ELSE 0)]
  /\ UNCHANGED <<row, win, key, call>>

SyncRedisSettlement(k) ==
  LET j == job[k] IN
  /\ j.pc = "settle"
  /\ Settle(j.id, j.attempt, j.hour, j.actual)
  /\ job' = [job EXCEPT ![k] = IF SettleRefused(j.id, j.attempt, j.hour, j.actual)
                               THEN JobIdle ELSE [j EXCEPT !.pc = "mark"]]
  /\ UNCHANGED <<row, call>>

JobMark(k) ==
  LET j == job[k] IN
  /\ j.pc = "mark"
  /\ IF Owns(j, {"committed", "released"})
     THEN Write(j.id, [row[j.id] EXCEPT !.settled = TRUE]) ELSE UNCHANGED row
  /\ job' = [job EXCEPT ![k] = JobIdle]
  /\ UNCHANGED <<win, key, call>>

JobCrash(k) ==
  /\ job[k].pc # "idle"
  /\ job' = [job EXCEPT ![k] = JobIdle]
  /\ UNCHANGED <<row, win, key, call>>

(* The reservation is old and its outcome unknown: keep the charge.        *)
PersistAmbiguousCharge(i) ==
  /\ Live(i)
  /\ Write(i, [row[i] EXCEPT !.status = "charged_unknown"])
  /\ UNCHANGED <<win, key, call, job>>

(* External: Redis loses windows, keys or both.  Nobody holds a snapshot   *)
(* at that moment.                                                         *)
LoseRedis(lost) ==
  /\ Lossy
  /\ \A c \in Callers : call[c].pc # "initialize"
  /\ win' = [w \in Windows |-> IF w \in lost THEN Cold ELSE win[w]]
  /\ key' \in {key, [i \in Ids |-> [a \in Attempts |-> Unset]]}
  /\ UNCHANGED <<row, call, job>>

-----------------------------------------------------------------------------
Next ==
  \/ \E c \in Callers :
       \/ \E i \in Ids, h \in Hours : Persist(c, i, h)
       \/ LoadSnapshot(c) \/ Initialize(c) \/ StalePolicy(c) \/ Reserve(c) \/ Refuse(c)
       \/ Unreserve(c) \/ Keep(c) \/ Release(c) \/ Refund(c) \/ MarkRedisSettled(c)
       \/ Crash(c)
  \/ \E k \in Jobs, i \in Ids : ListTerminal(k, i) \/ \E x \in 0..(AmountOf[i] + Excess) : Commit(k, i, x)
  \/ \E k \in Jobs : SyncRedisSettlement(k) \/ JobMark(k) \/ JobCrash(k)
  \/ \E i \in Ids : PersistAmbiguousCharge(i)
  \/ \E lost \in SUBSET Windows : LoseRedis(lost)

Spec == Init /\ [][Next]_vars

-----------------------------------------------------------------------------
(* What must hold.                                                         *)

(* Money that a request was allowed to spend: what the transaction cost,   *)
(* up to its reservation.                                                  *)
Spending(i) == row[i].admitted /\ Charged(i)
Allowed(i) == IF Cost(i) > AmountOf[i] THEN AmountOf[i] ELSE Cost(i)
Spent(w, f) ==
  SumFunctionOnSet([i \in Ids |-> Allowed(i)],
    {i \in Ids : Spending(i) /\ In(i, w) /\ f \in FieldsOf[i]})

RowRecords ==
  [status : {"absent", "reserved", "sent", "committed", "released", "charged_unknown"},
   attempt : 0..MaxAttempt, hour : Windows, actual : Nat, settled : BOOLEAN,
   admitted : BOOLEAN]
Hashes ==
  [init : SUBSET Fields, used : [Fields -> Nat], own : SUBSET (Ids \X Attempts \X Fields),
   bare : SUBSET (Ids \X Attempts)]
LiveRows ==
  UNION {[known -> [attempt : 0..MaxAttempt, hour : Windows]] : known \in SUBSET Ids}
CallRecords ==
  [pc : {"idle", "snapshot", "initialize", "reserve", "unreserve", "provider", "refund",
         "unmark"},
   id : Ids \cup {None}, attempt : 0..MaxAttempt, hour : Windows, round : {1, 2},
   snap : [usage : [Windows -> [Fields -> Nat]], live : LiveRows]]
JobRecords ==
  [pc : {"idle", "settle", "mark"}, id : Ids \cup {None}, attempt : 0..MaxAttempt,
   hour : Windows, actual : Nat]

(* Rows, windows, keys and the progress of everybody have their types; in  *)
(* particular no counter is ever negative.                                 *)
TypeOK ==
  /\ row \in [Ids -> RowRecords]
  /\ win \in [Windows -> Hashes]
  /\ key \in [Ids -> [Attempts -> {Unset, Held} \cup Nat]]
  /\ call \in [Callers -> CallRecords]
  /\ job \in [Jobs -> JobRecords]

(* Whatever the interleaving of seeding, reserving, settling and losing    *)
(* windows, what was let through in an hour or a day stays within every    *)
(* limit that applies to it (RESERVE_LUA).  A transaction that costs more  *)
(* than its reservation is reported to the breaker; the excess may leave   *)
(* the budget, and never makes room for anyone else.                       *)
WithinBudget == \A w \in Windows, f \in Fields : Spent(w, f) <= LimitOf(w, f)

(* A counter that is in use never says less than what was let through      *)
(* (INITIALIZE_LUA against the snapshot it was given).                     *)
NoUndercount ==
  \A w \in Windows : \A f \in win[w].init : win[w].used[f] >= Spent(w, f)

(* No settlement ever finds a counter too small for it (SETTLE_LUA), which *)
(* would trip the breaker for the network, though others may have cost     *)
(* more or less than they reserved.                                        *)
SettlementNeverRefused ==
  /\ \A k \in Jobs : job[k].pc = "settle" =>
       ~SettleRefused(job[k].id, job[k].attempt, job[k].hour, job[k].actual)
  /\ \A c \in Callers : call[c].pc = "refund" =>
       ~SettleRefused(call[c].id, call[c].attempt, call[c].hour, 0)

(* A released reservation that is marked as settled in Redis, and may be   *)
(* reopened, is not counted there any more.                                *)
RefundReachesRedis ==
  \A i \in Ids : row[i].status = "released" /\ row[i].settled =>
    \A w \in Windows, f \in FieldsOf[i] : ~Counts(w, i, row[i].attempt, f)
=============================================================================
