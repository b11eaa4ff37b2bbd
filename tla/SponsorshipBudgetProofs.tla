---------------------- MODULE SponsorshipBudgetProofs -----------------------
(***************************************************************************)
(* What the budget counters guarantee, for any reservations, windows,      *)
(* limits, requests and passes, whatever Redis loses or runs twice.        *)
(***************************************************************************)
EXTENDS SponsorshipBudget, FiniteSetTheorems, WellFoundedInduction, TLAPS

-----------------------------------------------------------------------------
(* The inductive invariant *)

Sum(f, S) == SumFunctionOnSet(f, S)

(* A row in use has an attempt and an hour. *)
Rows == \A i \in Ids : row[i].status # "absent" => row[i].attempt > 0 /\ row[i].hour \in Hours

(* What settles an attempt: the cost of a committed row or nothing for a   *)
(* released one.  A later attempt has its own account.                     *)
Final(i, a, actual) ==
  /\ a \in 1..row[i].attempt
  /\ a = row[i].attempt =>
       \/ row[i].status = "committed" /\ actual = row[i].actual
       \/ row[i].status = "released" /\ actual = 0

(* A request that has a reservation, and one that has let go of it. *)
Holding == {"snapshot", "initialize", "reserve", "unreserve", "provider"}

CallOf(c) ==
  LET x == call[c] IN
  /\ x.pc \in Holding =>
       /\ x.id \in Ids /\ x.attempt \in Attempts
       /\ row[x.id].attempt = x.attempt /\ row[x.id].hour = x.hour
       /\ row[x.id].status \in {"reserved", "charged_unknown"}
       /\ x.pc # "provider" => ~row[x.id].admitted
  /\ x.pc \in {"refund", "unmark"} => x.id \in Ids
  /\ x.pc = "refund" => Final(x.id, x.attempt, 0)

OneHolder ==
  \A c, d \in Callers :
    c # d /\ call[c].pc \in Holding /\ call[d].pc \in Holding => call[c].id # call[d].id

JobOf(k) ==
  LET j == job[k] IN
  /\ j.pc # "idle" => j.id \in Ids
  /\ j.pc = "settle" => Final(j.id, j.attempt, j.actual)

KeyOf(i, a) == Settled(i, a) => Final(i, a, key[i][a])

(* A counter is marked only where it exists, and a bare marker comes with  *)
(* one of the current format.                                              *)
MarkersOf(w) ==
  /\ \A i \in Ids, a \in Attempts, f \in Fields :
       <<i, a, f>> \in win[w].own => f \in FieldsOf[i] /\ f \in win[w].init
  /\ \A i \in Ids, a \in Attempts :
       <<i, a>> \in win[w].bare /\ FieldsOf[i] # {} =>
         \E f \in FieldsOf[i] : <<i, a, f>> \in win[w].own

(* What a counter holds for a reservation: what it reserved for every      *)
(* attempt that is marked, and what it was allowed when it is not.         *)
Marks(w, f, i) == {a \in Attempts : <<i, a, f>> \in win[w].own}
Due(w, f, i) == IF Spending(i) /\ In(i, w) /\ f \in FieldsOf[i] THEN Allowed(i) ELSE 0
Term(w, f, i) ==
  AmountOf[i] * Cardinality(Marks(w, f, i))
    + (IF row[i].attempt \in Marks(w, f, i) THEN 0 ELSE Due(w, f, i))
Load(w, f) == Sum([i \in Ids |-> Term(w, f, i)], Ids)

Counters == \A w \in Windows : \A f \in win[w].init : Load(w, f) <= win[w].used[f]

(* What a snapshot must have for a reservation: what it reserved if it was *)
(* live then, and what it is allowed now if it was not.                    *)
Need(snap, w, f, j) ==
  IF j \in DOMAIN snap.live /\ f \in FieldsOf[j] /\ w \in WindowsAt(snap.live[j].hour)
  THEN AmountOf[j] ELSE Due(w, f, j)

(* While a counter is not there nobody is let through on it, so that a     *)
(* snapshot stays good for it.                                             *)
GoodUsage(snap, w, f) ==
  /\ Sum([j \in Ids |-> Need(snap, w, f, j)], Ids) <= snap.usage[w][f]
  /\ \A j \in DOMAIN snap.live :
       Spending(j) /\ In(j, w) /\ f \in FieldsOf[j] => snap.live[j].attempt = row[j].attempt

GoodSnapshot(snap, i, h) ==
  /\ \A j \in DOMAIN snap.live :
       /\ snap.live[j].attempt \in 1..row[j].attempt
       /\ snap.live[j].attempt = row[j].attempt => snap.live[j].hour = row[j].hour
  /\ \A w \in WindowsAt(h) : \A f \in FieldsOf[i] \ win[w].init : GoodUsage(snap, w, f)

SnapshotOf(c) ==
  call[c].pc = "initialize" => GoodSnapshot(call[c].snap, call[c].id, call[c].hour)

BudgetInv ==
  /\ TypeOK /\ Rows /\ OneHolder /\ Counters /\ WithinBudget
  /\ \A c \in Callers : CallOf(c) /\ SnapshotOf(c)
  /\ \A k \in Jobs : JobOf(k)
  /\ \A i \in Ids, a \in Attempts : KeyOf(i, a)
  /\ \A w \in Windows : MarkersOf(w)

-----------------------------------------------------------------------------
(* Sums over finite sets *)

LEMMA Smallest ==
  ASSUME NEW S, IsFiniteSet(S), NEW T, T \subseteq SUBSET S, T # {}
  PROVE  \E x \in T : \A y \in T : ~(y \subseteq x /\ y # x)
<1>1. IsWellFoundedOn(StrictSubsetOrdering(S), FiniteSubsetsOf(S))
  BY FS_StrictSubsetOrderingWellFounded
<1>2. T \subseteq FiniteSubsetsOf(S)
  BY FS_Subset DEF FiniteSubsetsOf
<1>3. \E x \in T : \A y \in T : ~(<<y, x>> \in StrictSubsetOrdering(S))
  BY <1>1, <1>2, WFMin
<1> QED BY <1>3 DEF StrictSubsetOrdering

Pick(s) == CHOOSE x \in s : TRUE
Adds(f, S, g) == g = [s \in SUBSET S |-> IF s = {} THEN 0 ELSE f[Pick(s)] + g[s \ {Pick(s)}]]

LEMMA Picks == ASSUME NEW s, s # {} PROVE Pick(s) \in s
BY DEF Pick

LEMMA SumIs ==
  ASSUME NEW f, NEW S
  PROVE  SumFunctionOnSet(f, S) = (CHOOSE g : Adds(f, S, g))[S]
BY Zenon DEF SumFunctionOnSet, FoldFunctionOnSet, MapThenFoldSet, Adds, Pick

LEMMA AddsNone ==
  ASSUME NEW f, NEW S, NEW g, Adds(f, S, g)
  PROVE  g[{}] = 0
BY DEF Adds

LEMMA AddsSome ==
  ASSUME NEW f, NEW S, NEW g, Adds(f, S, g), NEW s \in SUBSET S, s # {}
  PROVE  g[s] = f[Pick(s)] + g[s \ {Pick(s)}]
BY DEF Adds

LEMMA AddsSame ==
  ASSUME NEW f, NEW S, NEW g, Adds(f, S, g), NEW T \in SUBSET S, IsFiniteSet(T),
         NEW h, Adds(f, T, h), NEW s \in SUBSET T
  PROVE  g[s] = h[s]
<1> DEFINE Wrong == {t \in SUBSET T : g[t] # h[t]}
<1> SUFFICES ASSUME Wrong # {} PROVE FALSE
  OBVIOUS
<1>1. Wrong \subseteq SUBSET T
  OBVIOUS
<1>2. PICK t \in Wrong : \A u \in Wrong : ~(u \subseteq t /\ u # t)
  <2> HIDE DEF Wrong
  <2> QED BY <1>1, Smallest
<1>3. t # {}
  BY AddsNone
<1>4. Pick(t) \in t /\ t \ {Pick(t)} \notin Wrong
  BY <1>2, <1>3, Picks
<1>5. t \in SUBSET S /\ t \in SUBSET T
  OBVIOUS
<1>6. g[t] = f[Pick(t)] + g[t \ {Pick(t)}] /\ h[t] = f[Pick(t)] + h[t \ {Pick(t)}]
  <2> HIDE DEF Wrong
  <2> QED BY <1>3, <1>5, AddsSome
<1> QED BY <1>4, <1>6

LEMMA AddsExists ==
  ASSUME NEW f, NEW S, IsFiniteSet(S)
  PROVE  \E g : Adds(f, S, g)
<1> DEFINE Lacking == {t \in SUBSET S : ~\E g : Adds(f, t, g)}
<1> SUFFICES ASSUME Lacking # {} PROVE FALSE
  OBVIOUS
<1>1. Lacking \subseteq SUBSET S
  OBVIOUS
<1>2. PICK t \in Lacking : \A u \in Lacking : ~(u \subseteq t /\ u # t)
  <2> HIDE DEF Lacking
  <2> QED BY <1>1, Smallest
<1> DEFINE H(u) == CHOOSE h : Adds(f, u, h)
           G == [s \in SUBSET t |-> IF s = {} THEN 0
                   ELSE f[Pick(s)] + H(s \ {Pick(s)})[s \ {Pick(s)}]]
<1>3. ASSUME NEW u \in SUBSET t, u # t PROVE Adds(f, u, H(u)) /\ IsFiniteSet(u)
  <2>1. u \in SUBSET S /\ u \notin Lacking
    BY <1>2, <1>3
  <2>2. \E h : Adds(f, u, h)
    BY <2>1
  <2> QED BY <2>1, <2>2, FS_Subset
<1> HIDE DEF H
<1>4. ASSUME NEW s \in SUBSET t, s # {}
      PROVE  G[s \ {Pick(s)}] = H(s \ {Pick(s)})[s \ {Pick(s)}]
  <2> DEFINE u == s \ {Pick(s)}
  <2>1. u \in SUBSET t /\ u # t /\ IsFiniteSet(u) /\ Adds(f, u, H(u))
    BY <1>3, <1>4, Picks
  <2>2. CASE u = {}
    BY <2>1, <2>2, AddsNone
  <2>3. CASE u # {}
    <3> DEFINE v == u \ {Pick(u)}
    <3>1. v \in SUBSET u /\ v \in SUBSET t /\ v # t /\ Pick(u) \in u
      BY <2>1, <2>3, Picks
    <3>2. IsFiniteSet(v) /\ Adds(f, v, H(v))
      BY <1>3, <3>1
    <3>3. H(u)[u] = f[Pick(u)] + H(u)[v]
      <4> HIDE DEF u
      <4>1. u \in SUBSET u
        OBVIOUS
      <4> QED BY <2>1, <2>3, <4>1, AddsSome
    <3>4. H(u)[v] = H(v)[v]
      <4> HIDE DEF v, u
      <4>1. v \in SUBSET v
        OBVIOUS
      <4> QED BY <2>1, <3>1, <3>2, <4>1, AddsSame
    <3>5. G[u] = f[Pick(u)] + H(v)[v]
      BY <2>1, <2>3
    <3> QED BY <3>3, <3>4, <3>5
  <2> QED BY <2>2, <2>3
<1>5. Adds(f, t, G)
  <2>1. G = [s \in SUBSET t |-> IF s = {} THEN 0 ELSE f[Pick(s)] + G[s \ {Pick(s)}]]
    BY <1>4, Zenon
  <2> QED BY <2>1 DEF Adds
<1> QED BY <1>2, <1>5

LEMMA SumAdds ==
  ASSUME NEW f, NEW S, IsFiniteSet(S)
  PROVE  \E g : Adds(f, S, g) /\ \A T \in SUBSET S : g[T] = Sum(f, T)
<1>1. ASSUME NEW T, IsFiniteSet(T)
      PROVE  Adds(f, T, CHOOSE g : Adds(f, T, g))
  BY <1>1, AddsExists
<1> DEFINE g == CHOOSE h : Adds(f, S, h)
<1>2. Adds(f, S, g)
  BY <1>1
<1>3. ASSUME NEW T \in SUBSET S PROVE g[T] = Sum(f, T)
  <2> DEFINE h == CHOOSE k : Adds(f, T, k)
  <2>1. IsFiniteSet(T) /\ T \in SUBSET T
    BY FS_Subset
  <2>2. Adds(f, T, h)
    BY <1>1, <2>1
  <2>3. Sum(f, T) = h[T]
    BY SumIs, Zenon DEF Sum
  <2> HIDE DEF g, h
  <2>4. g[T] = h[T]
    BY <1>2, <2>1, <2>2, AddsSame
  <2> QED BY <2>3, <2>4
<1> HIDE DEF g
<1> QED BY <1>2, <1>3

LEMMA SumNone == ASSUME NEW f PROVE Sum(f, {}) = 0
<1>1. PICK g : Adds(f, {}, g) /\ \A T \in SUBSET {} : g[T] = Sum(f, T)
  BY SumAdds, FS_EmptySet
<1> QED BY <1>1, AddsNone

LEMMA SumPick ==
  ASSUME NEW f, NEW S, IsFiniteSet(S), S # {}
  PROVE  Sum(f, S) = f[Pick(S)] + Sum(f, S \ {Pick(S)})
<1>1. PICK g : Adds(f, S, g) /\ \A T \in SUBSET S : g[T] = Sum(f, T)
  BY SumAdds
<1>2. S \in SUBSET S /\ S \ {Pick(S)} \in SUBSET S
  OBVIOUS
<1>3. g[S] = f[Pick(S)] + g[S \ {Pick(S)}]
  BY <1>1, <1>2, AddsSome
<1> QED BY <1>1, <1>2, <1>3

LEMMA SumType ==
  ASSUME NEW f, NEW S, IsFiniteSet(S), \A x \in S : f[x] \in Int
  PROVE  Sum(f, S) \in Int
<1> DEFINE Wrong == {t \in SUBSET S : Sum(f, t) \notin Int}
<1> SUFFICES ASSUME Wrong # {} PROVE FALSE
  OBVIOUS
<1>1. Wrong \subseteq SUBSET S
  OBVIOUS
<1>2. PICK t \in Wrong : \A u \in Wrong : ~(u \subseteq t /\ u # t)
  <2> HIDE DEF Wrong
  <2> QED BY <1>1, Smallest
<1>3. t \in SUBSET S /\ Sum(f, t) \notin Int /\ IsFiniteSet(t)
  BY FS_Subset
<1>4. t # {}
  BY <1>3, SumNone
<1>5. Pick(t) \in t /\ t \ {Pick(t)} \notin Wrong
  BY <1>2, <1>4, Picks
<1>6. Sum(f, t) = f[Pick(t)] + Sum(f, t \ {Pick(t)})
  BY <1>3, <1>4, SumPick
<1> QED BY <1>3, <1>5, <1>6

(* The order does not matter. *)
LEMMA SumAny ==
  ASSUME NEW f, NEW S, IsFiniteSet(S), \A x \in S : f[x] \in Int, NEW x \in S
  PROVE  Sum(f, S) = f[x] + Sum(f, S \ {x})
<1> DEFINE Wrong == {t \in SUBSET S : \E y \in t : Sum(f, t) # f[y] + Sum(f, t \ {y})}
<1> SUFFICES ASSUME Wrong # {} PROVE FALSE
  OBVIOUS
<1>1. Wrong \subseteq SUBSET S
  OBVIOUS
<1>2. PICK t \in Wrong : \A u \in Wrong : ~(u \subseteq t /\ u # t)
  <2> HIDE DEF Wrong
  <2> QED BY <1>1, Smallest
<1>3. PICK y \in t : Sum(f, t) # f[y] + Sum(f, t \ {y})
  OBVIOUS
<1>4. t \in SUBSET S /\ t # {} /\ IsFiniteSet(t)
  BY <1>3, FS_Subset
<1> DEFINE p == Pick(t)
<1>5. p \in t /\ Sum(f, t) = f[p] + Sum(f, t \ {p})
  BY <1>4, Picks, SumPick
<1>6. p # y
  BY <1>3, <1>5
<1>7. t \ {p} \notin Wrong /\ t \ {y} \notin Wrong
  BY <1>2, <1>3, <1>5
<1>8. /\ Sum(f, t \ {p}) = f[y] + Sum(f, (t \ {p}) \ {y})
      /\ Sum(f, t \ {y}) = f[p] + Sum(f, (t \ {y}) \ {p})
  BY <1>3, <1>4, <1>5, <1>6, <1>7
<1>9. (t \ {p}) \ {y} = (t \ {y}) \ {p}
  OBVIOUS
<1>10. Sum(f, (t \ {p}) \ {y}) \in Int
  <2>1. (t \ {p}) \ {y} \in SUBSET S /\ IsFiniteSet((t \ {p}) \ {y})
    BY <1>4, FS_Subset
  <2> QED BY <2>1, SumType
<1>11. f[p] \in Int /\ f[y] \in Int
  BY <1>3, <1>4, <1>5
<1> HIDE DEF p, Wrong
<1> DEFINE rest == Sum(f, (t \ {p}) \ {y})
<1>12. Sum(f, t) = f[p] + (f[y] + rest) /\ Sum(f, t \ {y}) = f[p] + rest
  BY <1>5, <1>8, <1>9
<1>13. rest \in Int
  BY <1>10
<1> HIDE DEF rest
<1> QED BY <1>3, <1>11, <1>12, <1>13

LEMMA SumMonotone ==
  ASSUME NEW f, NEW g, NEW S, IsFiniteSet(S),
         \A x \in S : f[x] \in Int /\ g[x] \in Int /\ f[x] <= g[x]
  PROVE  Sum(f, S) <= Sum(g, S)
<1> DEFINE Wrong == {t \in SUBSET S : ~(Sum(f, t) <= Sum(g, t))}
<1> SUFFICES ASSUME Wrong # {} PROVE FALSE
  OBVIOUS
<1>1. Wrong \subseteq SUBSET S
  OBVIOUS
<1>2. PICK t \in Wrong : \A u \in Wrong : ~(u \subseteq t /\ u # t)
  <2> HIDE DEF Wrong
  <2> QED BY <1>1, Smallest
<1>3. t \in SUBSET S /\ ~(Sum(f, t) <= Sum(g, t)) /\ IsFiniteSet(t)
  BY FS_Subset
<1>4. t # {}
  BY <1>3, SumNone
<1>5. Pick(t) \in t /\ t \ {Pick(t)} \notin Wrong
  BY <1>2, <1>4, Picks
<1>6. /\ Sum(f, t) = f[Pick(t)] + Sum(f, t \ {Pick(t)})
      /\ Sum(g, t) = g[Pick(t)] + Sum(g, t \ {Pick(t)})
  BY <1>3, <1>4, SumPick
<1>7. Sum(f, t \ {Pick(t)}) \in Int /\ Sum(g, t \ {Pick(t)}) \in Int
  <2>1. t \ {Pick(t)} \in SUBSET S /\ IsFiniteSet(t \ {Pick(t)})
    BY <1>3, FS_Subset
  <2> QED BY <2>1, SumType
<1>8. Sum(f, t \ {Pick(t)}) <= Sum(g, t \ {Pick(t)}) /\ f[Pick(t)] <= g[Pick(t)]
  BY <1>3, <1>5
<1>9. f[Pick(t)] \in Int /\ g[Pick(t)] \in Int
  BY <1>3, <1>5
<1> QED BY <1>3, <1>6, <1>7, <1>8, <1>9

LEMMA SumPlus ==
  ASSUME NEW f, NEW g, NEW h, NEW S, IsFiniteSet(S),
         \A x \in S : f[x] \in Int /\ g[x] \in Int /\ h[x] = f[x] + g[x]
  PROVE  Sum(h, S) = Sum(f, S) + Sum(g, S)
<1> DEFINE Wrong == {t \in SUBSET S : Sum(h, t) # Sum(f, t) + Sum(g, t)}
<1> SUFFICES ASSUME Wrong # {} PROVE FALSE
  OBVIOUS
<1>1. Wrong \subseteq SUBSET S
  OBVIOUS
<1>2. PICK t \in Wrong : \A u \in Wrong : ~(u \subseteq t /\ u # t)
  <2> HIDE DEF Wrong
  <2> QED BY <1>1, Smallest
<1>3. t \in SUBSET S /\ Sum(h, t) # Sum(f, t) + Sum(g, t) /\ IsFiniteSet(t)
  BY FS_Subset
<1>4. t # {}
  <2>1. t = {} => Sum(h, t) = 0 /\ Sum(f, t) = 0 /\ Sum(g, t) = 0
    BY SumNone, Zenon
  <2> HIDE DEF Wrong
  <2> QED BY <1>3, <2>1
<1>5. Pick(t) \in t /\ t \ {Pick(t)} \notin Wrong
  BY <1>2, <1>4, Picks
<1>6. /\ Sum(f, t) = f[Pick(t)] + Sum(f, t \ {Pick(t)})
      /\ Sum(g, t) = g[Pick(t)] + Sum(g, t \ {Pick(t)})
      /\ Sum(h, t) = h[Pick(t)] + Sum(h, t \ {Pick(t)})
  BY <1>3, <1>4, SumPick
<1>7. /\ Sum(f, t \ {Pick(t)}) \in Int /\ Sum(g, t \ {Pick(t)}) \in Int
      /\ Sum(h, t \ {Pick(t)}) \in Int
  <2>1. t \ {Pick(t)} \in SUBSET S /\ IsFiniteSet(t \ {Pick(t)})
    BY <1>3, FS_Subset
  <2> QED BY <2>1, SumType
<1>8. /\ Sum(h, t \ {Pick(t)}) = Sum(f, t \ {Pick(t)}) + Sum(g, t \ {Pick(t)})
      /\ h[Pick(t)] = f[Pick(t)] + g[Pick(t)]
  BY <1>3, <1>5
<1>9. f[Pick(t)] \in Int /\ g[Pick(t)] \in Int /\ h[Pick(t)] \in Int
  BY <1>3, <1>5
<1> QED BY <1>3, <1>6, <1>7, <1>8, <1>9

(* A sum over a part is a sum over the whole, with nothing elsewhere. *)
LEMMA SumPart ==
  ASSUME NEW f, NEW g, NEW S, IsFiniteSet(S), NEW T \in SUBSET S,
         \A x \in T : f[x] \in Int, \A x \in S : g[x] = IF x \in T THEN f[x] ELSE 0
  PROVE  Sum(g, S) = Sum(f, T)
<1> DEFINE Wrong == {t \in SUBSET S : Sum(g, t) # Sum(f, t \cap T)}
<1> SUFFICES ASSUME Wrong # {} PROVE FALSE
  <2>1. S \cap T = T /\ S \in SUBSET S
    OBVIOUS
  <2> QED BY <2>1
<1>1. Wrong \subseteq SUBSET S
  OBVIOUS
<1>2. PICK t \in Wrong : \A u \in Wrong : ~(u \subseteq t /\ u # t)
  <2> HIDE DEF Wrong
  <2> QED BY <1>1, Smallest
<1>3. t \in SUBSET S /\ Sum(g, t) # Sum(f, t \cap T) /\ IsFiniteSet(t)
  BY FS_Subset
<1>4. t # {}
  <2>1. {} \cap T = {}
    OBVIOUS
  <2> QED BY <1>3, <2>1, SumNone
<1> DEFINE p == Pick(t)
           u == t \ {p}
<1>5. p \in t /\ u \notin Wrong /\ u \in SUBSET S
  BY <1>2, <1>3, <1>4, Picks
<1>6. Sum(g, t) = g[p] + Sum(g, u)
  BY <1>3, <1>4, SumPick
<1>7. Sum(g, u) = Sum(f, u \cap T)
  BY <1>5
<1>8. Sum(f, u \cap T) \in Int
  <2>1. u \cap T \in SUBSET S /\ IsFiniteSet(u \cap T)
    BY <1>3, FS_Subset
  <2> QED BY <2>1, SumType
<1>9. CASE p \in T
  <2>1. (t \cap T) \ {p} = u \cap T /\ p \in t \cap T
    BY <1>5, <1>9
  <2>2. t \cap T \in SUBSET S /\ IsFiniteSet(t \cap T)
    BY <1>3, FS_Subset
  <2>3. Sum(f, t \cap T) = f[p] + Sum(f, (t \cap T) \ {p})
    BY <2>1, <2>2, SumAny
  <2>4. g[p] = f[p]
    BY <1>3, <1>5, <1>9
  <2> QED BY <1>3, <1>6, <1>7, <2>1, <2>3, <2>4
<1>10. CASE p \notin T
  <2>1. t \cap T = u \cap T
    BY <1>10
  <2>2. g[p] = 0
    BY <1>3, <1>5, <1>10
  <2>3. Sum(g, t) = 0 + Sum(f, u \cap T)
    BY <1>6, <1>7, <2>2, Zenon
  <2>4. Sum(g, t) = Sum(f, u \cap T)
    BY <1>8, <2>3
  <2> QED BY <1>3, <2>1, <2>4, Zenon
<1> QED BY <1>9, <1>10

LEMMA SumSame ==
  ASSUME NEW f, NEW g, NEW S, IsFiniteSet(S), \A x \in S : f[x] \in Int /\ f[x] = g[x]
  PROVE  Sum(f, S) = Sum(g, S)
<1>1. Sum(f, S) <= Sum(g, S) /\ Sum(g, S) <= Sum(f, S)
  BY SumMonotone
<1>2. Sum(f, S) \in Int /\ Sum(g, S) \in Int
  BY SumType
<1> QED BY <1>1, <1>2

(* One summand changes. *)
LEMMA SumOne ==
  ASSUME NEW f, NEW g, NEW S, IsFiniteSet(S), \A x \in S : f[x] \in Int /\ g[x] \in Int,
         NEW x \in S, \A y \in S \ {x} : g[y] <= f[y]
  PROVE  Sum(g, S) <= Sum(f, S) - f[x] + g[x]
<1>1. Sum(f, S) = f[x] + Sum(f, S \ {x}) /\ Sum(g, S) = g[x] + Sum(g, S \ {x})
  BY SumAny
<1>2. IsFiniteSet(S \ {x})
  BY FS_RemoveElement
<1>3. Sum(f, S \ {x}) \in Int /\ Sum(g, S \ {x}) \in Int
  BY <1>2, SumType
<1>4. Sum(g, S \ {x}) <= Sum(f, S \ {x})
  BY <1>2, SumMonotone
<1> QED BY <1>1, <1>3, <1>4

LEMMA SumNat ==
  ASSUME NEW f, NEW S, IsFiniteSet(S), \A x \in S : f[x] \in Nat
  PROVE  Sum(f, S) \in Nat
<1> DEFINE zero == [x \in S |-> 0]
<1>1. Sum(zero, S) = Sum(f, {})
  <2>1. {} \in SUBSET S /\ \A x \in S : zero[x] = IF x \in {} THEN f[x] ELSE 0
    OBVIOUS
  <2> HIDE DEF zero
  <2> QED BY <2>1, SumPart
<1>2. \A x \in S : zero[x] \in Int /\ f[x] \in Int /\ zero[x] <= f[x]
  OBVIOUS
<1> HIDE DEF zero
<1>3. Sum(zero, S) <= Sum(f, S) /\ Sum(f, S) \in Int
  BY <1>2, SumMonotone, SumType
<1>4. Sum(f, {}) = 0
  BY SumNone
<1> QED BY <1>1, <1>3, <1>4

LEMMA SumAtLeast ==
  ASSUME NEW f, NEW S, IsFiniteSet(S), \A x \in S : f[x] \in Nat, NEW x \in S
  PROVE  f[x] <= Sum(f, S)
<1>1. Sum(f, S) = f[x] + Sum(f, S \ {x})
  BY SumAny
<1>2. Sum(f, S \ {x}) \in Nat
  BY FS_RemoveElement, SumNat
<1> QED BY <1>1, <1>2

-----------------------------------------------------------------------------
(* Types *)

(* What a step needs to know of a row. *)
LEMMA RowType ==
  ASSUME TypeOK, NEW i \in Ids
  PROVE  /\ row[i] \in RowRecords
         /\ row[i].attempt \in 0..MaxAttempt /\ row[i].hour \in Windows
         /\ row[i].actual \in Nat /\ row[i].admitted \in BOOLEAN
         /\ row[i].settled \in BOOLEAN
BY DEF TypeOK, RowRecords

LEMMA HashType ==
  ASSUME TypeOK, NEW w \in Windows
  PROVE  /\ win[w] \in Hashes
         /\ win[w].init \subseteq Fields /\ win[w].used \in [Fields -> Nat]
         /\ win[w].own \in SUBSET (Ids \X Attempts \X Fields)
         /\ win[w].bare \in SUBSET (Ids \X Attempts)
BY DEF TypeOK, Hashes

LEMMA CallType ==
  ASSUME TypeOK, NEW c \in Callers
  PROVE  /\ call[c] \in CallRecords
         /\ call[c].id \in Ids \cup {None} /\ call[c].attempt \in 0..MaxAttempt
         /\ call[c].hour \in Windows
         /\ call[c].snap \in [usage : [Windows -> [Fields -> Nat]], live : LiveRows]
BY DEF TypeOK, CallRecords

LEMMA JobType ==
  ASSUME TypeOK, NEW k \in Jobs
  PROVE  /\ job[k] \in JobRecords
         /\ job[k].id \in Ids \cup {None} /\ job[k].attempt \in 0..MaxAttempt
         /\ job[k].hour \in Windows /\ job[k].actual \in Nat
BY DEF TypeOK, JobRecords

LEMMA LiveRowsMade ==
  ASSUME NEW K \in SUBSET Ids, NEW m \in [K -> [attempt : 0..MaxAttempt, hour : Windows]]
  PROVE  m \in LiveRows
BY Zenon DEF LiveRows

LEMMA LiveRowsType ==
  ASSUME NEW m \in LiveRows
  PROVE  /\ DOMAIN m \in SUBSET Ids
         /\ \A j \in DOMAIN m : m[j].attempt \in 0..MaxAttempt /\ m[j].hour \in Windows
<1>1. PICK K \in SUBSET Ids : m \in [K -> [attempt : 0..MaxAttempt, hour : Windows]]
  BY Zenon DEF LiveRows
<1> QED BY <1>1

LEMMA NoSnapshotType == NoSnapshot \in [usage : [Windows -> [Fields -> Nat]], live : LiveRows]
<1> DEFINE m == [i \in {} |-> [attempt |-> 0, hour |-> Day]]
<1>1. m \in [{} -> [attempt : 0..MaxAttempt, hour : Windows]]
  OBVIOUS
<1>2. m \in LiveRows
  BY <1>1, LiveRowsMade
<1> HIDE DEF m
<1>3. NoSnapshot = [usage |-> [w \in Windows |-> [f \in Fields |-> 0]], live |-> m]
  BY DEF NoSnapshot, m
<1> QED BY <1>2, <1>3

LEMMA IdleType == Idle \in CallRecords /\ Idle.pc = "idle"
<1>1. 0 \in 0..MaxAttempt /\ Day \in Windows
  BY BudgetAssumption DEF Windows
<1> QED BY <1>1, NoSnapshotType DEF Idle, CallRecords

LEMMA JobIdleType == JobIdle \in JobRecords /\ JobIdle.pc = "idle"
<1>1. 0 \in 0..MaxAttempt /\ Day \in Windows
  BY BudgetAssumption DEF Windows
<1> QED BY <1>1 DEF JobIdle, JobRecords

LEMMA ColdType == Cold \in Hashes
BY DEF Cold, Hashes

LEMMA AbsentType == Absent \in RowRecords
<1>1. 0 \in 0..MaxAttempt /\ Day \in Windows
  BY BudgetAssumption DEF Windows
<1> QED BY <1>1 DEF Absent, RowRecords

(* The amounts of a row. *)
LEMMA Amounts ==
  ASSUME TypeOK, NEW i \in Ids
  PROVE  /\ AmountOf[i] \in Nat /\ FieldsOf[i] \subseteq Fields
         /\ Cost(i) \in Nat /\ Allowed(i) \in Nat
         /\ Allowed(i) <= AmountOf[i] /\ Allowed(i) <= Cost(i)
<1>1. AmountOf[i] \in Nat /\ FieldsOf[i] \subseteq Fields
  BY BudgetAssumption
<1>2. Cost(i) \in Nat
  BY <1>1, RowType DEF Cost
<1> QED BY <1>1, <1>2 DEF Allowed

-----------------------------------------------------------------------------
(* What a counter has to hold *)

Wants(w, f, i) == Spending(i) /\ In(i, w) /\ f \in FieldsOf[i]

LEMMA DueType ==
  ASSUME TypeOK, NEW i \in Ids, NEW w, NEW f
  PROVE  Due(w, f, i) \in Nat
BY Amounts DEF Due

LEMMA DueOf ==
  ASSUME TypeOK, NEW i \in Ids, NEW w, NEW f
  PROVE  Due(w, f, i) = IF Wants(w, f, i) THEN Allowed(i) ELSE 0
BY DEF Due, Wants

LEMMA MarksFinite ==
  ASSUME NEW w, NEW f, NEW i
  PROVE  IsFiniteSet(Marks(w, f, i)) /\ Cardinality(Marks(w, f, i)) \in Nat
<1>1. IsFiniteSet(Attempts)
  BY BudgetAssumption, FS_Interval DEF Attempts
<1>2. Marks(w, f, i) \subseteq Attempts
  BY DEF Marks
<1>3. IsFiniteSet(Marks(w, f, i))
  BY <1>1, <1>2, FS_Subset
<1> QED BY <1>3, FS_CardinalityType

LEMMA Times ==
  ASSUME NEW A \in Nat, NEW n \in Nat
  PROVE  A * n \in Nat /\ A * (n + 1) = A * n + A /\ A * 0 = 0 /\ A * 1 = A
OBVIOUS

LEMMA TermType ==
  ASSUME TypeOK, NEW i \in Ids, NEW w, NEW f
  PROVE  Term(w, f, i) \in Nat
<1> DEFINE n == Cardinality(Marks(w, f, i))
<1>1. n \in Nat /\ AmountOf[i] \in Nat /\ Due(w, f, i) \in Nat
  BY MarksFinite, Amounts, DueType
<1>2. Term(w, f, i) = AmountOf[i] * n
                        + (IF row[i].attempt \in Marks(w, f, i) THEN 0 ELSE Due(w, f, i))
  BY DEF Term
<1> HIDE DEF n
<1>3. AmountOf[i] * n \in Nat
  BY <1>1, Times
<1> QED BY <1>1, <1>2, <1>3

(* An attempt that is marked is held in full. *)
LEMMA TermMarked ==
  ASSUME TypeOK, NEW i \in Ids, NEW w, NEW f, NEW a \in Marks(w, f, i)
  PROVE  AmountOf[i] <= Term(w, f, i)
<1> DEFINE M == Marks(w, f, i)
<1>1. IsFiniteSet(M \ {a}) /\ Cardinality(M \ {a}) = Cardinality(M) - 1
  BY MarksFinite, FS_RemoveElement
<1>2. Cardinality(M) \in Nat /\ Cardinality(M \ {a}) \in Nat
  BY <1>1, MarksFinite, FS_CardinalityType
<1>3. AmountOf[i] \in Nat /\ Due(w, f, i) \in Nat
  BY Amounts, DueType
<1>4. AmountOf[i] * Cardinality(M) = AmountOf[i] * Cardinality(M \ {a}) + AmountOf[i]
  BY <1>1, <1>2, <1>3, Times
<1>5. AmountOf[i] * Cardinality(M \ {a}) \in Nat
  BY <1>2, <1>3, Times
<1>6. Term(w, f, i) = AmountOf[i] * Cardinality(M)
                        + (IF row[i].attempt \in M THEN 0 ELSE Due(w, f, i))
  BY DEF Term
<1> HIDE DEF M
<1> QED BY <1>3, <1>4, <1>5, <1>6

(* What is due is always held. *)
LEMMA DueInTerm ==
  ASSUME TypeOK, NEW i \in Ids, NEW w, NEW f
  PROVE  Due(w, f, i) <= Term(w, f, i)
<1>1. Due(w, f, i) \in Nat /\ Due(w, f, i) <= AmountOf[i] /\ AmountOf[i] \in Nat
  BY Amounts, DueType DEF Due
<1>2. CASE row[i].attempt \in Marks(w, f, i)
  BY <1>1, <1>2, TermMarked, TermType
<1>3. CASE row[i].attempt \notin Marks(w, f, i)
  <2>1. Term(w, f, i) = AmountOf[i] * Cardinality(Marks(w, f, i)) + Due(w, f, i)
    BY <1>3 DEF Term
  <2>2. AmountOf[i] * Cardinality(Marks(w, f, i)) \in Nat
    BY <1>1, MarksFinite, Times
  <2> QED BY <1>1, <2>1, <2>2
<1> QED BY <1>2, <1>3

(* What was spent is what is due. *)
LEMMA SpentIsDue ==
  ASSUME TypeOK, NEW w, NEW f
  PROVE  Spent(w, f) = Sum([i \in Ids |-> Due(w, f, i)], Ids)
<1> DEFINE A == [i \in Ids |-> Allowed(i)]
           D == [i \in Ids |-> Due(w, f, i)]
           T == {i \in Ids : Spending(i) /\ In(i, w) /\ f \in FieldsOf[i]}
<1>1. T \in SUBSET Ids
  OBVIOUS
<1>2. \A i \in T : A[i] \in Int
  BY Amounts
<1>3. \A i \in Ids : D[i] = IF i \in T THEN A[i] ELSE 0
  BY DEF Due
<1>4. Spent(w, f) = Sum(A, T)
  BY Zenon DEF Spent, Sum
<1>5. IsFiniteSet(Ids)
  BY BudgetAssumption
<1> HIDE DEF A, D, T
<1>6. Sum(D, Ids) = Sum(A, T)
  BY <1>1, <1>2, <1>3, <1>5, SumPart
<1> QED BY <1>4, <1>6 DEF D

LEMMA SpentIsLoaded ==
  ASSUME TypeOK, NEW w, NEW f
  PROVE  Spent(w, f) \in Int /\ Load(w, f) \in Int /\ Spent(w, f) <= Load(w, f)
<1> DEFINE D == [i \in Ids |-> Due(w, f, i)]
           T == [i \in Ids |-> Term(w, f, i)]
<1>1. \A i \in Ids : D[i] \in Int /\ T[i] \in Int /\ D[i] <= T[i]
  BY DueType, TermType, DueInTerm
<1>2. IsFiniteSet(Ids)
  BY BudgetAssumption
<1>3. Spent(w, f) = Sum(D, Ids) /\ Load(w, f) = Sum(T, Ids)
  BY Zenon, SpentIsDue DEF Load
<1> HIDE DEF D, T
<1> QED BY <1>1, <1>2, <1>3, SumMonotone, SumType

(* A counter holds what is marked in it. *)
LEMMA MarkIsLoaded ==
  ASSUME TypeOK, NEW i \in Ids, NEW w, NEW f, NEW a \in Marks(w, f, i)
  PROVE  AmountOf[i] <= Load(w, f)
<1> DEFINE T == [j \in Ids |-> Term(w, f, j)]
<1>1. \A j \in Ids : T[j] \in Nat
  BY TermType
<1>2. IsFiniteSet(Ids)
  BY BudgetAssumption
<1>3. T[i] = Term(w, f, i) /\ Load(w, f) = Sum(T, Ids)
  BY Zenon DEF Load
<1>4. AmountOf[i] <= T[i]
  BY <1>3, TermMarked
<1> HIDE DEF T
<1>5. T[i] <= Sum(T, Ids) /\ Sum(T, Ids) \in Nat
  BY <1>1, <1>2, SumAtLeast, SumNat
<1> QED BY <1>1, <1>3, <1>4, <1>5, Amounts

(* The markers of the previous format decide nothing. *)
LEMMA CountsIsMarked ==
  ASSUME TypeOK, NEW w \in Windows, MarkersOf(w), NEW i \in Ids, NEW a \in Attempts,
         NEW f \in FieldsOf[i]
  PROVE  /\ Counts(w, i, a, f) <=> <<i, a, f>> \in win[w].own
         /\ Covers(w, i, a, f) <=> <<i, a, f>> \in win[w].own
         /\ Counts(w, i, a, f) <=> a \in Marks(w, f, i)
BY Zenon, HashType DEF Counts, Covers, MarkersOf, Marks

(* A counter in use is not too small for what is marked in it. *)
LEMMA MarkIsUsed ==
  ASSUME TypeOK, Counters, NEW w \in Windows, MarkersOf(w), NEW i \in Ids,
         NEW a \in Attempts, NEW f \in FieldsOf[i], <<i, a, f>> \in win[w].own
  PROVE  AmountOf[i] <= win[w].used[f]
<1>1. f \in win[w].init /\ f \in Fields
  BY HashType DEF MarkersOf
<1>2. a \in Marks(w, f, i)
  BY DEF Marks
<1>3. AmountOf[i] <= Load(w, f) /\ Load(w, f) \in Int
  BY <1>2, MarkIsLoaded, SpentIsLoaded
<1>4. Load(w, f) <= win[w].used[f]
  BY <1>1 DEF Counters
<1> QED BY <1>1, <1>3, <1>4, Amounts, HashType

LEMMA NeverRefused ==
  ASSUME TypeOK, Counters, \A w \in Windows : MarkersOf(w), NEW i \in Ids, NEW a \in Attempts,
         NEW h \in Windows, NEW actual \in Nat
  PROVE  ~SettleRefused(i, a, h, actual)
<1> SUFFICES ASSUME NEW w \in WindowsAt(h), NEW f \in FieldsOf[i], Covers(w, i, a, f),
                    win[w].used[f] < AmountOf[i] - actual
             PROVE  FALSE
  BY Zenon DEF SettleRefused
<1>1. w \in Windows
  BY DEF WindowsAt, Windows
<1>2. <<i, a, f>> \in win[w].own
  BY <1>1, CountsIsMarked
<1>3. AmountOf[i] <= win[w].used[f]
  BY <1>1, <1>2, MarkIsUsed
<1> QED BY <1>1, <1>3, Amounts, HashType

-----------------------------------------------------------------------------
(* What a step leaves alone *)

(* The numbers that a counter is made of. *)
Measured ==
  /\ \A i \in Ids : /\ Cost(i) \in Nat /\ Allowed(i) \in Nat
                    /\ Allowed(i) <= AmountOf[i] /\ Allowed(i) <= Cost(i)
  /\ \A w \in Windows, f \in Fields :
       /\ Spent(w, f) = Sum([i \in Ids |-> Due(w, f, i)], Ids)
       /\ Load(w, f) = Sum([i \in Ids |-> Term(w, f, i)], Ids)
       /\ Spent(w, f) \in Int /\ Load(w, f) \in Int /\ Spent(w, f) <= Load(w, f)
       /\ \A i \in Ids : Due(w, f, i) \in Nat /\ Term(w, f, i) \in Nat

LEMMA MeasuredNow == TypeOK => Measured
<1> SUFFICES ASSUME TypeOK PROVE Measured
  OBVIOUS
<1>1. \A i \in Ids : /\ Cost(i) \in Nat /\ Allowed(i) \in Nat
                     /\ Allowed(i) <= AmountOf[i] /\ Allowed(i) <= Cost(i)
  BY Amounts
<1>2. ASSUME NEW w \in Windows, NEW f \in Fields
      PROVE  /\ Spent(w, f) = Sum([i \in Ids |-> Due(w, f, i)], Ids)
             /\ Load(w, f) = Sum([i \in Ids |-> Term(w, f, i)], Ids)
             /\ Spent(w, f) \in Int /\ Load(w, f) \in Int /\ Spent(w, f) <= Load(w, f)
             /\ \A i \in Ids : Due(w, f, i) \in Nat /\ Term(w, f, i) \in Nat
  <2>1. Spent(w, f) = Sum([i \in Ids |-> Due(w, f, i)], Ids)
    BY SpentIsDue
  <2>2. Load(w, f) = Sum([i \in Ids |-> Term(w, f, i)], Ids)
    BY Zenon DEF Load
  <2>3. Spent(w, f) \in Int /\ Load(w, f) \in Int /\ Spent(w, f) <= Load(w, f)
    BY SpentIsLoaded
  <2>4. \A i \in Ids : Due(w, f, i) \in Nat /\ Term(w, f, i) \in Nat
    BY DueType, TermType
  <2> QED BY <2>1, <2>2, <2>3, <2>4
<1> QED BY Zenon, <1>1, <1>2 DEF Measured

LEMMA MeasuredNext == TypeOK' => Measured'
BY MeasuredNow, PTL

(* What nobody takes back from a row: its attempt, and how it ended. *)
Steady(i) ==
  /\ row'[i].attempt >= row[i].attempt
  /\ row'[i].attempt = row[i].attempt =>
       /\ row'[i].hour = row[i].hour
       /\ row[i].status = "committed" =>
            row'[i].status = "committed" /\ row'[i].actual = row[i].actual
       /\ row[i].status = "released" => row'[i].status = "released"

(* A step that lets nobody through asks no more of a counter. *)
Eases(w, f, i) ==
  Wants(w, f, i)' => /\ Wants(w, f, i) /\ row'[i].attempt = row[i].attempt
                     /\ Allowed(i)' <= Allowed(i)

Calm(i) ==
  /\ Steady(i)
  /\ Spending(i)' => /\ Spending(i) /\ row'[i].attempt = row[i].attempt
                     /\ Allowed(i)' <= Allowed(i)

(* What a request relies on while it has a reservation. *)
Kept(i) ==
  /\ row'[i].attempt = row[i].attempt /\ row'[i].hour = row[i].hour
  /\ row'[i].admitted = row[i].admitted
  /\ row'[i].status \in {row[i].status, "charged_unknown"}

LEMMA SameRow ==
  ASSUME TypeOK, NEW i \in Ids, row'[i] = row[i]
  PROVE  Calm(i) /\ Kept(i)
<1>1. Allowed(i)' = Allowed(i) /\ Spending(i)' = Spending(i)
  BY DEF Allowed, Cost, Spending, Charged
<1> QED BY <1>1, RowType, Amounts DEF Calm, Steady, Kept

LEMMA CalmEases ==
  ASSUME NEW i \in Ids, Calm(i), NEW w, NEW f
  PROVE  Eases(w, f, i)
<1>1. CASE Spending(i)'
  <2>1. row'[i].hour = row[i].hour
    BY <1>1 DEF Calm, Steady
  <2> QED BY <1>1, <2>1 DEF Calm, Eases, Wants, In
<1> QED BY <1>1 DEF Eases, Wants

LEMMA EasesDue ==
  ASSUME TypeOK, TypeOK', NEW i \in Ids, NEW w \in Windows, NEW f \in Fields, Eases(w, f, i)
  PROVE  Due(w, f, i)' <= Due(w, f, i)
<1>1. Due(w, f, i) = IF Wants(w, f, i) THEN Allowed(i) ELSE 0
  BY DEF Due, Wants
<1>2. Due(w, f, i)' = IF Wants(w, f, i)' THEN Allowed(i)' ELSE 0
  BY DEF Due, Wants
<1>3. /\ Allowed(i) \in Nat /\ Allowed(i)' \in Nat
      /\ Due(w, f, i) \in Nat /\ Due(w, f, i)' \in Nat
  BY MeasuredNow, MeasuredNext DEF Measured
<1> QED BY <1>1, <1>2, <1>3 DEF Eases

LEMMA FinalKept ==
  ASSUME TypeOK, TypeOK', NEW i \in Ids, Steady(i), NEW a, NEW x, Final(i, a, x)
  PROVE  Final(i, a, x)'
<1>1. /\ row[i].attempt \in 0..MaxAttempt /\ row'[i].attempt \in 0..MaxAttempt
      /\ MaxAttempt \in Nat
  BY RowType, BudgetAssumption DEF TypeOK, RowRecords
<1>2. a \in 1..row'[i].attempt
  BY <1>1 DEF Final, Steady
<1>3. a = row'[i].attempt => row'[i].attempt = row[i].attempt
  BY <1>1 DEF Final, Steady
<1> QED BY <1>2, <1>3 DEF Final, Steady

LEMMA CallKept ==
  ASSUME TypeOK, TypeOK', \A i \in Ids : Steady(i), NEW d \in Callers, CallOf(d),
         call'[d] = call[d], call[d].pc \in Holding => Kept(call[d].id)
  PROVE  CallOf(d)'
<1> DEFINE x == call[d]
<1>1. x.pc \in Holding =>
        /\ x.id \in Ids /\ x.attempt \in Attempts
        /\ row'[x.id].attempt = x.attempt /\ row'[x.id].hour = x.hour
        /\ row'[x.id].status \in {"reserved", "charged_unknown"}
        /\ x.pc # "provider" => ~row'[x.id].admitted
  BY DEF CallOf, Kept
<1>2. \A i \in Ids : \A a : Final(i, a, 0) => Final(i, a, 0)'
  BY FinalKept
<1>3. x.pc = "refund" => Final(x.id, x.attempt, 0)'
  BY <1>2 DEF CallOf, Final
<1> QED BY <1>1, <1>3 DEF CallOf

LEMMA JobKept ==
  ASSUME TypeOK, TypeOK', \A i \in Ids : Steady(i), NEW k \in Jobs, JobOf(k),
         job'[k] = job[k]
  PROVE  JobOf(k)'
<1> DEFINE Ended(i, a, y) ==
             /\ a \in 1..row'[i].attempt
             /\ a = row'[i].attempt =>
                  \/ row'[i].status = "committed" /\ y = row'[i].actual
                  \/ row'[i].status = "released" /\ y = 0
<1>1. ASSUME NEW i \in Ids, NEW a, NEW y, Final(i, a, y) PROVE Ended(i, a, y)
  <2>1. Final(i, a, y)'
    BY <1>1, FinalKept
  <2> QED BY <2>1 DEF Final
<1> HIDE DEF Ended
<1>2. job[k].pc = "settle" => Final(job[k].id, job[k].attempt, job[k].actual)'
  <2>1. CASE job[k].pc = "settle"
    <3>1. job[k].id \in Ids /\ Final(job[k].id, job[k].attempt, job[k].actual)
      BY <2>1 DEF JobOf
    <3>2. Ended(job[k].id, job[k].attempt, job[k].actual)
      BY Zenon, <1>1, <3>1
    <3> QED BY <3>2 DEF Ended, Final
  <2> QED BY <2>1
<1> QED BY <1>2 DEF JobOf

LEMMA KeyKept ==
  ASSUME TypeOK, TypeOK', NEW i \in Ids, Steady(i), NEW a \in Attempts, KeyOf(i, a),
         key'[i][a] = key[i][a]
  PROVE  KeyOf(i, a)'
<1>1. \A y : Final(i, a, y) => Final(i, a, y)'
  BY FinalKept
<1> QED BY <1>1 DEF KeyOf, Settled, Final

Snapshots == [usage : [Windows -> [Fields -> Nat]], live : LiveRows]

LEMMA NeedType ==
  ASSUME TypeOK, NEW s \in Snapshots, NEW w \in Windows, NEW f \in Fields, NEW j \in Ids
  PROVE  Need(s, w, f, j) \in Nat
BY Amounts, DueType DEF Need

LEMMA NeedTypeNext ==
  ASSUME TypeOK', NEW s \in Snapshots, NEW w \in Windows, NEW f \in Fields, NEW j \in Ids
  PROVE  Need(s, w, f, j)' \in Nat
<1>1. AmountOf[j] \in Nat /\ Due(w, f, j)' \in Nat
  BY MeasuredNext, BudgetAssumption DEF Measured
<1> QED BY <1>1 DEF Need

LEMMA GoodUsageKept ==
  ASSUME TypeOK, TypeOK', NEW s \in Snapshots, NEW w \in Windows, NEW f \in Fields,
         \A i \in Ids : Eases(w, f, i), GoodUsage(s, w, f)
  PROVE  GoodUsage(s, w, f)'
<1> DEFINE N == [j \in Ids |-> Need(s, w, f, j)]
           M == [j \in Ids |-> Need(s, w, f, j)']
<1>1. ASSUME NEW j \in Ids PROVE Need(s, w, f, j)' <= Need(s, w, f, j)
  <2>1. /\ Due(w, f, j)' <= Due(w, f, j) /\ Due(w, f, j) \in Nat
        /\ Due(w, f, j)' \in Nat /\ AmountOf[j] \in Nat
    BY EasesDue, MeasuredNow, MeasuredNext, BudgetAssumption DEF Measured
  <2> QED BY <2>1 DEF Need
<1>2. \A j \in Ids : M[j] \in Int /\ N[j] \in Int /\ M[j] <= N[j]
  BY <1>1, NeedType, NeedTypeNext
<1>3. IsFiniteSet(Ids)
  BY BudgetAssumption
<1>4. Sum(N, Ids) <= s.usage[w][f] /\ s.usage[w][f] \in Nat
  BY DEF GoodUsage, Snapshots
<1>5. \A j \in DOMAIN s.live : Wants(w, f, j)' => s.live[j].attempt = row'[j].attempt
  <2>1. s.live \in LiveRows
    BY DEF Snapshots
  <2>2. DOMAIN s.live \in SUBSET Ids
    BY <2>1, LiveRowsType
  <2> QED BY <2>2 DEF GoodUsage, Eases, Wants
<1>6. Sum(M, Ids) <= s.usage[w][f]
  <2> HIDE DEF M, N
  <2>1. Sum(M, Ids) <= Sum(N, Ids) /\ Sum(M, Ids) \in Int /\ Sum(N, Ids) \in Int
    BY <1>2, <1>3, SumMonotone, SumType
  <2> QED BY <1>4, <2>1
<1> QED BY <1>5, <1>6 DEF GoodUsage, Wants

LEMMA GoodSnapshotKept ==
  ASSUME TypeOK, TypeOK', NEW s \in Snapshots, NEW i \in Ids, NEW h \in Windows,
         \A j \in Ids : Steady(j),
         \A w \in Windows : win[w].init \subseteq win'[w].init,
         \A w \in Windows : \A f \in Fields \ win[w].init : \A j \in Ids : Eases(w, f, j),
         GoodSnapshot(s, i, h)
  PROVE  GoodSnapshot(s, i, h)'
<1>1. ASSUME NEW j \in DOMAIN s.live
      PROVE  /\ s.live[j].attempt \in 1..row'[j].attempt
             /\ s.live[j].attempt = row'[j].attempt => s.live[j].hour = row'[j].hour
  <2>1. s.live \in LiveRows
    BY DEF Snapshots
  <2>2. j \in Ids
    BY <2>1, LiveRowsType
  <2>3. /\ row[j].attempt \in 0..MaxAttempt /\ row'[j].attempt \in 0..MaxAttempt
        /\ MaxAttempt \in Nat
    BY <2>2, BudgetAssumption DEF TypeOK, RowRecords
  <2>4. /\ s.live[j].attempt \in 1..row[j].attempt
        /\ s.live[j].attempt = row[j].attempt => s.live[j].hour = row[j].hour
    BY DEF GoodSnapshot
  <2>5. Steady(j)
    BY <2>2
  <2> QED BY <2>3, <2>4, <2>5 DEF Steady
<1>2. ASSUME NEW w \in WindowsAt(h), NEW f \in FieldsOf[i] \ win'[w].init
      PROVE  GoodUsage(s, w, f)'
  <2>1. w \in Windows /\ f \in Fields \ win[w].init
    BY BudgetAssumption DEF WindowsAt, Windows
  <2>2. GoodUsage(s, w, f)
    BY <2>1 DEF GoodSnapshot
  <2>3. \A j \in Ids : Eases(w, f, j)
    BY <2>1
  <2> QED BY <2>1, <2>2, <2>3, GoodUsageKept
<1> QED BY <1>1, <1>2 DEF GoodSnapshot

LEMMA SnapshotKept ==
  ASSUME TypeOK, TypeOK', NEW d \in Callers, SnapshotOf(d), CallOf(d), call'[d] = call[d],
         \A j \in Ids : Steady(j),
         \A w \in Windows : win[w].init \subseteq win'[w].init,
         \A w \in Windows : \A f \in Fields \ win[w].init : \A j \in Ids : Eases(w, f, j)
  PROVE  SnapshotOf(d)'
<1> SUFFICES ASSUME call[d].pc = "initialize"
             PROVE  GoodSnapshot(call[d].snap, call[d].id, call[d].hour)'
  BY DEF SnapshotOf
<1>1. /\ call[d].snap \in Snapshots /\ call[d].id \in Ids /\ call[d].hour \in Windows
      /\ GoodSnapshot(call[d].snap, call[d].id, call[d].hour)
  BY CallType DEF CallOf, Holding, SnapshotOf, Snapshots
<1>2. ASSUME NEW s \in Snapshots, NEW i \in Ids, NEW h \in Windows, GoodSnapshot(s, i, h)
      PROVE  GoodSnapshot(s, i, h)'
  BY <1>2, GoodSnapshotKept
<1> QED BY <1>1, <1>2

LEMMA CalmTerm ==
  ASSUME TypeOK, TypeOK', NEW i \in Ids, NEW w \in Windows, NEW f \in Fields,
         Steady(i), Eases(w, f, i), Marks(w, f, i)' = Marks(w, f, i)
  PROVE  Term(w, f, i)' <= Term(w, f, i)
<1> DEFINE M == Marks(w, f, i)
           t == AmountOf[i] * Cardinality(M)
<1>1. t \in Nat
  BY MarksFinite, Amounts, Times
<1>2. Due(w, f, i)' <= Due(w, f, i) /\ Due(w, f, i) \in Nat /\ Due(w, f, i)' \in Nat
  BY EasesDue, MeasuredNow, MeasuredNext DEF Measured
<1>3. row'[i].attempt # row[i].attempt => Due(w, f, i)' = 0
  BY DEF Due, Eases, Wants
<1>4. Term(w, f, i) = t + (IF row[i].attempt \in M THEN 0 ELSE Due(w, f, i))
  BY DEF Term
<1>5. Term(w, f, i)' = t + (IF row'[i].attempt \in M THEN 0 ELSE Due(w, f, i)')
  BY DEF Term
<1> HIDE DEF t, M
<1> QED BY <1>1, <1>2, <1>3, <1>4, <1>5

LEMMA CalmLoad ==
  ASSUME TypeOK, TypeOK', NEW w \in Windows, NEW f \in Fields,
         \A i \in Ids : Term(w, f, i)' <= Term(w, f, i)
  PROVE  Load(w, f)' <= Load(w, f)
<1> DEFINE T == [i \in Ids |-> Term(w, f, i)]
           U == [i \in Ids |-> Term(w, f, i)']
<1>1. \A i \in Ids : U[i] \in Int /\ T[i] \in Int /\ U[i] <= T[i]
  <2>1. \A i \in Ids : Term(w, f, i) \in Nat /\ Term(w, f, i)' \in Nat
    BY Zenon, MeasuredNow, MeasuredNext DEF Measured
  <2> QED BY <2>1
<1>2. Load(w, f) = Sum(T, Ids) /\ Load(w, f)' = Sum(U, Ids)
  BY Zenon DEF Load
<1> HIDE DEF T, U
<1> QED BY <1>1, <1>2, SumMonotone, BudgetAssumption

LEMMA CalmSpent ==
  ASSUME TypeOK, TypeOK', NEW w \in Windows, NEW f \in Fields,
         \A i \in Ids : Due(w, f, i)' <= Due(w, f, i), Spent(w, f) <= LimitOf(w, f)
  PROVE  Spent(w, f)' <= LimitOf(w, f)
<1> DEFINE D == [i \in Ids |-> Due(w, f, i)]
           E == [i \in Ids |-> Due(w, f, i)']
<1>1. \A i \in Ids : E[i] \in Int /\ D[i] \in Int /\ E[i] <= D[i]
  <2>1. \A i \in Ids : Due(w, f, i) \in Nat /\ Due(w, f, i)' \in Nat
    BY Zenon, MeasuredNow, MeasuredNext DEF Measured
  <2> QED BY <2>1
<1>2. Spent(w, f) = Sum(D, Ids) /\ Spent(w, f)' = Sum(E, Ids)
  BY Zenon, MeasuredNow, MeasuredNext DEF Measured
<1>3. LimitOf(w, f) \in Nat
  BY BudgetAssumption DEF LimitOf
<1> HIDE DEF D, E
<1>4. Spent(w, f)' <= Spent(w, f) /\ Spent(w, f)' \in Int /\ Spent(w, f) \in Int
  BY <1>1, <1>2, SumMonotone, SumType, BudgetAssumption
<1> QED BY <1>3, <1>4

LEMMA CalmBudget ==
  ASSUME TypeOK, TypeOK', WithinBudget, \A i \in Ids : Calm(i)
  PROVE  WithinBudget'
<1> SUFFICES ASSUME NEW w \in Windows, NEW f \in Fields PROVE Spent(w, f)' <= LimitOf(w, f)
  BY DEF WithinBudget, LimitOf
<1>1. \A i \in Ids : Due(w, f, i)' <= Due(w, f, i)
  BY CalmEases, EasesDue
<1> QED BY <1>1, CalmSpent DEF WithinBudget

LEMMA CalmCounters ==
  ASSUME TypeOK, TypeOK', Counters, \A i \in Ids : Calm(i), win' = win
  PROVE  Counters'
<1> SUFFICES ASSUME NEW w \in Windows, NEW f \in win[w].init
             PROVE  Load(w, f)' <= win[w].used[f]
  BY DEF Counters
<1>1. f \in Fields /\ win[w].used[f] \in Nat
  BY HashType
<1>2. ASSUME NEW i \in Ids PROVE Term(w, f, i)' <= Term(w, f, i)
  <2>1. Marks(w, f, i)' = Marks(w, f, i)
    BY DEF Marks
  <2>2. Steady(i) /\ Eases(w, f, i)
    BY CalmEases DEF Calm
  <2> QED BY <1>1, <2>1, <2>2, CalmTerm
<1>3. Load(w, f)' <= Load(w, f)
  BY <1>1, <1>2, CalmLoad
<1>4. Load(w, f) <= win[w].used[f]
  BY DEF Counters
<1>5. Load(w, f) \in Int /\ Load(w, f)' \in Int
  BY <1>1, MeasuredNow, MeasuredNext DEF Measured
<1> QED BY <1>1, <1>3, <1>4, <1>5

(* A step that does not touch Redis. *)
LEMMA QuietStep ==
  ASSUME BudgetInv, TypeOK', Rows', OneHolder', win' = win, key' = key,
         \A i \in Ids : Calm(i),
         \A d \in Callers : \/ /\ call'[d] = call[d]
                               /\ call[d].pc \in Holding => Kept(call[d].id)
                            \/ CallOf(d)' /\ SnapshotOf(d)',
         \A k \in Jobs : job'[k] = job[k] \/ JobOf(k)'
  PROVE  BudgetInv'
<1>1. /\ TypeOK /\ Counters /\ WithinBudget
      /\ \A c \in Callers : CallOf(c) /\ SnapshotOf(c)
      /\ \A k \in Jobs : JobOf(k)
      /\ \A i \in Ids, a \in Attempts : KeyOf(i, a)
      /\ \A w \in Windows : MarkersOf(w)
  BY DEF BudgetInv
<1>2. \A i \in Ids : Steady(i)
  BY DEF Calm
<1>3. Counters' /\ WithinBudget'
  BY <1>1, CalmCounters, CalmBudget
<1>4. ASSUME NEW d \in Callers PROVE CallOf(d)' /\ SnapshotOf(d)'
  <2>1. CASE /\ call'[d] = call[d]
             /\ call[d].pc \in Holding => Kept(call[d].id)
    <3>1. CallOf(d)'
      BY <1>1, <1>2, <2>1, CallKept
    <3>2. \A w \in Windows : win[w].init \subseteq win'[w].init
      OBVIOUS
    <3>3. \A w \in Windows : \A f \in Fields \ win[w].init : \A j \in Ids : Eases(w, f, j)
      BY CalmEases
    <3>4. SnapshotOf(d)'
      BY <1>1, <1>2, <2>1, <3>2, <3>3, SnapshotKept
    <3> QED BY <3>1, <3>4
  <2> QED BY <2>1
<1>5. \A k \in Jobs : JobOf(k)'
  BY <1>1, <1>2, JobKept
<1>6. \A i \in Ids, a \in Attempts : KeyOf(i, a)'
  BY <1>1, <1>2, KeyKept
<1>7. \A w \in Windows : MarkersOf(w)'
  BY <1>1 DEF MarkersOf
<1> QED BY <1>3, <1>4, <1>5, <1>6, <1>7 DEF BudgetInv

-----------------------------------------------------------------------------
(* Steps that do not touch Redis *)

LEMMA Holder ==
  ASSUME BudgetInv, NEW c \in Callers, call[c].pc \in Holding
  PROVE  LET x == call[c] IN
         /\ x.id \in Ids /\ x.attempt \in Attempts /\ x.hour \in Hours
         /\ row[x.id].attempt = x.attempt /\ row[x.id].hour = x.hour
         /\ row[x.id].status \in {"reserved", "charged_unknown"}
         /\ x.pc # "provider" => ~row[x.id].admitted
BY DEF BudgetInv, CallOf, Rows

LEMMA RowWritten ==
  ASSUME TypeOK, NEW i \in Ids, NEW r \in RowRecords, row' = [row EXCEPT ![i] = r]
  PROVE  /\ row' \in [Ids -> RowRecords] /\ row'[i] = r
         /\ \A j \in Ids : j # i => row'[j] = row[j]
BY DEF TypeOK

LEMMA CallSet ==
  ASSUME TypeOK, NEW c \in Callers, NEW x \in CallRecords, call' = [call EXCEPT ![c] = x]
  PROVE  /\ call' \in [Callers -> CallRecords] /\ call'[c] = x
         /\ \A d \in Callers : d # c => call'[d] = call[d]
BY DEF TypeOK

LEMMA JobSet ==
  ASSUME TypeOK, NEW k \in Jobs, NEW x \in JobRecords, job' = [job EXCEPT ![k] = x]
  PROVE  /\ job' \in [Jobs -> JobRecords] /\ job'[k] = x
         /\ \A m \in Jobs : m # k => job'[m] = job[m]
BY DEF TypeOK

Pcs ==
  {"idle", "snapshot", "initialize", "reserve", "unreserve", "provider", "refund", "unmark"}

LEMMA GotoSet ==
  ASSUME TypeOK, NEW c \in Callers, NEW p \in Pcs, Goto(c, p)
  PROVE  /\ call' \in [Callers -> CallRecords]
         /\ call'[c].pc = p /\ call'[c].id = call[c].id
         /\ call'[c].attempt = call[c].attempt /\ call'[c].hour = call[c].hour
         /\ \A d \in Callers : d # c => call'[d] = call[d]
BY DEF TypeOK, Goto, CallRecords, Pcs

LEMMA ReturnSet ==
  ASSUME TypeOK, NEW c \in Callers, Return(c)
  PROVE  /\ call' \in [Callers -> CallRecords] /\ call'[c].pc = "idle"
         /\ \A d \in Callers : d # c => call'[d] = call[d]
BY CallSet, IdleType DEF Return

LEMMA IdleCallOf ==
  ASSUME NEW c \in Callers, call'[c].pc = "idle"
  PROVE  CallOf(c)'
BY DEF CallOf, Holding

LEMMA NoSnapshotOf ==
  ASSUME NEW c \in Callers, call'[c].pc # "initialize"
  PROVE  SnapshotOf(c)'
BY DEF SnapshotOf

LEMMA OneHolderKept ==
  ASSUME OneHolder, NEW c \in Callers,
         \A d \in Callers : d # c => call'[d] = call[d],
         call'[c].pc \in Holding => call[c].pc \in Holding /\ call'[c].id = call[c].id
  PROVE  OneHolder'
<1> SUFFICES ASSUME NEW d \in Callers, NEW e \in Callers, d # e,
                    call'[d].pc \in Holding, call'[e].pc \in Holding
             PROVE  call'[d].id # call'[e].id
  BY Zenon DEF OneHolder, Holding
<1>1. /\ call[d].pc \in Holding /\ call'[d].id = call[d].id
      /\ call[e].pc \in Holding /\ call'[e].id = call[e].id
  OBVIOUS
<1> QED BY <1>1 DEF OneHolder

(* A row that is settled, sent, charged or given back. *)
LEMMA CalmRow ==
  ASSUME TypeOK, TypeOK', NEW i \in Ids,
         row'[i].attempt = row[i].attempt, row'[i].hour = row[i].hour,
         row'[i].admitted = row[i].admitted,
         \/ row'[i].status = row[i].status /\ row'[i].actual = row[i].actual
         \/ row[i].status \in {"reserved", "sent"}
  PROVE  Calm(i)
<1>1. /\ Allowed(i) \in Nat /\ Allowed(i)' \in Nat /\ Allowed(i)' <= AmountOf[i]
      /\ AmountOf[i] \in Nat /\ row[i].attempt \in Int
  BY MeasuredNow, MeasuredNext, BudgetAssumption, RowType DEF Measured
<1>2. Steady(i)
  BY <1>1 DEF Steady
<1>3. CASE row'[i].status = row[i].status /\ row'[i].actual = row[i].actual
  <2>1. Allowed(i)' = Allowed(i) /\ Spending(i)' = Spending(i)
    BY <1>3 DEF Allowed, Cost, Spending, Charged
  <2> QED BY <1>1, <1>2, <2>1 DEF Calm
<1>4. CASE row[i].status \in {"reserved", "sent"}
  <2>1. Allowed(i) = AmountOf[i]
    BY <1>1, <1>4 DEF Allowed, Cost
  <2>2. Spending(i)' => Spending(i)
    BY <1>4 DEF Spending, Charged
  <2> QED BY <1>1, <1>2, <2>1, <2>2 DEF Calm
<1> QED BY <1>3, <1>4

LEMMA RowsKept ==
  ASSUME Rows,
         \A i \in Ids : \/ row'[i] = row[i]
                        \/ /\ row[i].status # "absent"
                           /\ row'[i].attempt = row[i].attempt /\ row'[i].hour = row[i].hour
  PROVE  Rows'
BY DEF Rows

(* A request that keeps to itself. *)
LEMMA CallerQuiet ==
  ASSUME BudgetInv, TypeOK', Rows', win' = win, key' = key, job' = job, NEW c \in Callers,
         \A i \in Ids : Calm(i),
         \A d \in Callers : d # c =>
           call'[d] = call[d] /\ (call[d].pc \in Holding => Kept(call[d].id)),
         call'[c].pc \in Holding => call[c].pc \in Holding /\ call'[c].id = call[c].id,
         CallOf(c)', SnapshotOf(c)'
  PROVE  BudgetInv'
<1>1. OneHolder'
  BY OneHolderKept DEF BudgetInv
<1>2. \A d \in Callers : \/ /\ call'[d] = call[d]
                            /\ call[d].pc \in Holding => Kept(call[d].id)
                         \/ CallOf(d)' /\ SnapshotOf(d)'
  OBVIOUS
<1>3. \A k \in Jobs : job'[k] = job[k] \/ JobOf(k)'
  OBVIOUS
<1> QED BY <1>1, <1>2, <1>3, QuietStep

(* The same, of a request that only changes its own progress ... *)
LEMMA CallerMoves ==
  ASSUME BudgetInv, row' = row, win' = win, key' = key, job' = job, NEW c \in Callers,
         call' \in [Callers -> CallRecords],
         \A d \in Callers : d # c => call'[d] = call[d],
         call'[c].pc \in Holding => call[c].pc \in Holding /\ call'[c].id = call[c].id,
         CallOf(c)', SnapshotOf(c)'
  PROVE  BudgetInv'
<1>1. TypeOK /\ Rows
  BY DEF BudgetInv
<1>2. TypeOK'
  BY <1>1 DEF TypeOK
<1>3. Rows'
  BY <1>1 DEF Rows
<1>4. \A i \in Ids : Calm(i) /\ Kept(i)
  BY <1>1, SameRow
<1>5. \A d \in Callers : d # c =>
        call'[d] = call[d] /\ (call[d].pc \in Holding => Kept(call[d].id))
  BY <1>4, Holder
<1>6. \A i \in Ids : Calm(i)
  BY <1>4
<1> QED BY <1>2, <1>3, <1>5, <1>6, CallerQuiet

(* ... and of one that changes its reservation too, and lets go of it. *)
LEMMA CallerWrites ==
  ASSUME BudgetInv, win' = win, key' = key, job' = job, NEW c \in Callers,
         call[c].pc \in Holding, row[call[c].id].status = "reserved",
         NEW r \in RowRecords, row' = [row EXCEPT ![call[c].id] = r],
         r.attempt = row[call[c].id].attempt, r.hour = row[call[c].id].hour,
         r.admitted = row[call[c].id].admitted,
         call' \in [Callers -> CallRecords],
         \A d \in Callers : d # c => call'[d] = call[d],
         call'[c].pc \notin Holding, CallOf(c)'
  PROVE  BudgetInv'
<1> DEFINE i == call[c].id
<1>1. TypeOK /\ Rows /\ OneHolder /\ i \in Ids
  BY Holder DEF BudgetInv
<1>2. /\ row' \in [Ids -> RowRecords] /\ row'[i] = r
      /\ \A j \in Ids : j # i => row'[j] = row[j]
  BY <1>1, RowWritten
<1>3. TypeOK'
  BY <1>1, <1>2 DEF TypeOK
<1>4. Rows'
  <2>1. \A j \in Ids : \/ row'[j] = row[j]
                       \/ /\ row[j].status # "absent"
                          /\ row'[j].attempt = row[j].attempt /\ row'[j].hour = row[j].hour
    BY <1>2
  <2> QED BY <1>1, <2>1, RowsKept
<1>5. \A j \in Ids : Calm(j)
  <2>1. Calm(i)
    BY <1>1, <1>2, <1>3, CalmRow
  <2> QED BY <1>1, <1>2, <2>1, SameRow
<1>6. \A d \in Callers : d # c =>
        call'[d] = call[d] /\ (call[d].pc \in Holding => Kept(call[d].id))
  <2> SUFFICES ASSUME NEW d \in Callers, d # c, call[d].pc \in Holding
               PROVE  Kept(call[d].id)
    OBVIOUS
  <2>1. call[d].id \in Ids /\ call[d].id # i
    BY <1>1, Holder DEF OneHolder
  <2> QED BY <1>1, <1>2, <2>1, SameRow
<1>7. SnapshotOf(c)'
  BY NoSnapshotOf DEF Holding
<1> HIDE DEF i
<1> QED BY <1>3, <1>4, <1>5, <1>6, <1>7, CallerQuiet

LEMMA CrashStep ==
  ASSUME BudgetInv, NEW c \in Callers, Crash(c)
  PROVE  BudgetInv'
<1>1. Return(c) /\ row' = row /\ win' = win /\ key' = key /\ job' = job
  BY DEF Crash
<1>2. TypeOK
  BY DEF BudgetInv
<1>3. /\ call' \in [Callers -> CallRecords] /\ call'[c].pc = "idle"
      /\ \A d \in Callers : d # c => call'[d] = call[d]
  BY <1>1, <1>2, ReturnSet
<1>4. CallOf(c)' /\ SnapshotOf(c)'
  BY <1>3, IdleCallOf, NoSnapshotOf
<1>5. "idle" \notin Holding
  BY DEF Holding
<1> QED BY <1>1, <1>3, <1>4, <1>5, CallerMoves

(* A request that has not been let through goes on or back. *)
LEMMA HolderGoes ==
  ASSUME BudgetInv, NEW c \in Callers, call[c].pc \in Holding \ {"provider"},
         call' \in [Callers -> CallRecords],
         \A d \in Callers : d # c => call'[d] = call[d],
         call'[c].pc \in Holding \ {"provider"}, call'[c].id = call[c].id,
         call'[c].attempt = call[c].attempt, call'[c].hour = call[c].hour,
         row' = row, win' = win, key' = key, job' = job, SnapshotOf(c)'
  PROVE  BudgetInv'
<1>1. CallOf(c)'
  BY Holder DEF CallOf, Holding
<1> QED BY <1>1, CallerMoves

LEMMA StalePolicyStep ==
  ASSUME BudgetInv, NEW c \in Callers, StalePolicy(c)
  PROVE  BudgetInv'
<1>1. call[c].pc = "reserve" /\ row' = row /\ win' = win /\ key' = key /\ job' = job
  BY DEF StalePolicy
<1>2. TypeOK
  BY DEF BudgetInv
<1>3. /\ call' \in [Callers -> CallRecords]
      /\ call'[c].pc \in {"snapshot", "unreserve"} /\ call'[c].id = call[c].id
      /\ call'[c].attempt = call[c].attempt /\ call'[c].hour = call[c].hour
      /\ \A d \in Callers : d # c => call'[d] = call[d]
  <2>1. CASE call[c].round = 1
    <3> DEFINE x == [call[c] EXCEPT !.pc = "snapshot", !.round = 2]
    <3>1. call' = [call EXCEPT ![c] = x]
      BY <2>1 DEF StalePolicy
    <3>2. /\ x \in CallRecords /\ x.pc = "snapshot" /\ x.id = call[c].id
          /\ x.attempt = call[c].attempt /\ x.hour = call[c].hour
      BY <1>2, CallType DEF CallRecords
    <3> HIDE DEF x
    <3> QED BY <1>2, <3>1, <3>2, CallSet
  <2>2. CASE call[c].round # 1
    BY <1>2, <2>2, GotoSet DEF StalePolicy, Pcs
  <2> QED BY <2>1, <2>2
<1>4. SnapshotOf(c)'
  BY <1>3, NoSnapshotOf
<1>5. {"reserve", "snapshot", "unreserve"} \subseteq Holding \ {"provider"}
  BY DEF Holding
<1> QED BY <1>1, <1>3, <1>4, <1>5, HolderGoes

LEMMA RefuseStep ==
  ASSUME BudgetInv, NEW c \in Callers, Refuse(c)
  PROVE  BudgetInv'
<1>1. /\ call[c].pc = "reserve" /\ row' = row /\ win' = win /\ key' = key /\ job' = job
      /\ Goto(c, "unreserve")
  BY Zenon DEF Refuse
<1>2. TypeOK
  BY DEF BudgetInv
<1>3. /\ call' \in [Callers -> CallRecords]
      /\ call'[c].pc = "unreserve" /\ call'[c].id = call[c].id
      /\ call'[c].attempt = call[c].attempt /\ call'[c].hour = call[c].hour
      /\ \A d \in Callers : d # c => call'[d] = call[d]
  BY <1>1, <1>2, GotoSet DEF Pcs
<1>4. SnapshotOf(c)'
  BY <1>3, NoSnapshotOf
<1>5. {"reserve", "unreserve"} \subseteq Holding \ {"provider"}
  BY DEF Holding
<1> QED BY <1>1, <1>3, <1>4, <1>5, HolderGoes

LEMMA UnreserveStep ==
  ASSUME BudgetInv, NEW c \in Callers, Unreserve(c)
  PROVE  BudgetInv'
<1>1. /\ call[c].pc = "unreserve" /\ win' = win /\ key' = key /\ job' = job
      /\ Goto(c, "unmark")
      /\ IF Owns(call[c], {"reserved"})
         THEN row' = [row EXCEPT ![call[c].id] = [row[call[c].id] EXCEPT !.status = "released"]]
         ELSE row' = row
  BY Zenon DEF Unreserve, Write
<1>2. TypeOK
  BY DEF BudgetInv
<1>3. /\ call' \in [Callers -> CallRecords]
      /\ call'[c].pc = "unmark" /\ call'[c].id = call[c].id
      /\ \A d \in Callers : d # c => call'[d] = call[d]
  BY <1>1, <1>2, GotoSet DEF Pcs
<1>4. call[c].pc \in Holding /\ call'[c].pc \notin Holding
  BY <1>1, <1>3 DEF Holding
<1>5. call[c].id \in Ids /\ row[call[c].id] \in RowRecords
  BY <1>2, <1>4, Holder, RowType
<1>6. CallOf(c)' /\ SnapshotOf(c)'
  BY <1>3, <1>4, <1>5 DEF CallOf, SnapshotOf
<1>7. CASE Owns(call[c], {"reserved"})
  <2> DEFINE r == [row[call[c].id] EXCEPT !.status = "released"]
  <2>1. /\ r \in RowRecords /\ r.attempt = row[call[c].id].attempt
        /\ r.hour = row[call[c].id].hour /\ r.admitted = row[call[c].id].admitted
    BY <1>5 DEF RowRecords
  <2>2. row[call[c].id].status = "reserved" /\ row' = [row EXCEPT ![call[c].id] = r]
    BY <1>1, <1>7 DEF Owns
  <2> HIDE DEF r
  <2> QED BY <1>1, <1>3, <1>4, <1>6, <2>1, <2>2, CallerWrites
<1>8. CASE ~Owns(call[c], {"reserved"})
  BY <1>1, <1>3, <1>4, <1>6, <1>8, CallerMoves
<1> QED BY <1>7, <1>8

LEMMA KeepStep ==
  ASSUME BudgetInv, NEW c \in Callers, Keep(c)
  PROVE  BudgetInv'
<1>1. /\ call[c].pc = "provider" /\ win' = win /\ key' = key /\ job' = job
      /\ Return(c)
      /\ \/ row' = row
         \/ /\ Owns(call[c], {"reserved"})
            /\ \E s \in {"sent", "charged_unknown"} :
                 row' = [row EXCEPT ![call[c].id] = [row[call[c].id] EXCEPT !.status = s]]
  BY Zenon DEF Keep, Write
<1>2. TypeOK
  BY DEF BudgetInv
<1>3. /\ call' \in [Callers -> CallRecords] /\ call'[c].pc = "idle"
      /\ \A d \in Callers : d # c => call'[d] = call[d]
  BY <1>1, <1>2, ReturnSet
<1>4. call[c].pc \in Holding /\ call'[c].pc \notin Holding
  BY <1>1, <1>3 DEF Holding
<1>5. call[c].id \in Ids /\ row[call[c].id] \in RowRecords
  BY <1>2, <1>4, Holder, RowType
<1>6. CallOf(c)' /\ SnapshotOf(c)'
  BY <1>3, IdleCallOf, NoSnapshotOf
<1>7. ASSUME NEW s \in {"sent", "charged_unknown"}, Owns(call[c], {"reserved"}),
             row' = [row EXCEPT ![call[c].id] = [row[call[c].id] EXCEPT !.status = s]]
      PROVE  BudgetInv'
  <2> DEFINE r == [row[call[c].id] EXCEPT !.status = s]
  <2>1. /\ r \in RowRecords /\ r.attempt = row[call[c].id].attempt
        /\ r.hour = row[call[c].id].hour /\ r.admitted = row[call[c].id].admitted
    BY <1>5 DEF RowRecords
  <2>2. row[call[c].id].status = "reserved" /\ row' = [row EXCEPT ![call[c].id] = r]
    BY <1>7 DEF Owns
  <2> HIDE DEF r
  <2> QED BY <1>1, <1>3, <1>4, <1>6, <2>1, <2>2, CallerWrites
<1>8. CASE row' = row
  BY <1>1, <1>3, <1>4, <1>6, <1>8, CallerMoves
<1> QED BY Zenon, <1>1, <1>7, <1>8

LEMMA ReleaseStep ==
  ASSUME BudgetInv, NEW c \in Callers, Release(c)
  PROVE  BudgetInv'
<1> DEFINE r == [row[call[c].id] EXCEPT !.status = "released"]
<1>1. /\ call[c].pc = "provider" /\ win' = win /\ key' = key /\ job' = job
      /\ Goto(c, "refund") /\ Owns(call[c], {"reserved"})
      /\ row' = [row EXCEPT ![call[c].id] = r]
  BY Zenon DEF Release, Write
<1>2. TypeOK
  BY DEF BudgetInv
<1>3. /\ call' \in [Callers -> CallRecords]
      /\ call'[c].pc = "refund" /\ call'[c].id = call[c].id
      /\ call'[c].attempt = call[c].attempt
      /\ \A d \in Callers : d # c => call'[d] = call[d]
  BY <1>1, <1>2, GotoSet DEF Pcs
<1>4. call[c].pc \in Holding /\ call'[c].pc \notin Holding
  BY <1>1, <1>3 DEF Holding
<1>5. /\ call[c].id \in Ids /\ row[call[c].id] \in RowRecords
      /\ row[call[c].id].attempt = call[c].attempt /\ call[c].attempt \in Attempts
  BY <1>2, <1>4, Holder, RowType
<1>6. /\ r \in RowRecords /\ r.attempt = row[call[c].id].attempt /\ r.status = "released"
      /\ r.hour = row[call[c].id].hour /\ r.admitted = row[call[c].id].admitted
  BY <1>5 DEF RowRecords
<1>7. row[call[c].id].status = "reserved"
  BY <1>1 DEF Owns
<1> HIDE DEF r
<1>8. row'[call[c].id] = r
  BY <1>1, <1>2, <1>5, <1>6, RowWritten
<1>9. Final(call[c].id, call[c].attempt, 0)'
  BY <1>3, <1>5, <1>6, <1>8, BudgetAssumption DEF Final, Attempts
<1>10. CallOf(c)'
  BY <1>3, <1>4, <1>5, <1>9 DEF CallOf
<1> QED BY <1>1, <1>3, <1>4, <1>6, <1>7, <1>10, CallerWrites

(* A step that may settle or charge a row that nobody works on. *)
LEMMA RowOnly ==
  ASSUME BudgetInv, win' = win, key' = key, NEW i \in Ids, NEW r \in RowRecords,
         row' = [row EXCEPT ![i] = r],
         row[i].status # "absent", r.attempt = row[i].attempt, r.hour = row[i].hour,
         r.admitted = row[i].admitted,
         \/ r.status = row[i].status /\ r.actual = row[i].actual
         \/ row[i].status = "sent"
         \/ row[i].status = "reserved" /\ r.status = "charged_unknown"
  PROVE  /\ row' \in [Ids -> RowRecords] /\ row'[i] = r /\ Rows'
         /\ TypeOK' => \A j \in Ids : Calm(j)
         /\ \A d \in Callers : call[d].pc \in Holding => Kept(call[d].id)
<1>1. TypeOK /\ Rows
  BY DEF BudgetInv
<1>2. /\ row' \in [Ids -> RowRecords] /\ row'[i] = r
      /\ \A j \in Ids : j # i => row'[j] = row[j]
  BY <1>1, RowWritten
<1>3. Rows'
  <2>1. \A j \in Ids : \/ row'[j] = row[j]
                       \/ /\ row[j].status # "absent"
                          /\ row'[j].attempt = row[j].attempt /\ row'[j].hour = row[j].hour
    BY <1>2
  <2> QED BY <1>1, <2>1, RowsKept
<1>4. TypeOK' => \A j \in Ids : Calm(j)
  <2> SUFFICES ASSUME TypeOK' PROVE \A j \in Ids : Calm(j)
    OBVIOUS
  <2>1. Calm(i)
    BY <1>1, <1>2, CalmRow
  <2> QED BY <1>1, <1>2, <2>1, SameRow
<1>5. ASSUME NEW d \in Callers, call[d].pc \in Holding PROVE Kept(call[d].id)
  <2>1. call[d].id \in Ids /\ row[call[d].id].status \in {"reserved", "charged_unknown"}
    BY <1>5, Holder
  <2>2. CASE call[d].id # i
    BY <1>1, <1>2, <2>1, <2>2, SameRow
  <2>3. CASE call[d].id = i
    BY <1>2, <2>1, <2>3 DEF Kept
  <2> QED BY <2>2, <2>3
<1> QED BY <1>2, <1>3, <1>4, <1>5

LEMMA MarkRedisSettledStep ==
  ASSUME BudgetInv, NEW c \in Callers, MarkRedisSettled(c)
  PROVE  BudgetInv'
<1> DEFINE i == call[c].id
           r == [row[i] EXCEPT !.settled = TRUE]
<1>1. /\ call[c].pc = "unmark" /\ win' = win /\ key' = key /\ job' = job /\ Return(c)
      /\ IF Owns(call[c], {"committed", "released"})
         THEN row' = [row EXCEPT ![i] = r] ELSE row' = row
  BY Zenon DEF MarkRedisSettled, Write
<1>2. TypeOK /\ CallOf(c)
  BY DEF BudgetInv
<1>3. i \in Ids /\ row[i] \in RowRecords
  BY <1>1, <1>2, RowType DEF CallOf
<1>4. /\ call' \in [Callers -> CallRecords] /\ call'[c].pc = "idle"
      /\ \A d \in Callers : d # c => call'[d] = call[d]
  BY <1>1, <1>2, ReturnSet
<1>5. call'[c].pc \notin Holding
  BY <1>4 DEF Holding
<1>6. CallOf(c)' /\ SnapshotOf(c)'
  BY <1>4, IdleCallOf, NoSnapshotOf
<1>7. CASE Owns(call[c], {"committed", "released"})
  <2>1. /\ r \in RowRecords /\ r.attempt = row[i].attempt /\ r.hour = row[i].hour
        /\ r.admitted = row[i].admitted /\ r.status = row[i].status /\ r.actual = row[i].actual
    BY <1>3 DEF RowRecords
  <2>2. row' = [row EXCEPT ![i] = r] /\ row[i].status # "absent"
    BY <1>1, <1>7 DEF Owns
  <2> HIDE DEF r
  <2>3. /\ row' \in [Ids -> RowRecords] /\ Rows'
        /\ TypeOK' => \A j \in Ids : Calm(j)
        /\ \A d \in Callers : call[d].pc \in Holding => Kept(call[d].id)
    BY <1>1, <1>3, <2>1, <2>2, RowOnly
  <2>4. TypeOK'
    BY <1>1, <1>2, <1>4, <2>3 DEF TypeOK
  <2> QED BY <1>1, <1>4, <1>5, <1>6, <2>3, <2>4, CallerQuiet
<1>8. CASE ~Owns(call[c], {"committed", "released"})
  BY <1>1, <1>4, <1>5, <1>6, <1>8, CallerMoves
<1> QED BY <1>7, <1>8

LEMMA PersistAmbiguousChargeStep ==
  ASSUME BudgetInv, NEW i \in Ids, PersistAmbiguousCharge(i)
  PROVE  BudgetInv'
<1> DEFINE r == [row[i] EXCEPT !.status = "charged_unknown"]
<1>1. /\ win' = win /\ key' = key /\ call' = call /\ job' = job
      /\ row' = [row EXCEPT ![i] = r] /\ row[i].status \in {"reserved", "sent"}
  BY Zenon DEF PersistAmbiguousCharge, Write, Live
<1>2. TypeOK /\ OneHolder
  BY DEF BudgetInv
<1>3. /\ r \in RowRecords /\ r.attempt = row[i].attempt /\ r.hour = row[i].hour
      /\ r.admitted = row[i].admitted /\ r.status = "charged_unknown"
  BY <1>2, RowType DEF RowRecords
<1> HIDE DEF r
<1>4. /\ row' \in [Ids -> RowRecords] /\ Rows'
      /\ TypeOK' => \A j \in Ids : Calm(j)
      /\ \A d \in Callers : call[d].pc \in Holding => Kept(call[d].id)
  BY <1>1, <1>3, RowOnly
<1>5. TypeOK' /\ OneHolder'
  BY <1>1, <1>2, <1>4 DEF TypeOK, OneHolder
<1> QED BY <1>1, <1>4, <1>5, QuietStep

(* A pass that does not touch Redis. *)
LEMMA JobQuiet ==
  ASSUME BudgetInv, win' = win, key' = key, call' = call, NEW k \in Jobs, NEW j \in JobRecords,
         job' = [job EXCEPT ![k] = j], JobOf(k)',
         row' \in [Ids -> RowRecords], Rows', TypeOK' => \A i \in Ids : Calm(i),
         \A d \in Callers : call[d].pc \in Holding => Kept(call[d].id)
  PROVE  BudgetInv'
<1>1. TypeOK /\ OneHolder
  BY DEF BudgetInv
<1>2. job' \in [Jobs -> JobRecords] /\ \A m \in Jobs : m # k => job'[m] = job[m]
  BY <1>1, JobSet
<1>3. TypeOK' /\ OneHolder'
  BY <1>1, <1>2 DEF TypeOK, OneHolder
<1>4. \A m \in Jobs : job'[m] = job[m] \/ JobOf(m)'
  BY <1>2
<1> QED BY <1>3, <1>4, QuietStep

LEMMA RowsAlone ==
  ASSUME BudgetInv, row' = row
  PROVE  /\ row' \in [Ids -> RowRecords] /\ Rows' /\ \A i \in Ids : Calm(i)
         /\ \A d \in Callers : call[d].pc \in Holding => Kept(call[d].id)
<1>1. TypeOK /\ Rows
  BY DEF BudgetInv
<1>2. \A i \in Ids : Calm(i) /\ Kept(i)
  BY <1>1, SameRow
<1> QED BY <1>1, <1>2, Holder DEF TypeOK, Rows

LEMMA JobCrashStep ==
  ASSUME BudgetInv, NEW k \in Jobs, JobCrash(k)
  PROVE  BudgetInv'
<1>1. /\ row' = row /\ win' = win /\ key' = key /\ call' = call
      /\ job' = [job EXCEPT ![k] = JobIdle]
  BY DEF JobCrash
<1>2. job'[k] = JobIdle
  BY <1>1, JobSet, JobIdleType DEF BudgetInv
<1>3. JobOf(k)'
  BY <1>2, JobIdleType DEF JobOf
<1> QED BY <1>1, <1>3, RowsAlone, JobIdleType, JobQuiet

LEMMA JobMarkStep ==
  ASSUME BudgetInv, NEW k \in Jobs, JobMark(k)
  PROVE  BudgetInv'
<1> DEFINE i == job[k].id
           r == [row[i] EXCEPT !.settled = TRUE]
<1>1. /\ job[k].pc = "mark" /\ win' = win /\ key' = key /\ call' = call
      /\ job' = [job EXCEPT ![k] = JobIdle]
      /\ IF Owns(job[k], {"committed", "released"})
         THEN row' = [row EXCEPT ![i] = r] ELSE row' = row
  BY Zenon DEF JobMark, Write
<1>2. TypeOK /\ JobOf(k)
  BY DEF BudgetInv
<1>3. i \in Ids /\ row[i] \in RowRecords
  BY <1>1, <1>2, RowType DEF JobOf
<1>4. job'[k] = JobIdle
  BY <1>1, <1>2, JobSet, JobIdleType
<1>5. JobOf(k)'
  BY <1>4, JobIdleType DEF JobOf
<1>6. CASE Owns(job[k], {"committed", "released"})
  <2>1. /\ r \in RowRecords /\ r.attempt = row[i].attempt /\ r.hour = row[i].hour
        /\ r.admitted = row[i].admitted /\ r.status = row[i].status /\ r.actual = row[i].actual
    BY <1>3 DEF RowRecords
  <2>2. row' = [row EXCEPT ![i] = r] /\ row[i].status # "absent"
    BY <1>1, <1>6 DEF Owns
  <2> HIDE DEF r
  <2>3. /\ row' \in [Ids -> RowRecords] /\ Rows'
        /\ TypeOK' => \A j \in Ids : Calm(j)
        /\ \A d \in Callers : call[d].pc \in Holding => Kept(call[d].id)
    BY <1>1, <1>3, <2>1, <2>2, RowOnly
  <2> QED BY <1>1, <1>5, <2>3, JobIdleType, JobQuiet
<1>7. CASE ~Owns(job[k], {"committed", "released"})
  BY <1>1, <1>5, <1>7, RowsAlone, JobIdleType, JobQuiet
<1> QED BY <1>6, <1>7

LEMMA ListTerminalStep ==
  ASSUME BudgetInv, NEW k \in Jobs, NEW i \in Ids, ListTerminal(k, i)
  PROVE  BudgetInv'
<1> DEFINE x == IF row[i].status = "committed" THEN row[i].actual ELSE 0
           j == Candidate(i, x)
<1>1. /\ row' = row /\ win' = win /\ key' = key /\ call' = call
      /\ row[i].status \in {"committed", "released"} /\ job' = [job EXCEPT ![k] = j]
  BY DEF ListTerminal
<1>2. TypeOK /\ Rows
  BY DEF BudgetInv
<1>3. /\ row[i].attempt \in 0..MaxAttempt /\ row[i].attempt > 0 /\ row[i].hour \in Windows
      /\ x \in Nat
  BY <1>1, <1>2, RowType DEF Rows
<1>4. /\ j \in JobRecords /\ j.pc = "settle" /\ j.id = i /\ j.attempt = row[i].attempt
      /\ j.actual = x
  BY <1>3 DEF Candidate, JobRecords
<1>5. \/ row[i].status = "committed" /\ x = row[i].actual
      \/ row[i].status = "released" /\ x = 0
  BY <1>1
<1> HIDE DEF j, x
<1>6. job'[k] = j
  BY <1>1, <1>2, <1>4, JobSet
<1>7. JobOf(k)'
  BY <1>1, <1>3, <1>4, <1>5, <1>6, BudgetAssumption DEF JobOf, Final
<1> QED BY <1>1, <1>4, <1>7, RowsAlone, JobQuiet

LEMMA CommitStep ==
  ASSUME BudgetInv, NEW k \in Jobs, NEW i \in Ids, NEW x \in Nat, Commit(k, i, x)
  PROVE  BudgetInv'
<1> DEFINE r == [row[i] EXCEPT !.status = "committed", !.actual = x]
           j == Candidate(i, x)
<1>1. /\ win' = win /\ key' = key /\ call' = call /\ row' = [row EXCEPT ![i] = r]
      /\ row[i].status = "sent" /\ job' = [job EXCEPT ![k] = j]
  BY Zenon DEF Commit, Write
<1>2. TypeOK /\ Rows
  BY DEF BudgetInv
<1>3. /\ row[i].attempt \in 0..MaxAttempt /\ row[i].attempt > 0 /\ row[i].hour \in Windows
  BY <1>1, <1>2, RowType DEF Rows
<1>4. /\ j \in JobRecords /\ j.pc = "settle" /\ j.id = i /\ j.attempt = row[i].attempt
      /\ j.actual = x
  BY <1>3 DEF Candidate, JobRecords
<1>5. /\ r \in RowRecords /\ r.attempt = row[i].attempt /\ r.hour = row[i].hour
      /\ r.admitted = row[i].admitted /\ r.status = "committed" /\ r.actual = x
  BY <1>2, RowType DEF RowRecords
<1> HIDE DEF j, r
<1>6. /\ row' \in [Ids -> RowRecords] /\ row'[i] = r /\ Rows'
      /\ TypeOK' => \A m \in Ids : Calm(m)
      /\ \A d \in Callers : call[d].pc \in Holding => Kept(call[d].id)
  BY <1>1, <1>5, RowOnly
<1>7. job'[k] = j
  BY <1>1, <1>2, <1>4, JobSet
<1>8. JobOf(k)'
  BY <1>3, <1>4, <1>5, <1>6, <1>7, BudgetAssumption DEF JobOf, Final
<1> QED BY <1>1, <1>4, <1>6, <1>8, JobQuiet

LEMMA PersistStep ==
  ASSUME BudgetInv, NEW c \in Callers, NEW i \in Ids, NEW h \in Hours, Persist(c, i, h)
  PROVE  BudgetInv'
<1> DEFINE n == row[i].attempt + 1
           r == [Absent EXCEPT !.status = "reserved", !.attempt = n, !.hour = h]
           x == [Idle EXCEPT !.pc = "snapshot", !.id = i, !.hour = h, !.attempt = n]
<1>1. /\ win' = win /\ key' = key /\ job' = job /\ call[c].pc = "idle"
      /\ row[i].status \in {"absent", "released"} /\ row[i].attempt < MaxAttempt
      /\ row' = [row EXCEPT ![i] = r] /\ call' = [call EXCEPT ![c] = x]
  BY DEF Persist, Write
<1>2. TypeOK /\ Rows /\ OneHolder
  BY DEF BudgetInv
<1>3. /\ row[i].attempt \in 0..MaxAttempt /\ MaxAttempt \in Nat /\ n \in 1..MaxAttempt
      /\ n \in 0..MaxAttempt /\ h \in Windows
  BY <1>1, <1>2, RowType, BudgetAssumption DEF Windows
<1>4. /\ r \in RowRecords /\ r.status = "reserved" /\ r.attempt = n /\ r.hour = h
      /\ r.admitted = FALSE
  <2>1. Absent.admitted = FALSE
    BY DEF Absent
  <2> HIDE DEF n
  <2> QED BY <1>3, <2>1, AbsentType DEF RowRecords
<1>5. /\ x \in CallRecords /\ x.pc = "snapshot" /\ x.id = i /\ x.hour = h /\ x.attempt = n
  <2> HIDE DEF n
  <2> QED BY <1>3, IdleType DEF CallRecords
<1>6. n > row[i].attempt /\ n \in Attempts
  BY <1>3 DEF Attempts
<1> HIDE DEF r, x, n
<1>7. /\ row' \in [Ids -> RowRecords] /\ row'[i] = r
      /\ \A j \in Ids : j # i => row'[j] = row[j]
  BY <1>1, <1>2, <1>4, RowWritten
<1>8. /\ call' \in [Callers -> CallRecords] /\ call'[c] = x
      /\ \A d \in Callers : d # c => call'[d] = call[d]
  BY <1>1, <1>2, <1>5, CallSet
<1>9. TypeOK'
  BY <1>1, <1>2, <1>7, <1>8 DEF TypeOK
<1>10. Rows'
  BY <1>2, <1>3, <1>4, <1>7 DEF Rows
<1>11. Calm(i)
  BY <1>3, <1>4, <1>6, <1>7 DEF Calm, Steady, Spending
<1>12. \A j \in Ids : Calm(j)
  BY <1>2, <1>7, <1>11, SameRow
<1>13. ASSUME NEW d \in Callers, call[d].pc \in Holding
       PROVE  call[d].id \in Ids \ {i} /\ Kept(call[d].id)
  <2>1. call[d].id \in Ids \ {i}
    BY <1>1, <1>13, Holder
  <2> QED BY <1>2, <1>7, <2>1, SameRow
<1>14. OneHolder'
  <2> SUFFICES ASSUME NEW d \in Callers, NEW e \in Callers, d # e,
                      call'[d].pc \in Holding, call'[e].pc \in Holding
               PROVE  call'[d].id # call'[e].id
    BY Zenon DEF OneHolder, Holding
  <2> QED BY <1>2, <1>5, <1>8, <1>13 DEF OneHolder
<1>15. CallOf(c)'
  BY <1>4, <1>5, <1>6, <1>7, <1>8 DEF CallOf, Holding
<1>16. SnapshotOf(c)'
  BY <1>5, <1>8, NoSnapshotOf
<1>17. \A d \in Callers : \/ /\ call'[d] = call[d]
                             /\ call[d].pc \in Holding => Kept(call[d].id)
                          \/ CallOf(d)' /\ SnapshotOf(d)'
  BY <1>8, <1>13, <1>15, <1>16
<1>18. \A k \in Jobs : job'[k] = job[k] \/ JobOf(k)'
  BY <1>1
<1> QED BY <1>1, <1>9, <1>10, <1>12, <1>14, <1>17, <1>18, QuietStep

(* What is loaded is good: what is let through is charged. *)
LEMMA UsageCovers ==
  ASSUME TypeOK, Rows, NEW i \in Ids, ~row[i].admitted, NEW h \in Windows,
         NEW w \in WindowsAt(h), NEW f \in FieldsOf[i]
  PROVE  GoodUsage(Snapshot(i, h), w, f) /\ Usage(w, f, i) \in Nat
<1> DEFINE s == Snapshot(i, h)
           T == {j \in Ids \ {i} : Charged(j) /\ In(j, w) /\ f \in FieldsOf[j]}
           C == [j \in Ids |-> Cost(j)]
           G == [j \in Ids |-> IF j \in T THEN C[j] ELSE 0]
           N == [j \in Ids |-> Need(s, w, f, j)]
<1>1. w \in Windows /\ f \in Fields /\ IsFiniteSet(Ids)
  BY BudgetAssumption DEF WindowsAt, Windows
<1>2. s.usage[w][f] = Usage(w, f, i)
  BY <1>1 DEF Snapshot
<1>3. /\ DOMAIN s.live = {j \in Ids \ {i} : Live(j)}
      /\ \A j \in DOMAIN s.live : s.live[j].attempt = row[j].attempt /\ s.live[j].hour = row[j].hour
  BY DEF Snapshot
<1>4. Usage(w, f, i) = Sum(C, T)
  BY Zenon DEF Usage, Sum
<1>5. T \in SUBSET Ids /\ \A j \in T : C[j] \in Int
  BY Amounts
<1>6. \A j \in Ids : G[j] = IF j \in T THEN C[j] ELSE 0
  OBVIOUS
<1>7. Sum(G, Ids) = Usage(w, f, i)
  <2> HIDE DEF C, T, G, s
  <2> QED BY <1>1, <1>4, <1>5, <1>6, SumPart
<1>8. ASSUME NEW j \in Ids PROVE G[j] \in Nat /\ N[j] \in Nat /\ N[j] <= G[j]
  <2> HIDE DEF s
  <2>1. /\ Cost(j) \in Nat /\ Allowed(j) \in Nat /\ Allowed(j) <= Cost(j)
        /\ AmountOf[j] \in Nat
    BY Amounts
  <2>2. N[j] = Need(s, w, f, j) /\ G[j] = IF j \in T THEN Cost(j) ELSE 0
    OBVIOUS
  <2>3. CASE j = i
    <3>1. j \notin DOMAIN s.live /\ j \notin T /\ Due(w, f, j) = 0
      BY <1>3, <2>3 DEF Due, Spending
    <3> QED BY <2>2, <3>1 DEF Need
  <2>4. CASE j # i /\ Live(j)
    <3>1. j \in DOMAIN s.live /\ s.live[j].hour = row[j].hour
      BY <1>3, <2>4
    <3>2. Cost(j) = AmountOf[j] /\ Charged(j)
      BY <2>4 DEF Live, Cost, Charged
    <3>3. In(j, w) <=> w \in WindowsAt(s.live[j].hour)
      BY <3>1 DEF In
    <3>4. CASE In(j, w) /\ f \in FieldsOf[j]
      BY <2>1, <2>2, <2>4, <3>1, <3>2, <3>3, <3>4 DEF Need
    <3>5. CASE ~(In(j, w) /\ f \in FieldsOf[j])
      BY <2>1, <2>2, <3>1, <3>3, <3>5 DEF Need, Due
    <3> QED BY <3>4, <3>5
  <2>5. CASE j # i /\ ~Live(j)
    <3>1. N[j] = Due(w, f, j)
      BY <1>3, <2>2, <2>5 DEF Need
    <3> QED BY <2>1, <2>2, <2>5, <3>1 DEF Due, Spending
  <2> QED BY <2>3, <2>4, <2>5
<1>9. \A j \in DOMAIN s.live :
        Spending(j) /\ In(j, w) /\ f \in FieldsOf[j] => s.live[j].attempt = row[j].attempt
  BY <1>3
<1>10. Sum(N, Ids) <= Sum(G, Ids) /\ Sum(G, Ids) \in Nat
  <2>1. \A j \in Ids : G[j] \in Nat /\ N[j] \in Int /\ G[j] \in Int /\ N[j] <= G[j]
    BY <1>8
  <2> HIDE DEF G, N
  <2> QED BY <1>1, <2>1, SumMonotone, SumNat
<1>11. Sum([j \in Ids |-> Need(s, w, f, j)], Ids) <= s.usage[w][f]
  BY <1>2, <1>7, <1>10
<1> HIDE DEF s
<1>12. GoodUsage(s, w, f)
  BY <1>9, <1>11 DEF GoodUsage
<1> QED BY <1>7, <1>10, <1>12 DEF s

LEMMA LoadSnapshotStep ==
  ASSUME BudgetInv, NEW c \in Callers, LoadSnapshot(c)
  PROVE  BudgetInv'
<1> DEFINE i == call[c].id
           h == call[c].hour
           s == Snapshot(i, h)
           x == [call[c] EXCEPT !.pc = "initialize", !.snap = s]
<1>1. /\ call[c].pc = "snapshot" /\ row' = row /\ win' = win /\ key' = key /\ job' = job
      /\ call' = [call EXCEPT ![c] = x]
  BY DEF LoadSnapshot
<1>2. TypeOK /\ Rows
  BY DEF BudgetInv
<1>3. call[c].pc \in Holding \ {"provider"}
  BY <1>1 DEF Holding
<1>4. i \in Ids /\ h \in Windows /\ ~row[i].admitted
  BY <1>2, <1>3, Holder, CallType
<1>5. \A w \in WindowsAt(h) : \A f \in FieldsOf[i] :
        GoodUsage(s, w, f) /\ Usage(w, f, i) \in Nat
  BY <1>2, <1>4, UsageCovers
<1>6. /\ DOMAIN s.live = {j \in Ids \ {i} : Live(j)}
      /\ s.live \in [DOMAIN s.live -> [attempt : 0..MaxAttempt, hour : Windows]]
      /\ \A j \in DOMAIN s.live : s.live[j].attempt = row[j].attempt /\ s.live[j].hour = row[j].hour
  BY <1>2, RowType DEF Snapshot
<1>7. s \in Snapshots
  <2>1. s.live \in LiveRows
    BY <1>6, LiveRowsMade
  <2>2. s.usage \in [Windows -> [Fields -> Nat]]
    BY <1>5 DEF Snapshot
  <2>3. s = [usage |-> s.usage, live |-> s.live]
    BY DEF Snapshot
  <2> HIDE DEF s
  <2> QED BY <2>1, <2>2, <2>3 DEF Snapshots
<1>8. \A j \in DOMAIN s.live : row[j].attempt \in 1..row[j].attempt
  <2>1. \A j \in DOMAIN s.live : j \in Ids /\ row[j].status # "absent"
    BY <1>6 DEF Live
  <2> HIDE DEF s
  <2> QED BY <1>2, <2>1, RowType DEF Rows
<1>9. GoodSnapshot(s, i, h)
  <2> HIDE DEF s
  <2> QED BY <1>5, <1>6, <1>8 DEF GoodSnapshot
<1>10. /\ x \in CallRecords /\ x.pc = "initialize" /\ x.id = i /\ x.hour = h
       /\ x.attempt = call[c].attempt /\ x.snap = s
  <2> HIDE DEF s
  <2> QED BY <1>2, <1>7, CallType DEF CallRecords, Snapshots
<1> HIDE DEF x, s
<1>11. /\ call' \in [Callers -> CallRecords] /\ call'[c] = x
       /\ \A d \in Callers : d # c => call'[d] = call[d]
  BY <1>1, <1>2, <1>10, CallSet
<1>12. SnapshotOf(c)'
  <2>1. ASSUME NEW t, NEW j, NEW g, GoodSnapshot(t, j, g) PROVE GoodSnapshot(t, j, g)'
    <3>1. \A w, f, k : Due(w, f, k)' = Due(w, f, k) /\ Spending(k)' = Spending(k) /\ In(k, w)' = In(k, w)
      BY <1>1 DEF Due, Spending, Charged, In, Allowed, Cost
    <3>2. \A w, f, k : Need(t, w, f, k)' = Need(t, w, f, k)
      BY <3>1 DEF Need
    <3>3. \A w, f : [k \in Ids |-> Need(t, w, f, k)]' = [k \in Ids |-> Need(t, w, f, k)]
      BY <3>2
    <3>4. \A w, f : GoodUsage(t, w, f) => GoodUsage(t, w, f)'
      BY <1>1, <3>1, <3>3 DEF GoodUsage
    <3> QED BY <1>1, <2>1, <3>4 DEF GoodSnapshot
  <2> QED BY <1>9, <1>10, <1>11, <2>1 DEF SnapshotOf
<1>13. "initialize" \in Holding \ {"provider"}
  BY DEF Holding
<1> QED BY <1>1, <1>3, <1>10, <1>11, <1>12, <1>13, HolderGoes

-----------------------------------------------------------------------------
(* A settlement *)

(* What a settlement leaves is enough for what was spent. *)
LEMMA FinalDue ==
  ASSUME TypeOK, NEW i \in Ids, NEW a, NEW x \in Nat, Final(i, a, x), a = row[i].attempt,
         NEW w \in Windows, NEW f \in Fields
  PROVE  Due(w, f, i) <= x
<1>1. Allowed(i) \in Nat /\ Allowed(i) <= Cost(i) /\ Cost(i) \in Nat
  BY Amounts
<1>2. CASE row[i].status = "committed" /\ x = row[i].actual
  BY <1>1, <1>2 DEF Due, Cost
<1>3. CASE row[i].status = "released" /\ x = 0
  BY <1>3 DEF Due, Spending, Charged
<1> QED BY <1>2, <1>3 DEF Final

LEMMA FinalAttempt ==
  ASSUME TypeOK, NEW i \in Ids, NEW a, NEW x, Final(i, a, x)
  PROVE  a \in Attempts
BY RowType, BudgetAssumption DEF Final, Attempts

(* The hash that a settlement leaves. *)
LEMMA SettledHash ==
  ASSUME TypeOK, NEW w \in Windows, MarkersOf(w), NEW i \in Ids, NEW a \in Attempts,
         NEW h \in Windows, w \in WindowsAt(h), NEW x \in Nat,
         ~Settled(i, a), ~SettleRefused(i, a, h, x), win'[w] = SettledWindow(w, i, a, x)
  PROVE  /\ win'[w] \in Hashes /\ win'[w].init = win[w].init
         /\ \A j, b, f : <<j, b, f>> \in win'[w].own <=>
                           <<j, b, f>> \in win[w].own /\ ~(j = i /\ b = a)
         /\ win'[w].bare = win[w].bare \ {<<i, a>>}
         /\ \A f \in Fields : win'[w].used[f] =
              IF <<i, a, f>> \in win[w].own THEN win[w].used[f] + x - AmountOf[i]
              ELSE win[w].used[f]
<1> DEFINE J == {f \in FieldsOf[i] : Covers(w, i, a, f)}
<1>1. FieldsOf[i] \subseteq Fields /\ AmountOf[i] \in Nat
  BY BudgetAssumption
<1>2. \A f \in Fields : f \in J <=> <<i, a, f>> \in win[w].own
  <2>1. \A f \in FieldsOf[i] : f \in J <=> <<i, a, f>> \in win[w].own
    BY CountsIsMarked
  <2> QED BY <1>1, <2>1 DEF MarkersOf
<1>3. /\ win[w].own \subseteq Ids \X Attempts \X Fields /\ win[w].used \in [Fields -> Nat]
      /\ win[w] \in Hashes
  BY HashType
<1>4. \A f \in J : win[w].used[f] + x - AmountOf[i] \in Nat
  <2> SUFFICES ASSUME NEW f \in J PROVE win[w].used[f] + x - AmountOf[i] \in Nat
    OBVIOUS
  <2>1. f \in FieldsOf[i] /\ f \in Fields /\ Covers(w, i, a, f)
    BY <1>1
  <2>2. ~(x < AmountOf[i] /\ win[w].used[f] < AmountOf[i] - x)
    BY Zenon, <2>1 DEF SettleRefused
  <2> QED BY <1>1, <1>3, <2>1, <2>2
<1>5. SettledWindow(w, i, a, x) =
        [win[w] EXCEPT
           !.used = [f \in Fields |-> IF f \in J THEN @[f] + x - AmountOf[i] ELSE @[f]],
           !.own = @ \ {<<i, a, f>> : f \in J},
           !.bare = @ \ {<<i, a>>}]
  BY DEF SettledWindow
<1> HIDE DEF J
<1>6. /\ win'[w].init = win[w].init
      /\ win'[w].own = win[w].own \ {<<i, a, f>> : f \in J}
      /\ win'[w].bare = win[w].bare \ {<<i, a>>}
      /\ win'[w].used = [f \in Fields |-> IF f \in J THEN win[w].used[f] + x - AmountOf[i]
                                           ELSE win[w].used[f]]
  BY <1>3, <1>5 DEF Hashes
<1>7. ASSUME NEW j, NEW b, NEW f
      PROVE  <<j, b, f>> \in win'[w].own <=> <<j, b, f>> \in win[w].own /\ ~(j = i /\ b = a)
  <2>1. <<j, b, f>> \in win[w].own => f \in Fields
    BY <1>3
  <2>2. <<j, b, f>> \in {<<i, a, g>> : g \in J} <=> j = i /\ b = a /\ f \in J
    OBVIOUS
  <2> QED BY <1>2, <1>6, <2>1, <2>2
<1>8. win'[w] \in Hashes
  <2> DEFINE u == [f \in Fields |-> IF f \in J THEN win[w].used[f] + x - AmountOf[i]
                                   ELSE win[w].used[f]]
             o == win[w].own \ {<<i, a, f>> : f \in J}
             b == win[w].bare \ {<<i, a>>}
  <2>1. win'[w] = [win[w] EXCEPT !.used = u, !.own = o, !.bare = b]
    BY <1>3, <1>5 DEF Hashes
  <2>2. u \in [Fields -> Nat]
    BY <1>3, <1>4
  <2>3. o \in SUBSET (Ids \X Attempts \X Fields) /\ b \in SUBSET (Ids \X Attempts)
    BY HashType
  <2> HIDE DEF u, o, b
  <2> QED BY <1>3, <2>1, <2>2, <2>3 DEF Hashes
<1>9. \A f \in Fields : win'[w].used[f] =
        IF <<i, a, f>> \in win[w].own THEN win[w].used[f] + x - AmountOf[i]
        ELSE win[w].used[f]
  BY <1>2, <1>6
<1> QED BY <1>6, <1>7, <1>8, <1>9

(* One mark less: the counter gives back what it held for it. *)
LEMMA SettledTerm ==
  ASSUME TypeOK, TypeOK', row' = row, NEW i \in Ids, NEW w \in Windows, NEW f \in Fields,
         NEW x \in Nat, NEW a \in Marks(w, f, i), Final(i, a, x),
         Marks(w, f, i)' = Marks(w, f, i) \ {a}
  PROVE  Term(w, f, i)' <= Term(w, f, i) - AmountOf[i] + x
<1> DEFINE M == Marks(w, f, i)
           n == Cardinality(M \ {a})
           t == AmountOf[i] * n
<1>1. IsFiniteSet(M \ {a}) /\ n = Cardinality(M) - 1
  BY MarksFinite, FS_RemoveElement
<1>2. n \in Nat /\ Cardinality(M) \in Nat
  BY <1>1, MarksFinite, FS_CardinalityType
<1>3. AmountOf[i] \in Nat /\ Due(w, f, i) \in Nat /\ t \in Nat
  BY <1>2, Amounts, DueType, Times
<1>4. Cardinality(M) = n + 1
  BY <1>1, <1>2
<1>5. AmountOf[i] * Cardinality(M) = t + AmountOf[i]
  BY <1>2, <1>3, <1>4, Times
<1>6. Due(w, f, i)' = Due(w, f, i)
  BY DEF Due, Spending, Charged, In, Allowed, Cost
<1>7. Term(w, f, i) = t + AmountOf[i] + (IF row[i].attempt \in M THEN 0 ELSE Due(w, f, i))
  BY <1>5 DEF Term
<1>8. Term(w, f, i)' = t + (IF row[i].attempt \in M \ {a} THEN 0 ELSE Due(w, f, i))
  BY <1>6 DEF Term
<1>9. a = row[i].attempt => Due(w, f, i) <= x
  BY FinalDue
<1> HIDE DEF t, n, M
<1> QED BY <1>3, <1>7, <1>8, <1>9

LEMMA SettledMarks ==
  ASSUME TypeOK, NEW w \in Windows, NEW i \in Ids, NEW a \in Attempts,
         MarkersOf(w), win'[w].init = win[w].init,
         \A j, b, f : <<j, b, f>> \in win'[w].own <=>
                        <<j, b, f>> \in win[w].own /\ ~(j = i /\ b = a),
         win'[w].bare = win[w].bare \ {<<i, a>>}
  PROVE  /\ MarkersOf(w)'
         /\ \A f \in Fields, j \in Ids :
              Marks(w, f, j)' = IF j = i THEN Marks(w, f, i) \ {a} ELSE Marks(w, f, j)
<1>1. \A j \in Ids, b \in Attempts, f \in Fields :
        <<j, b, f>> \in win'[w].own => f \in FieldsOf[j] /\ f \in win'[w].init
  BY DEF MarkersOf
<1>2. ASSUME NEW j \in Ids, NEW b \in Attempts, <<j, b>> \in win'[w].bare, FieldsOf[j] # {}
      PROVE  \E f \in FieldsOf[j] : <<j, b, f>> \in win'[w].own
  <2>1. <<j, b>> \in win[w].bare /\ ~(j = i /\ b = a)
    BY <1>2
  <2>2. PICK f \in FieldsOf[j] : <<j, b, f>> \in win[w].own
    BY <1>2, <2>1 DEF MarkersOf
  <2> QED BY <2>1, <2>2
<1>3. \A f \in Fields, j \in Ids :
        Marks(w, f, j)' = IF j = i THEN Marks(w, f, i) \ {a} ELSE Marks(w, f, j)
  BY DEF Marks
<1> QED BY <1>1, <1>2, <1>3 DEF MarkersOf

LEMMA SettledLoad ==
  ASSUME TypeOK, TypeOK', Counters, row' = row, NEW i \in Ids, NEW a \in Attempts, NEW x \in Nat,
         Final(i, a, x), NEW w \in Windows, win'[w].init = win[w].init,
         \A f \in Fields, j \in Ids :
           Marks(w, f, j)' = IF j = i THEN Marks(w, f, i) \ {a} ELSE Marks(w, f, j),
         \A f \in Fields : win'[w].used[f] =
              IF <<i, a, f>> \in win[w].own THEN win[w].used[f] + x - AmountOf[i]
              ELSE win[w].used[f],
         NEW f \in win[w].init
  PROVE  Load(w, f)' <= win'[w].used[f]
<1> DEFINE T == [j \in Ids |-> Term(w, f, j)]
           U == [j \in Ids |-> Term(w, f, j)']
<1>1. /\ f \in Fields /\ win[w].used[f] \in Nat /\ AmountOf[i] \in Nat
      /\ IsFiniteSet(Ids)
  BY HashType, BudgetAssumption
<1>2. \A j \in Ids : Term(w, f, j) \in Nat /\ Term(w, f, j)' \in Nat
  BY Zenon, <1>1, MeasuredNow, MeasuredNext DEF Measured
<1>3. Load(w, f) = Sum(T, Ids) /\ Load(w, f)' = Sum(U, Ids)
  BY Zenon DEF Load
<1>4. Load(w, f) <= win[w].used[f]
  BY DEF Counters
<1>5. ASSUME NEW j \in Ids, Marks(w, f, j)' = Marks(w, f, j)
      PROVE  Term(w, f, j)' <= Term(w, f, j)
  <2>1. Steady(j) /\ Eases(w, f, j)
    BY SameRow, CalmEases DEF Calm
  <2> QED BY <1>1, <1>5, <2>1, CalmTerm
<1>6. CASE <<i, a, f>> \in win[w].own
  <2>1. a \in Marks(w, f, i)
    BY <1>6 DEF Marks
  <2>2. Term(w, f, i)' <= Term(w, f, i) - AmountOf[i] + x
    BY <1>1, <2>1, SettledTerm
  <2>3. \A j \in Ids \ {i} : Term(w, f, j)' <= Term(w, f, j)
    BY <1>1, <1>5
  <2>4. /\ \A j \in Ids : T[j] \in Int /\ U[j] \in Int
        /\ \A j \in Ids \ {i} : U[j] <= T[j]
        /\ U[i] <= T[i] - AmountOf[i] + x
    BY <1>2, <2>2, <2>3
  <2> HIDE DEF T, U
  <2>5. Sum(U, Ids) <= Sum(T, Ids) - T[i] + U[i] /\ Sum(U, Ids) \in Int /\ Sum(T, Ids) \in Int
    BY <1>1, <2>4, SumOne, SumType
  <2>6. win'[w].used[f] = win[w].used[f] + x - AmountOf[i]
    BY <1>1, <1>6
  <2> QED BY <1>1, <1>3, <1>4, <2>4, <2>5, <2>6
<1>7. CASE <<i, a, f>> \notin win[w].own
  <2>1. \A j \in Ids : Marks(w, f, j)' = Marks(w, f, j)
    BY <1>1, <1>7 DEF Marks
  <2>2. Load(w, f)' <= Load(w, f)
    BY <1>1, <1>5, <2>1, CalmLoad
  <2>3. Load(w, f) \in Int /\ Load(w, f)' \in Int
    BY Zenon, <1>1, MeasuredNow, MeasuredNext DEF Measured
  <2>4. win'[w].used[f] = win[w].used[f]
    BY <1>1, <1>7
  <2> QED BY <1>1, <1>4, <2>2, <2>3, <2>4
<1> QED BY <1>6, <1>7

(* A hash that a step leaves alone. *)
LEMMA SameHashLoad ==
  ASSUME TypeOK, TypeOK', Counters, row' = row, NEW w \in Windows, win'[w] = win[w],
         NEW f \in win'[w].init
  PROVE  Load(w, f)' <= win'[w].used[f]
<1>1. f \in Fields /\ win[w].used[f] \in Nat /\ f \in win[w].init
  BY HashType
<1>2. \A j \in Ids : Term(w, f, j)' <= Term(w, f, j)
  <2> SUFFICES ASSUME NEW j \in Ids PROVE Term(w, f, j)' <= Term(w, f, j)
    OBVIOUS
  <2>1. Marks(w, f, j)' = Marks(w, f, j)
    BY DEF Marks
  <2>2. Steady(j) /\ Eases(w, f, j)
    BY SameRow, CalmEases DEF Calm
  <2> QED BY <1>1, <2>1, <2>2, CalmTerm
<1>3. Load(w, f)' <= Load(w, f)
  BY <1>1, <1>2, CalmLoad
<1>4. Load(w, f) \in Int /\ Load(w, f)' \in Int
  BY Zenon, <1>1, MeasuredNow, MeasuredNext DEF Measured
<1>5. Load(w, f) <= win[w].used[f]
  BY <1>1 DEF Counters
<1> QED BY <1>1, <1>3, <1>4, <1>5

LEMMA SettleStep ==
  ASSUME BudgetInv, NEW i \in Ids, NEW a, NEW h \in Windows, NEW x \in Nat, Final(i, a, x),
         row' = row, Settle(i, a, h, x),
         call' \in [Callers -> CallRecords], job' \in [Jobs -> JobRecords]
  PROVE  /\ TypeOK' /\ Rows' /\ Counters' /\ WithinBudget'
         /\ \A j \in Ids, b \in Attempts : KeyOf(j, b)'
         /\ \A w \in Windows : MarkersOf(w)' /\ win'[w].init = win[w].init
<1>1. /\ TypeOK /\ Rows /\ Counters /\ WithinBudget
      /\ \A j \in Ids, b \in Attempts : KeyOf(j, b)
      /\ \A w \in Windows : MarkersOf(w)
  BY DEF BudgetInv
<1>2. a \in Attempts
  BY <1>1, FinalAttempt
<1>3. Rows' /\ \A j \in Ids : Calm(j)
  BY <1>1, SameRow DEF Rows
<1>4. \A j \in Ids : Steady(j)
  BY <1>3 DEF Calm
<1>5. CASE win' = win /\ key' = key
  <2>1. TypeOK'
    BY <1>1, <1>5 DEF TypeOK
  <2>2. Counters' /\ WithinBudget'
    BY <1>1, <1>3, <1>5, <2>1, CalmCounters, CalmBudget
  <2>3. \A j \in Ids, b \in Attempts : KeyOf(j, b)'
    BY <1>1, <1>4, <1>5, <2>1, KeyKept
  <2>4. \A w \in Windows : MarkersOf(w)' /\ win'[w].init = win[w].init
    BY <1>1, <1>5 DEF MarkersOf
  <2> QED BY <1>3, <2>1, <2>2, <2>3, <2>4
<1>6. CASE /\ ~Settled(i, a) /\ ~SettleRefused(i, a, h, x)
           /\ win' = [w \in Windows |-> IF w \in WindowsAt(h)
                                        THEN SettledWindow(w, i, a, x) ELSE win[w]]
           /\ key' = [key EXCEPT ![i][a] = x]
  <2>1. ASSUME NEW w \in WindowsAt(h)
        PROVE  /\ w \in Windows /\ win'[w] \in Hashes /\ win'[w].init = win[w].init
               /\ \A j, b, f : <<j, b, f>> \in win'[w].own <=>
                                 <<j, b, f>> \in win[w].own /\ ~(j = i /\ b = a)
               /\ win'[w].bare = win[w].bare \ {<<i, a>>}
               /\ \A f \in Fields : win'[w].used[f] =
                    IF <<i, a, f>> \in win[w].own THEN win[w].used[f] + x - AmountOf[i]
                    ELSE win[w].used[f]
    <3>1. w \in Windows
      BY DEF WindowsAt, Windows
    <3>2. win'[w] = SettledWindow(w, i, a, x)
      BY <1>6, <3>1
    <3> QED BY <1>1, <1>2, <1>6, <3>1, <3>2, SettledHash
  <2>2. \A w \in Windows : w \notin WindowsAt(h) => win'[w] = win[w]
    BY <1>6
  <2>3. win' \in [Windows -> Hashes]
    <3>1. \A w \in Windows : win'[w] \in Hashes
      BY <1>1, <2>1, <2>2, HashType
    <3> QED BY <1>6, <3>1
  <2>4. TypeOK'
    <3>1. key' \in [Ids -> [Attempts -> {Unset, Held} \cup Nat]]
      BY <1>1, <1>2, <1>6 DEF TypeOK
    <3> QED BY <1>1, <2>3, <3>1 DEF TypeOK
  <2>5. ASSUME NEW w \in WindowsAt(h)
        PROVE  /\ MarkersOf(w)'
               /\ \A f \in Fields, j \in Ids :
                    Marks(w, f, j)' = IF j = i THEN Marks(w, f, i) \ {a} ELSE Marks(w, f, j)
    BY <1>1, <1>2, <2>1, SettledMarks
  <2>6. Counters'
    <3> SUFFICES ASSUME NEW w \in Windows, NEW f \in win'[w].init
                 PROVE  Load(w, f)' <= win'[w].used[f]
      BY DEF Counters
    <3>1. CASE w \in WindowsAt(h)
      <4>1. f \in win[w].init
        BY <2>1, <3>1
      <4> QED BY <1>1, <1>2, <2>1, <2>4, <2>5, <3>1, <4>1, SettledLoad
    <3>2. CASE w \notin WindowsAt(h)
      BY <1>1, <2>2, <2>4, <3>2, SameHashLoad
    <3> QED BY <3>1, <3>2
  <2>7. WithinBudget'
    BY <1>1, <1>3, <2>4, CalmBudget
  <2>8. ASSUME NEW j \in Ids, NEW b \in Attempts PROVE KeyOf(j, b)'
    <3>1. CASE j = i /\ b = a
      <4>1. key'[j][b] = x
        BY <1>1, <1>2, <1>6, <3>1 DEF TypeOK
      <4> QED BY <3>1, <4>1 DEF KeyOf, Final
    <3>2. CASE ~(j = i /\ b = a)
      <4>1. key'[j][b] = key[j][b]
        BY <1>1, <1>6, <3>2 DEF TypeOK
      <4> QED BY <1>1, <1>4, <2>4, <4>1, KeyKept
    <3> QED BY <3>1, <3>2
  <2>9. ASSUME NEW w \in Windows PROVE MarkersOf(w)' /\ win'[w].init = win[w].init
    <3>1. CASE w \in WindowsAt(h)
      BY <2>1, <2>5, <3>1
    <3>2. CASE w \notin WindowsAt(h)
      BY <1>1, <2>2, <3>2 DEF MarkersOf
    <3> QED BY <3>1, <3>2
  <2> QED BY <1>3, <2>4, <2>6, <2>7, <2>8, <2>9
<1> QED BY Zenon, <1>5, <1>6 DEF Settle

(* Redis changed, and no row did. *)
LEMMA RedisStep ==
  ASSUME BudgetInv, row' = row, TypeOK', Rows', Counters', WithinBudget', OneHolder',
         \A j \in Ids, b \in Attempts : KeyOf(j, b)',
         \A w \in Windows : MarkersOf(w)' /\ win[w].init \subseteq win'[w].init,
         \A d \in Callers : call'[d] = call[d] \/ (CallOf(d)' /\ SnapshotOf(d)'),
         \A k \in Jobs : job'[k] = job[k] \/ JobOf(k)'
  PROVE  BudgetInv'
<1>1. /\ TypeOK
      /\ \A c \in Callers : CallOf(c) /\ SnapshotOf(c)
      /\ \A k \in Jobs : JobOf(k)
  BY DEF BudgetInv
<1>2. \A i \in Ids : Steady(i) /\ Kept(i)
  BY <1>1, SameRow DEF Calm
<1>3. \A i \in Ids : \A w, f : Eases(w, f, i)
  BY <1>1, SameRow, CalmEases
<1>4. ASSUME NEW d \in Callers PROVE CallOf(d)' /\ SnapshotOf(d)'
  <2>1. CASE call'[d] = call[d]
    <3>1. call[d].pc \in Holding => Kept(call[d].id)
      BY <1>2, Holder
    <3>2. CallOf(d)'
      BY <1>1, <1>2, <2>1, <3>1, CallKept
    <3>3. SnapshotOf(d)'
      BY <1>1, <1>2, <1>3, <2>1, SnapshotKept
    <3> QED BY <3>2, <3>3
  <2> QED BY <2>1
<1>5. \A k \in Jobs : JobOf(k)'
  BY <1>1, <1>2, JobKept
<1> QED BY <1>4, <1>5 DEF BudgetInv

LEMMA RefundStep ==
  ASSUME BudgetInv, NEW c \in Callers, Refund(c)
  PROVE  BudgetInv'
<1> DEFINE i == call[c].id
           a == call[c].attempt
           h == call[c].hour
<1>1. /\ call[c].pc = "refund" /\ Settle(i, a, h, 0) /\ row' = row /\ job' = job
      /\ Goto(c, "unmark") \/ Return(c)
  BY Zenon DEF Refund
<1>2. TypeOK /\ CallOf(c) /\ OneHolder
  BY DEF BudgetInv
<1>3. i \in Ids /\ h \in Windows /\ Final(i, a, 0)
  BY <1>1, <1>2, CallType DEF CallOf
<1>4. /\ call' \in [Callers -> CallRecords]
      /\ call'[c].pc = "idle" \/ (call'[c].pc = "unmark" /\ call'[c].id = i)
      /\ \A d \in Callers : d # c => call'[d] = call[d]
  <2>1. CASE Goto(c, "unmark")
    BY <1>2, <2>1, GotoSet DEF Pcs
  <2>2. CASE Return(c)
    BY <1>2, <2>2, ReturnSet
  <2> QED BY <1>1, <2>1, <2>2
<1>5. call'[c].pc \notin Holding
  BY <1>4 DEF Holding
<1>6. CallOf(c)' /\ SnapshotOf(c)'
  BY <1>3, <1>4, <1>5 DEF CallOf, SnapshotOf
<1>7. OneHolder'
  BY <1>2, <1>4, <1>5, OneHolderKept
<1>8. job' \in [Jobs -> JobRecords]
  BY <1>1, <1>2 DEF TypeOK
<1>9. /\ TypeOK' /\ Rows' /\ Counters' /\ WithinBudget'
      /\ \A j \in Ids, b \in Attempts : KeyOf(j, b)'
      /\ \A w \in Windows : MarkersOf(w)' /\ win'[w].init = win[w].init
  <2> HIDE DEF i, a, h
  <2> QED BY <1>1, <1>3, <1>4, <1>8, SettleStep
<1> QED BY <1>1, <1>4, <1>6, <1>7, <1>9, RedisStep

LEMMA SyncRedisSettlementStep ==
  ASSUME BudgetInv, NEW k \in Jobs, SyncRedisSettlement(k)
  PROVE  BudgetInv'
<1> DEFINE i == job[k].id
           a == job[k].attempt
           h == job[k].hour
           x == job[k].actual
           m == [job[k] EXCEPT !.pc = "mark"]
<1>1. /\ job[k].pc = "settle" /\ Settle(i, a, h, x) /\ row' = row /\ call' = call
      /\ job' = [job EXCEPT ![k] = JobIdle] \/ job' = [job EXCEPT ![k] = m]
  BY Zenon DEF SyncRedisSettlement
<1>2. TypeOK /\ JobOf(k) /\ OneHolder
  BY DEF BudgetInv
<1>3. i \in Ids /\ h \in Windows /\ x \in Nat /\ Final(i, a, x)
  BY <1>1, <1>2, JobType DEF JobOf
<1>4. m \in JobRecords /\ m.pc = "mark" /\ m.id = i
  BY <1>2, JobType DEF JobRecords
<1> HIDE DEF m
<1>5. /\ job' \in [Jobs -> JobRecords]
      /\ job'[k].pc = "idle" \/ (job'[k].pc = "mark" /\ job'[k].id = i)
      /\ \A o \in Jobs : o # k => job'[o] = job[o]
  <2>1. CASE job' = [job EXCEPT ![k] = JobIdle]
    BY <1>2, <2>1, JobSet, JobIdleType
  <2>2. CASE job' = [job EXCEPT ![k] = m]
    BY <1>2, <1>4, <2>2, JobSet
  <2> QED BY <1>1, <2>1, <2>2
<1>6. JobOf(k)'
  BY <1>3, <1>5 DEF JobOf
<1>7. OneHolder' /\ call' \in [Callers -> CallRecords]
  BY <1>1, <1>2 DEF OneHolder, TypeOK
<1>8. /\ TypeOK' /\ Rows' /\ Counters' /\ WithinBudget'
      /\ \A j \in Ids, b \in Attempts : KeyOf(j, b)'
      /\ \A w \in Windows : MarkersOf(w)' /\ win'[w].init = win[w].init
  <2> HIDE DEF i, a, h, x
  <2> QED BY <1>1, <1>3, <1>5, <1>7, SettleStep
<1> QED BY <1>1, <1>5, <1>6, <1>7, <1>8, RedisStep

-----------------------------------------------------------------------------
(* Seeding *)

KnownAt(s, w) == {j \in DOMAIN s.live : w \in WindowsAt(s.live[j].hour)}
Outcome(s, j) == key[j][s.live[j].attempt]

(* What the script adds for a reservation that was settled meanwhile. *)
Correction(s, w, f, j) ==
  IF j \in KnownAt(s, w) /\ f \in FieldsOf[j] /\ Outcome(s, j) >= 0
  THEN Outcome(s, j) - AmountOf[j] ELSE 0

LEMMA OutcomeType ==
  ASSUME TypeOK, NEW s \in Snapshots, NEW i, NEW h, GoodSnapshot(s, i, h), NEW j \in DOMAIN s.live
  PROVE  /\ j \in Ids /\ s.live[j].attempt \in Attempts
         /\ Outcome(s, j) \in {Unset, Held} \cup Nat /\ Outcome(s, j) \in Int
<1>1. s.live \in LiveRows
  BY DEF Snapshots
<1>2. j \in Ids
  BY <1>1, LiveRowsType
<1>3. s.live[j].attempt \in Attempts
  BY <1>2, RowType, BudgetAssumption DEF GoodSnapshot, Attempts
<1>4. Outcome(s, j) \in {Unset, Held} \cup Nat
  BY <1>2, <1>3 DEF TypeOK, Outcome
<1> QED BY <1>2, <1>3, <1>4 DEF Unset, Held

LEMMA CorrectionType ==
  ASSUME TypeOK, NEW s \in Snapshots, NEW i, NEW h, GoodSnapshot(s, i, h),
         NEW w \in Windows, NEW f \in Fields, NEW j \in Ids
  PROVE  /\ Correction(s, w, f, j) \in Int
         /\ Need(s, w, f, j) + Correction(s, w, f, j) \in Nat
<1>1. AmountOf[j] \in Nat /\ Need(s, w, f, j) \in Nat
  BY NeedType, BudgetAssumption
<1>2. CASE j \in KnownAt(s, w) /\ f \in FieldsOf[j] /\ Outcome(s, j) >= 0
  <2>1. j \in DOMAIN s.live /\ w \in WindowsAt(s.live[j].hour)
    BY <1>2 DEF KnownAt
  <2>2. Need(s, w, f, j) = AmountOf[j]
    BY <1>2, <2>1 DEF Need
  <2>3. Outcome(s, j) \in Int
    BY <2>1, OutcomeType
  <2> QED BY <1>1, <1>2, <2>2, <2>3 DEF Correction
<1>3. CASE ~(j \in KnownAt(s, w) /\ f \in FieldsOf[j] /\ Outcome(s, j) >= 0)
  BY <1>1, <1>3 DEF Correction
<1> QED BY <1>2, <1>3

(* The hash that seeding leaves. *)
LEMMA InitializedHash ==
  ASSUME TypeOK, NEW w \in Windows, NEW i \in Ids, NEW s \in Snapshots, NEW h \in Windows,
         GoodSnapshot(s, i, h), w \in WindowsAt(h), win'[w] = InitializedWindow(w, i, s)
  PROVE  /\ win'[w].init = win[w].init \cup FieldsOf[i]
         /\ \A j, b, f : <<j, b, f>> \in win'[w].own <=>
              \/ <<j, b, f>> \in win[w].own
              \/ /\ j \in KnownAt(s, w) /\ Outcome(s, j) < 0 /\ b = s.live[j].attempt
                 /\ f \in FieldsOf[j] \cap (FieldsOf[i] \ win[w].init)
         /\ \A j, b : <<j, b>> \in win'[w].bare <=>
              \/ <<j, b>> \in win[w].bare
              \/ /\ j \in KnownAt(s, w) /\ Outcome(s, j) < 0 /\ b = s.live[j].attempt
                 /\ FieldsOf[j] \cap (FieldsOf[i] \ win[w].init) # {}
         /\ \A f \in Fields : win'[w].used[f] =
              IF f \in FieldsOf[i] \ win[w].init
              THEN s.usage[w][f] + Sum([j \in Ids |-> Correction(s, w, f, j)], Ids)
              ELSE win[w].used[f]
         /\ win'[w] \in Hashes
<1> DEFINE seeded == FieldsOf[i] \ win[w].init
           known == KnownAt(s, w)
           delta == [j \in known |-> Outcome(s, j) - AmountOf[j]]
           late(f) == {j \in known : f \in FieldsOf[j] /\ Outcome(s, j) >= 0}
           open == {j \in known : Outcome(s, j) < 0 /\ FieldsOf[j] \cap seeded # {}}
           own == win[w].own \cup
                    UNION {{<<j, s.live[j].attempt, f>> : f \in FieldsOf[j] \cap seeded} : j \in open}
           bare == win[w].bare \cup {<<j, s.live[j].attempt>> : j \in open}
           used == [f \in Fields |-> IF f \in seeded
                                     THEN s.usage[w][f] + Sum(delta, late(f))
                                     ELSE win[w].used[f]]
<1>1. win'[w] = [init |-> win[w].init \cup seeded, used |-> used, own |-> own, bare |-> bare]
  BY Zenon DEF InitializedWindow, KnownAt, Outcome, Sum
<1>2. /\ IsFiniteSet(Ids) /\ FieldsOf[i] \subseteq Fields
      /\ \A j \in Ids : FieldsOf[j] \subseteq Fields /\ AmountOf[j] \in Nat
  BY BudgetAssumption
<1>3. \A j \in known : /\ j \in Ids /\ s.live[j].attempt \in Attempts /\ Outcome(s, j) \in Int
  BY OutcomeType DEF KnownAt
<1>4. ASSUME NEW f \in Fields
      PROVE  Sum(delta, late(f)) = Sum([j \in Ids |-> Correction(s, w, f, j)], Ids)
  <2> DEFINE C == [j \in Ids |-> Correction(s, w, f, j)]
             T == late(f)
  <2>1. T \in SUBSET Ids /\ \A j \in T : delta[j] \in Int
    BY <1>2, <1>3
  <2>2. \A j \in Ids : C[j] = IF j \in T THEN delta[j] ELSE 0
    BY DEF Correction
  <2> HIDE DEF C, T, delta
  <2>3. Sum(C, Ids) = Sum(delta, T)
    BY <1>2, <2>1, <2>2, SumPart
  <2> QED BY <2>3 DEF C, T
<1>5. \A f \in Fields : used[f] =
        IF f \in seeded THEN s.usage[w][f] + Sum([j \in Ids |-> Correction(s, w, f, j)], Ids)
        ELSE win[w].used[f]
  <2> HIDE DEF delta, late
  <2> QED BY <1>4
<1>6. used \in [Fields -> Nat]
  <2> SUFFICES ASSUME NEW f \in Fields PROVE used[f] \in Nat
    OBVIOUS
  <2>1. CASE f \in seeded
    <3> DEFINE N == [j \in Ids |-> Need(s, w, f, j)]
               C == [j \in Ids |-> Correction(s, w, f, j)]
               B == [j \in Ids |-> Need(s, w, f, j) + Correction(s, w, f, j)]
    <3>1. \A j \in Ids : N[j] \in Int /\ C[j] \in Int /\ B[j] = N[j] + C[j] /\ B[j] \in Nat
      BY NeedType, CorrectionType
    <3>2. GoodUsage(s, w, f)
      BY <2>1 DEF GoodSnapshot
    <3>3. Sum(N, Ids) <= s.usage[w][f] /\ s.usage[w][f] \in Nat
      BY <3>2 DEF GoodUsage, Snapshots
    <3>4. used[f] = s.usage[w][f] + Sum(C, Ids)
      BY <1>5, <2>1
    <3> HIDE DEF N, C, B, used
    <3>5. /\ Sum(B, Ids) = Sum(N, Ids) + Sum(C, Ids) /\ Sum(B, Ids) \in Nat
          /\ Sum(N, Ids) \in Int /\ Sum(C, Ids) \in Int
      BY <1>2, <3>1, SumPlus, SumNat, SumType
    <3> QED BY <3>3, <3>4, <3>5
  <2>2. CASE f \notin seeded
    BY <1>5, <2>2, HashType
  <2> QED BY <2>1, <2>2
<1>7. \A j, b, f : <<j, b, f>> \in own <=>
        \/ <<j, b, f>> \in win[w].own
        \/ j \in known /\ Outcome(s, j) < 0 /\ b = s.live[j].attempt /\ f \in FieldsOf[j] \cap seeded
  OBVIOUS
<1>8. \A j, b : <<j, b>> \in bare <=>
        \/ <<j, b>> \in win[w].bare
        \/ /\ j \in known /\ Outcome(s, j) < 0 /\ b = s.live[j].attempt
           /\ FieldsOf[j] \cap seeded # {}
  OBVIOUS
<1>9. own \in SUBSET (Ids \X Attempts \X Fields) /\ bare \in SUBSET (Ids \X Attempts)
  BY <1>2, <1>3, HashType
<1>10. win[w].init \cup seeded = win[w].init \cup FieldsOf[i] /\ win[w].init \cup seeded \subseteq Fields
  BY <1>2, HashType
<1> HIDE DEF own, bare, used
<1>11. win'[w] \in Hashes
  BY <1>1, <1>6, <1>9, <1>10 DEF Hashes
<1>12. /\ win'[w].init = win[w].init \cup FieldsOf[i] /\ win'[w].own = own
       /\ win'[w].bare = bare /\ win'[w].used = used
  BY <1>1, <1>10
<1> QED BY <1>5, <1>7, <1>8, <1>11, <1>12

(* The hash that seeding leaves, as the invariant sees it. *)
SeededHash(s, w, i) ==
  /\ win'[w].init = win[w].init \cup FieldsOf[i]
  /\ \A j, b, f : <<j, b, f>> \in win'[w].own <=>
       \/ <<j, b, f>> \in win[w].own
       \/ /\ j \in KnownAt(s, w) /\ Outcome(s, j) < 0 /\ b = s.live[j].attempt
          /\ f \in FieldsOf[j] \cap (FieldsOf[i] \ win[w].init)
  /\ \A j, b : <<j, b>> \in win'[w].bare <=>
       \/ <<j, b>> \in win[w].bare
       \/ /\ j \in KnownAt(s, w) /\ Outcome(s, j) < 0 /\ b = s.live[j].attempt
          /\ FieldsOf[j] \cap (FieldsOf[i] \ win[w].init) # {}
  /\ \A f \in Fields : win'[w].used[f] =
       IF f \in FieldsOf[i] \ win[w].init
       THEN s.usage[w][f] + Sum([j \in Ids |-> Correction(s, w, f, j)], Ids)
       ELSE win[w].used[f]

LEMMA SeededMarkers ==
  ASSUME TypeOK, NEW w \in Windows, NEW i \in Ids, NEW s, MarkersOf(w), SeededHash(s, w, i)
  PROVE  MarkersOf(w)'
<1>1. \A j \in Ids, b \in Attempts, f \in Fields :
        <<j, b, f>> \in win'[w].own => f \in FieldsOf[j] /\ f \in win'[w].init
  BY DEF MarkersOf, SeededHash
<1>2. ASSUME NEW j \in Ids, NEW b \in Attempts, <<j, b>> \in win'[w].bare, FieldsOf[j] # {}
      PROVE  \E f \in FieldsOf[j] : <<j, b, f>> \in win'[w].own
  <2>1. CASE <<j, b>> \in win[w].bare
    <3>1. PICK f \in FieldsOf[j] : <<j, b, f>> \in win[w].own
      BY <1>2, <2>1 DEF MarkersOf
    <3> QED BY <3>1 DEF SeededHash
  <2>2. CASE /\ j \in KnownAt(s, w) /\ Outcome(s, j) < 0 /\ b = s.live[j].attempt
             /\ FieldsOf[j] \cap (FieldsOf[i] \ win[w].init) # {}
    <3>1. PICK f \in FieldsOf[j] : f \in FieldsOf[i] \ win[w].init
      BY <2>2
    <3> QED BY <2>2, <3>1 DEF SeededHash
  <2> QED BY <1>2, <2>1, <2>2 DEF SeededHash
<1> QED BY <1>1, <1>2 DEF MarkersOf

(* Each reservation is covered by what the snapshot had for it and what    *)
(* the script corrects.                                                    *)
LEMMA SeededTerm ==
  ASSUME TypeOK, TypeOK', row' = row, NEW w \in Windows, NEW i \in Ids, NEW s \in Snapshots,
         NEW h \in Windows, GoodSnapshot(s, i, h), w \in WindowsAt(h), MarkersOf(w),
         \A j \in Ids, a \in Attempts : KeyOf(j, a),
         SeededHash(s, w, i), NEW f \in FieldsOf[i] \ win[w].init, NEW j \in Ids
  PROVE  Term(w, f, j)' <= Need(s, w, f, j) + Correction(s, w, f, j)
<1>1. f \in Fields /\ AmountOf[j] \in Nat
  BY BudgetAssumption
<1>2. Due(w, f, j) \in Nat /\ Due(w, f, j)' = Due(w, f, j)
  BY DueType DEF Due, Spending, Charged, In, Allowed, Cost
<1>3. \A b \in Attempts : <<j, b, f>> \notin win[w].own
  BY <1>1 DEF MarkersOf
<1>4. Term(w, f, j)' = AmountOf[j] * Cardinality(Marks(w, f, j)')
                         + (IF row[j].attempt \in Marks(w, f, j)' THEN 0 ELSE Due(w, f, j))
  BY <1>2 DEF Term
<1>5. CASE j \in KnownAt(s, w) /\ f \in FieldsOf[j]
  <2> DEFINE a == s.live[j].attempt
  <2>1. j \in DOMAIN s.live /\ w \in WindowsAt(s.live[j].hour)
    BY <1>5 DEF KnownAt
  <2>2. a \in Attempts /\ Outcome(s, j) \in Int
    BY <2>1, OutcomeType
  <2>3. Need(s, w, f, j) = AmountOf[j]
    BY <1>5, <2>1 DEF Need
  <2>4. GoodUsage(s, w, f)
    BY DEF GoodSnapshot
  <2>5. a # row[j].attempt => Due(w, f, j) = 0
    BY <2>1, <2>4 DEF GoodUsage, Due
  <2>6. CASE Outcome(s, j) < 0
    <3>1. Marks(w, f, j)' = {a}
      <4>1. \A b \in Attempts : <<j, b, f>> \in win'[w].own <=> b = a
        BY <1>3, <1>5, <2>6 DEF SeededHash
      <4> QED BY <2>2, <4>1 DEF Marks
    <3>2. Cardinality({a}) = 1
      BY FS_Singleton
    <3>3. AmountOf[j] * 1 = AmountOf[j]
      BY <1>1
    <3>4. Correction(s, w, f, j) = 0
      BY <2>2, <2>6 DEF Correction
    <3> HIDE DEF a
    <3>5. Term(w, f, j)' = AmountOf[j] + (IF row[j].attempt = a THEN 0 ELSE Due(w, f, j))
      BY <1>4, <3>1, <3>2, <3>3
    <3> QED BY <1>1, <2>3, <2>5, <3>4, <3>5
  <2>7. CASE Outcome(s, j) >= 0
    <3>1. Marks(w, f, j)' = {}
      <4>1. \A b \in Attempts : <<j, b, f>> \notin win'[w].own
        BY <1>3, <2>2, <2>7 DEF SeededHash
      <4> QED BY <4>1 DEF Marks
    <3>2. Cardinality({}) = 0 /\ AmountOf[j] * 0 = 0
      BY <1>1, FS_EmptySet
    <3>3. Term(w, f, j)' = Due(w, f, j)
      BY <1>2, <1>4, <3>1, <3>2
    <3>4. Correction(s, w, f, j) = Outcome(s, j) - AmountOf[j]
      BY <1>5, <2>7 DEF Correction
    <3>5. Final(j, a, Outcome(s, j)) /\ Outcome(s, j) \in Nat
      BY <2>2, <2>7 DEF KeyOf, Settled, Outcome
    <3> HIDE DEF a
    <3>6. Due(w, f, j) <= Outcome(s, j)
      <4>1. CASE a = row[j].attempt
        BY <1>1, <3>5, <4>1, FinalDue
      <4>2. CASE a # row[j].attempt
        BY <2>5, <3>5, <4>2
      <4> QED BY <4>1, <4>2
    <3> QED BY <1>1, <1>2, <2>3, <3>3, <3>4, <3>5, <3>6
  <2> QED BY <2>2, <2>6, <2>7
<1>6. CASE ~(j \in KnownAt(s, w) /\ f \in FieldsOf[j])
  <2>1. Marks(w, f, j)' = {}
    <3>1. \A b \in Attempts : <<j, b, f>> \notin win'[w].own
      BY <1>3, <1>6 DEF SeededHash
    <3> QED BY <3>1 DEF Marks
  <2>2. Cardinality({}) = 0 /\ AmountOf[j] * 0 = 0
    BY <1>1, FS_EmptySet
  <2>3. Term(w, f, j)' = Due(w, f, j)
    BY <1>2, <1>4, <2>1, <2>2
  <2>4. Correction(s, w, f, j) = 0 /\ Need(s, w, f, j) = Due(w, f, j)
    BY <1>6 DEF Correction, Need, KnownAt
  <2> QED BY <1>2, <2>3, <2>4
<1> QED BY <1>5, <1>6

LEMMA SeededLoad ==
  ASSUME TypeOK, TypeOK', row' = row, Counters, NEW w \in Windows, NEW i \in Ids,
         NEW s \in Snapshots,
         NEW h \in Windows, GoodSnapshot(s, i, h), w \in WindowsAt(h), MarkersOf(w),
         \A j \in Ids, a \in Attempts : KeyOf(j, a), SeededHash(s, w, i),
         NEW f \in win'[w].init
  PROVE  Load(w, f)' <= win'[w].used[f]
<1>1. IsFiniteSet(Ids) /\ f \in Fields
  BY BudgetAssumption, HashType DEF SeededHash
<1>2. \A j \in Ids : Term(w, f, j) \in Nat /\ Term(w, f, j)' \in Nat
  BY Zenon, <1>1, MeasuredNow, MeasuredNext DEF Measured
<1>3. CASE f \in FieldsOf[i] \ win[w].init
  <2> DEFINE N == [j \in Ids |-> Need(s, w, f, j)]
             C == [j \in Ids |-> Correction(s, w, f, j)]
             B == [j \in Ids |-> Need(s, w, f, j) + Correction(s, w, f, j)]
             U == [j \in Ids |-> Term(w, f, j)']
  <2>1. \A j \in Ids : Term(w, f, j)' <= Need(s, w, f, j) + Correction(s, w, f, j)
    BY <1>3, SeededTerm
  <2>2. \A j \in Ids : /\ Need(s, w, f, j) \in Nat /\ Correction(s, w, f, j) \in Int
                       /\ Need(s, w, f, j) + Correction(s, w, f, j) \in Nat
    BY <1>1, NeedType, CorrectionType
  <2>3. \A j \in Ids : /\ N[j] \in Int /\ C[j] \in Int /\ B[j] = N[j] + C[j]
                       /\ U[j] \in Int /\ B[j] \in Int /\ U[j] <= B[j]
    BY <1>2, <2>1, <2>2
  <2>4. GoodUsage(s, w, f)
    BY <1>3 DEF GoodSnapshot
  <2>5. Sum(N, Ids) <= s.usage[w][f] /\ s.usage[w][f] \in Nat
    BY <1>1, <2>4 DEF GoodUsage, Snapshots
  <2>6. win'[w].used[f] = s.usage[w][f] + Sum(C, Ids)
    BY <1>1, <1>3 DEF SeededHash
  <2>7. Load(w, f)' = Sum(U, Ids)
    BY Zenon DEF Load
  <2> HIDE DEF N, C, B, U
  <2>8. /\ Sum(B, Ids) = Sum(N, Ids) + Sum(C, Ids) /\ Sum(U, Ids) <= Sum(B, Ids)
        /\ Sum(N, Ids) \in Int /\ Sum(C, Ids) \in Int /\ Sum(U, Ids) \in Int
    BY <1>1, <2>3, SumPlus, SumMonotone, SumType
  <2> QED BY <2>5, <2>6, <2>7, <2>8
<1>4. CASE f \notin FieldsOf[i] \ win[w].init
  <2>1. f \in win[w].init /\ win'[w].used[f] = win[w].used[f] /\ win[w].used[f] \in Nat
    <3>1. /\ win'[w].init = win[w].init \cup FieldsOf[i]
          /\ f \notin FieldsOf[i] \ win[w].init => win'[w].used[f] = win[w].used[f]
      BY <1>1 DEF SeededHash
    <3> QED BY <1>1, <1>4, <3>1, HashType
  <2>2. \A j \in Ids : Term(w, f, j)' <= Term(w, f, j)
    <3> SUFFICES ASSUME NEW j \in Ids PROVE Term(w, f, j)' <= Term(w, f, j)
      OBVIOUS
    <3>1. Marks(w, f, j)' = Marks(w, f, j)
      BY <1>4 DEF Marks, SeededHash
    <3>2. Steady(j) /\ Eases(w, f, j)
      BY SameRow, CalmEases DEF Calm
    <3> QED BY <1>1, <3>1, <3>2, CalmTerm
  <2>3. Load(w, f)' <= Load(w, f)
    BY <1>1, <2>2, CalmLoad
  <2>4. Load(w, f) \in Int /\ Load(w, f)' \in Int
    BY Zenon, <1>1, MeasuredNow, MeasuredNext DEF Measured
  <2>5. Load(w, f) <= win[w].used[f]
    BY <2>1 DEF Counters
  <2> QED BY <2>1, <2>3, <2>4, <2>5
<1> QED BY <1>3, <1>4

LEMMA InitializeStep ==
  ASSUME BudgetInv, NEW c \in Callers, Initialize(c)
  PROVE  BudgetInv'
<1> DEFINE i == call[c].id
           h == call[c].hour
           s == call[c].snap
           x == [call[c] EXCEPT !.pc = "reserve", !.snap = NoSnapshot]
<1>1. /\ call[c].pc = "initialize" /\ row' = row /\ key' = key /\ job' = job
      /\ win' = [w \in Windows |-> IF w \in WindowsAt(h)
                                   THEN InitializedWindow(w, i, s) ELSE win[w]]
      /\ call' = [call EXCEPT ![c] = x]
  BY DEF Initialize
<1>2. /\ TypeOK /\ Rows /\ Counters /\ WithinBudget /\ OneHolder /\ SnapshotOf(c)
      /\ \A j \in Ids, b \in Attempts : KeyOf(j, b)
      /\ \A w \in Windows : MarkersOf(w)
  BY DEF BudgetInv
<1>3. call[c].pc \in Holding \ {"provider"}
  BY <1>1 DEF Holding
<1>4. i \in Ids /\ h \in Windows /\ s \in Snapshots /\ GoodSnapshot(s, i, h)
  BY <1>1, <1>2, <1>3, Holder, CallType DEF SnapshotOf, Snapshots
<1>5. /\ x \in CallRecords /\ x.pc = "reserve" /\ x.id = i /\ x.hour = h
      /\ x.attempt = call[c].attempt
  BY <1>2, CallType, NoSnapshotType DEF CallRecords
<1> HIDE DEF i, h, s, x
<1>6. /\ call' \in [Callers -> CallRecords] /\ call'[c] = x
      /\ \A d \in Callers : d # c => call'[d] = call[d]
  BY <1>1, <1>2, <1>5, CallSet
<1>7. ASSUME NEW w \in WindowsAt(h)
      PROVE  w \in Windows /\ win'[w] \in Hashes /\ SeededHash(s, w, i)
  <2>1. w \in Windows
    BY <1>4 DEF WindowsAt, Windows
  <2>2. win'[w] = InitializedWindow(w, i, s)
    BY <1>1, <2>1
  <2> QED BY <1>2, <1>4, <2>1, <2>2, InitializedHash DEF SeededHash
<1>8. \A w \in Windows : w \notin WindowsAt(h) => win'[w] = win[w]
  BY <1>1
<1>9. TypeOK'
  <2>1. \A w \in Windows : win'[w] \in Hashes
    BY <1>2, <1>7, <1>8, HashType
  <2>2. win' \in [Windows -> Hashes]
    BY <1>1, <2>1
  <2> QED BY <1>1, <1>2, <1>6, <2>2 DEF TypeOK
<1>10. Rows' /\ \A j \in Ids : Calm(j)
  BY <1>1, <1>2, SameRow DEF Rows
<1>11. WithinBudget'
  BY <1>2, <1>9, <1>10, CalmBudget
<1>12. Counters'
  <2> SUFFICES ASSUME NEW w \in Windows, NEW f \in win'[w].init
               PROVE  Load(w, f)' <= win'[w].used[f]
    BY DEF Counters
  <2>1. CASE w \in WindowsAt(h)
    BY <1>1, <1>2, <1>4, <1>7, <1>9, <2>1, SeededLoad
  <2>2. CASE w \notin WindowsAt(h)
    BY <1>1, <1>2, <1>8, <1>9, <2>2, SameHashLoad
  <2> QED BY <2>1, <2>2
<1>13. \A j \in Ids, b \in Attempts : KeyOf(j, b)'
  BY <1>1, <1>2, <1>9, <1>10, KeyKept DEF Calm
<1>14. ASSUME NEW w \in Windows PROVE MarkersOf(w)' /\ win[w].init \subseteq win'[w].init
  <2>1. CASE w \in WindowsAt(h)
    <3>1. SeededHash(s, w, i)
      BY <1>7, <2>1
    <3>2. MarkersOf(w)'
      BY <1>2, <1>4, <3>1, SeededMarkers
    <3>3. win'[w].init = win[w].init \cup FieldsOf[i]
      BY <3>1 DEF SeededHash
    <3> QED BY <3>2, <3>3
  <2>2. CASE w \notin WindowsAt(h)
    BY <1>2, <1>8, <2>2 DEF MarkersOf
  <2> QED BY <2>1, <2>2
<1>15. "reserve" \in Holding \ {"provider"}
  BY DEF Holding
<1>16. OneHolder'
  BY <1>2, <1>3, <1>5, <1>6, OneHolderKept DEF i
<1>17. CallOf(c)'
  BY <1>1, <1>3, <1>5, <1>6, <1>15, Holder DEF CallOf, Holding, i, h
<1>18. SnapshotOf(c)'
  BY <1>5, <1>6, NoSnapshotOf
<1> QED BY <1>1, <1>6, <1>9, <1>10, <1>11, <1>12, <1>13, <1>14, <1>16, <1>17, <1>18, RedisStep

-----------------------------------------------------------------------------
(* Letting a request through *)

LEMMA ReservedHash ==
  ASSUME TypeOK, NEW w \in Windows, MarkersOf(w), NEW i \in Ids, NEW a \in Attempts,
         FieldsOf[i] \subseteq win[w].init, win'[w] = ReservedWindow(w, i, a)
  PROVE  /\ win'[w] \in Hashes /\ win'[w].init = win[w].init /\ MarkersOf(w)'
         /\ \A f \in Fields, j \in Ids :
              Marks(w, f, j)' = IF j = i /\ f \in FieldsOf[i] THEN Marks(w, f, i) \cup {a}
                                ELSE Marks(w, f, j)
         /\ \A f \in Fields : win'[w].used[f] =
              IF f \in FieldsOf[i] /\ ~Counts(w, i, a, f) THEN win[w].used[f] + AmountOf[i]
              ELSE win[w].used[f]
<1> DEFINE new == {f \in FieldsOf[i] : ~Counts(w, i, a, f)}
           u == [f \in Fields |-> IF f \in new THEN win[w].used[f] + AmountOf[i]
                                  ELSE win[w].used[f]]
           o == win[w].own \cup {<<i, a, f>> : f \in new}
           b == win[w].bare \cup {<<i, a>>}
<1>1. FieldsOf[i] \subseteq Fields /\ AmountOf[i] \in Nat
  BY BudgetAssumption
<1>2. \A f \in FieldsOf[i] : f \in new <=> <<i, a, f>> \notin win[w].own
  BY CountsIsMarked
<1>3. /\ win[w].own \in SUBSET (Ids \X Attempts \X Fields) /\ win[w].used \in [Fields -> Nat]
      /\ win[w].bare \in SUBSET (Ids \X Attempts) /\ win[w] \in Hashes
  BY HashType
<1>4. win'[w] = [win[w] EXCEPT !.used = u, !.own = o, !.bare = b]
  <2>1. ReservedWindow(w, i, a) =
          [win[w] EXCEPT
             !.used = [f \in Fields |-> IF f \in new THEN @[f] + AmountOf[i] ELSE @[f]],
             !.own = @ \cup {<<i, a, f>> : f \in new},
             !.bare = @ \cup {<<i, a>>}]
    BY DEF ReservedWindow
  <2> HIDE DEF new
  <2> QED BY <1>3, <2>1 DEF Hashes
<1>5. /\ u \in [Fields -> Nat] /\ o \in SUBSET (Ids \X Attempts \X Fields)
      /\ b \in SUBSET (Ids \X Attempts)
  BY <1>1, <1>3
<1>6. ASSUME NEW j, NEW d, NEW f
      PROVE  <<j, d, f>> \in o <=> <<j, d, f>> \in win[w].own \/ (j = i /\ d = a /\ f \in FieldsOf[i])
  <2>1. <<j, d, f>> \in {<<i, a, g>> : g \in new} <=> j = i /\ d = a /\ f \in new
    OBVIOUS
  <2>2. f \in new => f \in FieldsOf[i]
    OBVIOUS
  <2> HIDE DEF new
  <2> QED BY <1>2, <2>1, <2>2
<1>7. \A f \in Fields : u[f] =
        IF f \in FieldsOf[i] /\ ~Counts(w, i, a, f) THEN win[w].used[f] + AmountOf[i]
        ELSE win[w].used[f]
  OBVIOUS
<1>8. \A j, d : <<j, d>> \in b <=> <<j, d>> \in win[w].bare \/ (j = i /\ d = a)
  OBVIOUS
<1> HIDE DEF u, o, b, new
<1>9. win'[w] \in Hashes
  BY <1>3, <1>4, <1>5 DEF Hashes
<1>10. /\ win'[w].init = win[w].init /\ win'[w].used = u /\ win'[w].own = o /\ win'[w].bare = b
  BY <1>3, <1>4 DEF Hashes
<1>11. ASSUME NEW f \in Fields, NEW j \in Ids
       PROVE  Marks(w, f, j)' = IF j = i /\ f \in FieldsOf[i] THEN Marks(w, f, i) \cup {a}
                                ELSE Marks(w, f, j)
  <2>1. \A d \in Attempts : <<j, d, f>> \in win'[w].own <=>
          <<j, d, f>> \in win[w].own \/ (j = i /\ d = a /\ f \in FieldsOf[i])
    BY <1>6, <1>10
  <2> QED BY <2>1 DEF Marks
<1>12. MarkersOf(w)'
  <2>1. ASSUME NEW j \in Ids, NEW d \in Attempts, NEW f \in Fields, <<j, d, f>> \in win'[w].own
        PROVE  f \in FieldsOf[j] /\ f \in win'[w].init
    BY <1>6, <1>10, <2>1 DEF MarkersOf
  <2>2. ASSUME NEW j \in Ids, NEW d \in Attempts, <<j, d>> \in win'[w].bare, FieldsOf[j] # {}
        PROVE  \E f \in FieldsOf[j] : <<j, d, f>> \in win'[w].own
    <3>1. CASE j = i /\ d = a
      <4>1. PICK f \in FieldsOf[j] : TRUE
        BY <2>2
      <4> QED BY <1>6, <1>10, <3>1, <4>1
    <3>2. CASE <<j, d>> \in win[w].bare
      <4>1. PICK f \in FieldsOf[j] : <<j, d, f>> \in win[w].own
        BY <2>2, <3>2 DEF MarkersOf
      <4> QED BY <1>6, <1>10, <4>1
    <3> QED BY <1>8, <1>10, <2>2, <3>1, <3>2
  <2> QED BY <2>1, <2>2 DEF MarkersOf
<1> QED BY <1>7, <1>9, <1>10, <1>11, <1>12

(* The counter takes the reservation unless it holds the attempt already.  *)
LEMMA ReservedTerm ==
  ASSUME TypeOK, TypeOK', NEW i \in Ids, NEW w \in Windows, NEW f \in Fields,
         NEW a \in Attempts, row'[i].attempt = a,
         Marks(w, f, i)' = Marks(w, f, i) \cup {a}
  PROVE  Term(w, f, i)' <= Term(w, f, i) + (IF a \in Marks(w, f, i) THEN 0 ELSE AmountOf[i])
<1> DEFINE M == Marks(w, f, i)
           n == Cardinality(M)
           t == AmountOf[i] * n
<1>1. IsFiniteSet(M) /\ n \in Nat
  BY MarksFinite
<1>2. AmountOf[i] \in Nat /\ Due(w, f, i) \in Nat /\ t \in Nat
  BY <1>1, Amounts, DueType, Times
<1>3. Term(w, f, i) = t + (IF row[i].attempt \in M THEN 0 ELSE Due(w, f, i))
  BY DEF Term
<1>4. Term(w, f, i)' = AmountOf[i] * Cardinality(M \cup {a})
  <2>1. a \in M \cup {a}
    OBVIOUS
  <2>2. AmountOf[i] * Cardinality(M \cup {a}) \in Nat
    BY <1>1, <1>2, FS_AddElement, FS_CardinalityType, Times
  <2>3. Term(w, f, i)' = AmountOf[i] * Cardinality(M \cup {a}) + 0
    BY <2>1 DEF Term
  <2> QED BY <2>2, <2>3
<1>5. CASE a \in M
  <2>1. M \cup {a} = M
    BY <1>5
  <2> HIDE DEF M
  <2>2. Term(w, f, i)' = t
    BY <1>4, <2>1
  <2> HIDE DEF t, n
  <2> QED BY <1>2, <1>3, <1>5, <2>2 DEF M
<1>6. CASE a \notin M
  <2>1. Cardinality(M \cup {a}) = n + 1
    BY <1>1, <1>6, FS_AddElement
  <2>2. AmountOf[i] * (n + 1) = t + AmountOf[i]
    BY <1>1, <1>2, Times
  <2>3. Term(w, f, i)' = t + AmountOf[i]
    BY <1>4, <2>1, <2>2
  <2> HIDE DEF t, n
  <2> QED BY <1>2, <1>3, <1>6, <2>3
<1> QED BY <1>5, <1>6

(* What the script changes, seen from the rows: the reservation of the     *)
(* request may be marked as admitted.                                      *)
Admits(i) ==
  /\ row'[i].attempt = row[i].attempt /\ row'[i].hour = row[i].hour
  /\ row'[i].status = row[i].status /\ row'[i].actual = row[i].actual
  /\ \A j \in Ids : j # i => row'[j] = row[j]

LEMMA AdmitsSteady ==
  ASSUME TypeOK, NEW i \in Ids, Admits(i)
  PROVE  \A j \in Ids : Steady(j)
BY SameRow, RowType DEF Admits, Steady, Calm

(* Nobody asks more of a counter that the request is not charged to. *)
LEMMA AdmitsEases ==
  ASSUME TypeOK, NEW i \in Ids, Admits(i), NEW w \in Windows, NEW f \in Fields,
         ~(w \in WindowsAt(row[i].hour) /\ f \in FieldsOf[i]), NEW j \in Ids
  PROVE  Eases(w, f, j)
<1>1. CASE j = i
  BY <1>1 DEF Admits, Eases, Wants, In
<1>2. CASE j # i
  BY <1>2, SameRow, CalmEases DEF Admits
<1> QED BY <1>1, <1>2

LEMMA ReservedLoad ==
  ASSUME TypeOK, TypeOK', Counters, NEW i \in Ids, NEW a \in Attempts, Admits(i),
         row[i].attempt = a, NEW w \in WindowsAt(row[i].hour), w \in Windows, MarkersOf(w),
         NEW f \in win[w].init,
         \A g \in Fields, j \in Ids :
           Marks(w, g, j)' = IF j = i /\ g \in FieldsOf[i] THEN Marks(w, g, i) \cup {a}
                             ELSE Marks(w, g, j),
         \A g \in Fields : win'[w].used[g] =
           IF g \in FieldsOf[i] /\ ~Counts(w, i, a, g) THEN win[w].used[g] + AmountOf[i]
           ELSE win[w].used[g]
  PROVE  Load(w, f)' <= win'[w].used[f]
<1> DEFINE T == [j \in Ids |-> Term(w, f, j)]
           U == [j \in Ids |-> Term(w, f, j)']
<1>1. /\ f \in Fields /\ win[w].used[f] \in Nat /\ AmountOf[i] \in Nat
      /\ IsFiniteSet(Ids)
  BY HashType, BudgetAssumption
<1>2. \A j \in Ids : Term(w, f, j) \in Nat /\ Term(w, f, j)' \in Nat
  BY Zenon, <1>1, MeasuredNow, MeasuredNext DEF Measured
<1>3. Load(w, f) = Sum(T, Ids) /\ Load(w, f)' = Sum(U, Ids)
  BY Zenon DEF Load
<1>4. Load(w, f) <= win[w].used[f]
  BY DEF Counters
<1>5. ASSUME NEW j \in Ids, j # i PROVE Term(w, f, j)' <= Term(w, f, j)
  <2>1. Calm(j)
    BY <1>5, SameRow DEF Admits
  <2>2. Steady(j) /\ Eases(w, f, j)
    BY <2>1, CalmEases DEF Calm
  <2>3. Marks(w, f, j)' = Marks(w, f, j)
    BY <1>1, <1>5
  <2> QED BY <1>1, <2>2, <2>3, CalmTerm
<1>6. CASE f \in FieldsOf[i]
  <2> DEFINE k == IF a \in Marks(w, f, i) THEN 0 ELSE AmountOf[i]
  <2>1. Term(w, f, i)' <= Term(w, f, i) + k
    <3>1. Marks(w, f, i)' = Marks(w, f, i) \cup {a} /\ row'[i].attempt = a
      BY <1>1, <1>6 DEF Admits
    <3> QED BY <1>1, <3>1, ReservedTerm
  <2>2. win'[w].used[f] = win[w].used[f] + k
    <3>1. Counts(w, i, a, f) <=> a \in Marks(w, f, i)
      BY <1>6, CountsIsMarked
    <3> QED BY <1>1, <1>6, <3>1
  <2>3. k \in Nat
    BY <1>1
  <2>4. /\ \A j \in Ids : T[j] \in Int /\ U[j] \in Int
        /\ \A j \in Ids \ {i} : U[j] <= T[j]
        /\ U[i] <= T[i] + k
    BY <1>2, <1>5, <2>1
  <2> HIDE DEF T, U, k
  <2>5. Sum(U, Ids) <= Sum(T, Ids) - T[i] + U[i] /\ Sum(U, Ids) \in Int /\ Sum(T, Ids) \in Int
    BY <1>1, <2>4, SumOne, SumType
  <2> QED BY <1>1, <1>3, <1>4, <2>2, <2>3, <2>4, <2>5
<1>7. CASE f \notin FieldsOf[i]
  <2>1. Term(w, f, i)' <= Term(w, f, i)
    <3>1. Marks(w, f, i)' = Marks(w, f, i)
      BY <1>1, <1>7
    <3>2. Steady(i) /\ Eases(w, f, i)
      BY <1>1, <1>7, AdmitsSteady, AdmitsEases
    <3> QED BY <1>1, <3>1, <3>2, CalmTerm
  <2>2. \A j \in Ids : Term(w, f, j)' <= Term(w, f, j)
    BY <1>5, <2>1
  <2>3. Load(w, f)' <= Load(w, f)
    BY <1>1, <2>2, CalmLoad
  <2>4. Load(w, f) \in Int /\ Load(w, f)' \in Int
    BY Zenon, <1>1, MeasuredNow, MeasuredNext DEF Measured
  <2>5. win'[w].used[f] = win[w].used[f]
    BY <1>1, <1>7
  <2> QED BY <1>1, <1>4, <2>3, <2>4, <2>5
<1> QED BY <1>6, <1>7

(* The script, whatever the request learns of it. *)
LEMMA AdmittedStep ==
  ASSUME BudgetInv, NEW i \in Ids, NEW a \in Attempts, NEW h \in Hours,
         row[i].attempt = a, row[i].hour = h,
         ReserveAnswer(i, a, h) = "admitted",
         win' = [w \in Windows |-> IF w \in WindowsAt(h) THEN ReservedWindow(w, i, a) ELSE win[w]],
         key' = [key EXCEPT ![i][a] = Held], job' = job,
         row' \in [Ids -> RowRecords], Admits(i), call' \in [Callers -> CallRecords]
  PROVE  /\ TypeOK' /\ Rows' /\ Counters' /\ WithinBudget'
         /\ \A j \in Ids, b \in Attempts : KeyOf(j, b)'
         /\ \A w \in Windows : MarkersOf(w)' /\ win'[w].init = win[w].init
         /\ \A w \in Windows : \A f \in Fields \ win[w].init : \A j \in Ids : Eases(w, f, j)
<1>1. /\ TypeOK /\ Rows /\ Counters /\ WithinBudget
      /\ \A j \in Ids, b \in Attempts : KeyOf(j, b)
      /\ \A w \in Windows : MarkersOf(w)
  BY DEF BudgetInv
<1>2. Warm(i, h) /\ key[i][a] = Unset /\ WithinLimits(i, a, h)
  BY Zenon DEF ReserveAnswer
<1>3. FieldsOf[i] \subseteq Fields /\ AmountOf[i] \in Nat /\ h \in Windows
  BY BudgetAssumption DEF Windows
<1>4. ASSUME NEW w \in WindowsAt(h)
      PROVE  /\ w \in Windows /\ FieldsOf[i] \subseteq win[w].init
             /\ win'[w] \in Hashes /\ win'[w].init = win[w].init /\ MarkersOf(w)'
             /\ \A f \in Fields, j \in Ids :
                  Marks(w, f, j)' = IF j = i /\ f \in FieldsOf[i] THEN Marks(w, f, i) \cup {a}
                                    ELSE Marks(w, f, j)
             /\ \A f \in Fields : win'[w].used[f] =
                  IF f \in FieldsOf[i] /\ ~Counts(w, i, a, f) THEN win[w].used[f] + AmountOf[i]
                  ELSE win[w].used[f]
  <2>1. w \in Windows
    BY <1>3 DEF WindowsAt, Windows
  <2>2. FieldsOf[i] \subseteq win[w].init /\ win'[w] = ReservedWindow(w, i, a)
    BY <1>2, <2>1 DEF Warm
  <2>3. MarkersOf(w)
    BY <1>1, <2>1
  <2> QED BY <1>1, <2>1, <2>2, <2>3, ReservedHash
<1>5. \A w \in Windows : w \notin WindowsAt(h) => win'[w] = win[w]
  OBVIOUS
<1>6. TypeOK'
  <2>1. \A w \in Windows : win'[w] \in Hashes
    BY <1>1, <1>4, <1>5, HashType
  <2>2. win' \in [Windows -> Hashes]
    BY <2>1
  <2>3. key' \in [Ids -> [Attempts -> {Unset, Held} \cup Nat]]
    BY <1>1 DEF TypeOK
  <2> QED BY <1>1, <2>2, <2>3 DEF TypeOK
<1>7. Rows'
  BY <1>1 DEF Rows, Admits
<1>8. \A j \in Ids : Steady(j)
  BY <1>1, AdmitsSteady
<1>9. Counters'
  <2> SUFFICES ASSUME NEW w \in Windows, NEW f \in win'[w].init
               PROVE  Load(w, f)' <= win'[w].used[f]
    BY DEF Counters
  <2>1. CASE w \in WindowsAt(h)
    <3>1. f \in win[w].init
      BY <1>4, <2>1
    <3> QED BY <1>1, <1>4, <1>6, <2>1, <3>1, ReservedLoad
  <2>2. CASE w \notin WindowsAt(h)
    <3>1. win'[w] = win[w] /\ f \in win[w].init /\ f \in Fields /\ win[w].used[f] \in Nat
      BY <1>1, <1>5, <2>2, HashType
    <3>2. ASSUME NEW j \in Ids PROVE Term(w, f, j)' <= Term(w, f, j)
      <4>1. Marks(w, f, j)' = Marks(w, f, j)
        BY <3>1 DEF Marks
      <4>2. Eases(w, f, j)
        BY <1>1, <2>2, <3>1, AdmitsEases
      <4> QED BY <1>1, <1>6, <1>8, <3>1, <4>1, <4>2, CalmTerm
    <3>3. Load(w, f)' <= Load(w, f)
      BY <1>1, <1>6, <3>1, <3>2, CalmLoad
    <3>4. Load(w, f) \in Int /\ Load(w, f)' \in Int
      BY Zenon, <1>1, <1>6, <3>1, MeasuredNow, MeasuredNext DEF Measured
    <3>5. Load(w, f) <= win[w].used[f]
      BY <1>1, <3>1 DEF Counters
    <3> QED BY <3>1, <3>3, <3>4, <3>5
  <2> QED BY <2>1, <2>2
<1>10. WithinBudget'
  <2> SUFFICES ASSUME NEW w \in Windows, NEW f \in Fields PROVE Spent(w, f)' <= LimitOf(w, f)
    BY DEF WithinBudget, LimitOf
  <2>1. CASE w \in WindowsAt(h) /\ f \in FieldsOf[i]
    <3>1. f \in win'[w].init
      BY <1>4, <2>1
    <3>2. Load(w, f)' <= win'[w].used[f]
      BY <1>9, <3>1 DEF Counters
    <3>3. Spent(w, f)' <= Load(w, f)' /\ Spent(w, f)' \in Int /\ Load(w, f)' \in Int
      BY Zenon, <1>6, MeasuredNext DEF Measured
    <3>4. win[w].used[f] + (IF Counts(w, i, a, f) THEN 0 ELSE AmountOf[i]) <= LimitOf(w, f)
      BY Zenon, <1>2, <2>1 DEF WithinLimits
    <3>5. win[w].used[f] \in Nat /\ LimitOf(w, f) \in Nat
      BY <1>1, HashType, BudgetAssumption DEF LimitOf
    <3>6. win'[w].used[f] = win[w].used[f] + (IF Counts(w, i, a, f) THEN 0 ELSE AmountOf[i])
      <4>1. win'[w].used[f] =
              IF f \in FieldsOf[i] /\ ~Counts(w, i, a, f) THEN win[w].used[f] + AmountOf[i]
              ELSE win[w].used[f]
        BY <1>4, <2>1
      <4> QED BY <2>1, <3>5, <4>1
    <3> QED BY <1>3, <3>2, <3>3, <3>4, <3>5, <3>6
  <2>2. CASE ~(w \in WindowsAt(h) /\ f \in FieldsOf[i])
    <3>1. \A j \in Ids : Due(w, f, j)' <= Due(w, f, j)
      BY <1>1, <1>6, <2>2, AdmitsEases, EasesDue
    <3> QED BY <1>1, <1>6, <3>1, CalmSpent DEF WithinBudget
  <2> QED BY <2>1, <2>2
<1>11. ASSUME NEW j \in Ids, NEW b \in Attempts PROVE KeyOf(j, b)'
  <2>1. CASE j = i /\ b = a
    <3>1. key'[j][b] = Held
      BY <1>1, <2>1 DEF TypeOK
    <3> QED BY <3>1 DEF KeyOf, Settled, Held
  <2>2. CASE ~(j = i /\ b = a)
    <3>1. key'[j][b] = key[j][b]
      BY <1>1, <2>2 DEF TypeOK
    <3> QED BY <1>1, <1>6, <1>8, <3>1, KeyKept
  <2> QED BY <2>1, <2>2
<1>12. ASSUME NEW w \in Windows PROVE MarkersOf(w)' /\ win'[w].init = win[w].init
  <2>1. CASE w \in WindowsAt(h)
    BY <1>4, <2>1
  <2>2. CASE w \notin WindowsAt(h)
    BY <1>1, <1>5, <2>2 DEF MarkersOf
  <2> QED BY <2>1, <2>2
<1>13. ASSUME NEW w \in Windows, NEW f \in Fields \ win[w].init, NEW j \in Ids
       PROVE  Eases(w, f, j)
  <2>1. ~(w \in WindowsAt(h) /\ f \in FieldsOf[i])
    BY <1>4
  <2> QED BY <1>1, <2>1, AdmitsEases
<1> QED BY <1>6, <1>7, <1>9, <1>10, <1>11, <1>12, <1>13

LEMMA ReserveStep ==
  ASSUME BudgetInv, NEW c \in Callers, Reserve(c)
  PROVE  BudgetInv'
<1> DEFINE i == call[c].id
           a == call[c].attempt
           h == call[c].hour
           r == [row[i] EXCEPT !.admitted = TRUE]
<1>1. /\ call[c].pc = "reserve" /\ ReserveAnswer(i, a, h) = "admitted" /\ job' = job
      /\ win' = [w \in Windows |-> IF w \in WindowsAt(h) THEN ReservedWindow(w, i, a) ELSE win[w]]
      /\ key' = [key EXCEPT ![i][a] = Held]
      /\ \/ Goto(c, "provider") /\ row' = [row EXCEPT ![i] = r]
         \/ Return(c) /\ row' = row
         \/ Goto(c, "unreserve") /\ row' = row
  BY Zenon DEF Reserve, Write
<1>2. /\ TypeOK /\ OneHolder
      /\ \A d \in Callers : CallOf(d) /\ SnapshotOf(d)
      /\ \A k \in Jobs : JobOf(k)
  BY DEF BudgetInv
<1>3. call[c].pc \in Holding \ {"provider"}
  BY <1>1 DEF Holding
<1>4. /\ i \in Ids /\ a \in Attempts /\ h \in Hours /\ row[i].attempt = a /\ row[i].hour = h
      /\ row[i].status \in {"reserved", "charged_unknown"} /\ ~row[i].admitted
  BY <1>3, Holder
<1>5. /\ r \in RowRecords /\ r.attempt = row[i].attempt /\ r.hour = row[i].hour
      /\ r.status = row[i].status /\ r.actual = row[i].actual
  BY <1>2, <1>4, RowType DEF RowRecords
<1> HIDE DEF r
<1>6. row' \in [Ids -> RowRecords] /\ Admits(i)
  <2>1. CASE row' = row
    BY <1>2, <2>1 DEF TypeOK, Admits
  <2>2. CASE row' = [row EXCEPT ![i] = r]
    <3>1. /\ row' \in [Ids -> RowRecords] /\ row'[i] = r
          /\ \A j \in Ids : j # i => row'[j] = row[j]
      BY <1>2, <1>4, <1>5, <2>2, RowWritten
    <3> QED BY <1>5, <3>1 DEF Admits
  <2> QED BY <1>1, <2>1, <2>2
<1>7. /\ call' \in [Callers -> CallRecords]
      /\ \/ call'[c].pc = "idle"
         \/ /\ call'[c].pc = "provider" \/ (call'[c].pc = "unreserve" /\ row' = row)
            /\ call'[c].id = i /\ call'[c].attempt = a /\ call'[c].hour = h
      /\ \A d \in Callers : d # c => call'[d] = call[d]
  <2>1. CASE Goto(c, "provider")
    BY <1>2, <2>1, GotoSet DEF Pcs
  <2>2. CASE Return(c)
    BY <1>2, <2>2, ReturnSet
  <2>3. CASE Goto(c, "unreserve") /\ row' = row
    BY <1>2, <2>3, GotoSet DEF Pcs
  <2> QED BY <1>1, <2>1, <2>2, <2>3
<1>8. /\ TypeOK' /\ Rows' /\ Counters' /\ WithinBudget'
      /\ \A j \in Ids, b \in Attempts : KeyOf(j, b)'
      /\ \A w \in Windows : MarkersOf(w)' /\ win'[w].init = win[w].init
      /\ \A w \in Windows : \A f \in Fields \ win[w].init : \A j \in Ids : Eases(w, f, j)
  <2> HIDE DEF i, a, h
  <2> QED BY <1>1, <1>4, <1>6, <1>7, AdmittedStep
<1>9. \A j \in Ids : Steady(j)
  BY <1>2, <1>4, <1>6, AdmitsSteady
<1>10. ASSUME NEW d \in Callers PROVE CallOf(d)' /\ SnapshotOf(d)'
  <2>1. CASE d = c
    <3>1. CallOf(c)'
      BY <1>4, <1>6, <1>7 DEF CallOf, Holding, Admits
    <3>2. SnapshotOf(c)'
      BY <1>7, NoSnapshotOf
    <3> QED BY <2>1, <3>1, <3>2
  <2>2. CASE d # c
    <3>1. call'[d] = call[d]
      BY <1>7, <2>2
    <3>2. call[d].pc \in Holding => Kept(call[d].id)
      <4> SUFFICES ASSUME call[d].pc \in Holding PROVE Kept(call[d].id)
        OBVIOUS
      <4>1. call[d].id \in Ids /\ call[d].id # i
        BY <1>2, <1>3, <2>2, Holder DEF OneHolder
      <4>2. row'[call[d].id] = row[call[d].id]
        BY <1>6, <4>1 DEF Admits
      <4> QED BY <1>2, <4>1, <4>2, SameRow
    <3>3. CallOf(d)'
      BY <1>2, <1>8, <1>9, <3>1, <3>2, CallKept
    <3>4. \A w \in Windows : win[w].init \subseteq win'[w].init
      BY <1>8
    <3>5. SnapshotOf(d)'
      BY <1>2, <1>8, <1>9, <3>1, <3>4, SnapshotKept
    <3> QED BY <3>3, <3>5
  <2> QED BY <2>1, <2>2
<1>11. \A k \in Jobs : JobOf(k)'
  BY <1>1, <1>2, <1>8, <1>9, JobKept
<1>12. OneHolder'
  <2>1. call'[c].pc \in Holding => call[c].pc \in Holding /\ call'[c].id = call[c].id
    BY <1>3, <1>7 DEF Holding
  <2> QED BY <1>2, <1>7, <2>1, OneHolderKept
<1> QED BY <1>8, <1>10, <1>11, <1>12 DEF BudgetInv

-----------------------------------------------------------------------------
(* Losing Redis *)

LEMMA LoseRedisStep ==
  ASSUME BudgetInv, NEW lost \in SUBSET Windows, LoseRedis(lost)
  PROVE  BudgetInv'
<1>1. /\ row' = row /\ call' = call /\ job' = job
      /\ \A c \in Callers : call[c].pc # "initialize"
      /\ win' = [w \in Windows |-> IF w \in lost THEN Cold ELSE win[w]]
      /\ key' = key \/ key' = [i \in Ids |-> [a \in Attempts |-> Unset]]
  BY DEF LoseRedis
<1>2. /\ TypeOK /\ Rows /\ OneHolder /\ Counters /\ WithinBudget
      /\ \A c \in Callers : CallOf(c)
      /\ \A k \in Jobs : JobOf(k)
      /\ \A i \in Ids, a \in Attempts : KeyOf(i, a)
      /\ \A w \in Windows : MarkersOf(w)
  BY DEF BudgetInv
<1>3. TypeOK'
  <2>1. win' \in [Windows -> Hashes]
    BY <1>1, <1>2, HashType, ColdType
  <2>2. key' \in [Ids -> [Attempts -> {Unset, Held} \cup Nat]]
    BY <1>1, <1>2 DEF TypeOK
  <2> QED BY <1>1, <1>2, <2>1, <2>2 DEF TypeOK
<1>4. Rows' /\ OneHolder' /\ \A i \in Ids : Calm(i) /\ Kept(i) /\ Steady(i)
  BY <1>1, <1>2, SameRow DEF Rows, OneHolder, Calm
<1>5. WithinBudget'
  BY <1>2, <1>3, <1>4, CalmBudget
<1>6. Counters'
  <2> SUFFICES ASSUME NEW w \in Windows, NEW f \in win'[w].init
               PROVE  Load(w, f)' <= win'[w].used[f]
    BY DEF Counters
  <2>1. w \notin lost /\ win'[w] = win[w]
    BY <1>1 DEF Cold
  <2> QED BY <1>1, <1>2, <1>3, <2>1, SameHashLoad
<1>7. ASSUME NEW c \in Callers PROVE CallOf(c)' /\ SnapshotOf(c)'
  <2>1. call'[c] = call[c] /\ call'[c].pc # "initialize"
    BY <1>1
  <2>2. call[c].pc \in Holding => Kept(call[c].id)
    BY <1>4, Holder
  <2> QED BY <1>2, <1>3, <1>4, <2>1, <2>2, CallKept, NoSnapshotOf
<1>8. \A k \in Jobs : JobOf(k)'
  BY <1>1, <1>2, <1>3, <1>4, JobKept
<1>9. ASSUME NEW i \in Ids, NEW a \in Attempts PROVE KeyOf(i, a)'
  <2>1. CASE key' = key
    BY <1>2, <1>3, <1>4, <2>1, KeyKept
  <2>2. CASE key' = [j \in Ids |-> [b \in Attempts |-> Unset]]
    BY <2>2 DEF KeyOf, Settled, Unset
  <2> QED BY <1>1, <2>1, <2>2
<1>10. ASSUME NEW w \in Windows PROVE MarkersOf(w)'
  <2>1. CASE w \in lost
    <3>1. win'[w].own = {} /\ win'[w].bare = {}
      BY <1>1, <2>1 DEF Cold
    <3> QED BY <3>1 DEF MarkersOf
  <2>2. CASE w \notin lost
    BY <1>1, <1>2, <2>2 DEF MarkersOf
  <2> QED BY <2>1, <2>2
<1> QED BY <1>3, <1>4, <1>5, <1>6, <1>7, <1>8, <1>9, <1>10 DEF BudgetInv

-----------------------------------------------------------------------------
(* The theorems *)

LEMMA InitBudget == Init => BudgetInv
<1> SUFFICES ASSUME Init PROVE BudgetInv
  OBVIOUS
<1>1. /\ row = [i \in Ids |-> Absent] /\ win = [w \in Windows |-> Cold]
      /\ key = [i \in Ids |-> [a \in Attempts |-> Unset]]
      /\ call = [c \in Callers |-> Idle] /\ job = [k \in Jobs |-> JobIdle]
  BY DEF Init
<1>2. TypeOK
  BY <1>1, AbsentType, ColdType, IdleType, JobIdleType DEF TypeOK
<1>3. \A i \in Ids : row[i].status = "absent" /\ row[i].admitted = FALSE
  BY <1>1 DEF Absent
<1>4. \A c \in Callers : call[c].pc = "idle"
  BY <1>1, IdleType
<1>5. \A k \in Jobs : job[k].pc = "idle"
  BY <1>1, JobIdleType
<1>6. \A w \in Windows : win[w].init = {} /\ win[w].own = {} /\ win[w].bare = {}
  BY <1>1 DEF Cold
<1>7. Rows
  BY <1>3 DEF Rows
<1>8. OneHolder /\ \A c \in Callers : CallOf(c) /\ SnapshotOf(c)
  BY <1>4 DEF OneHolder, CallOf, SnapshotOf, Holding
<1>9. \A k \in Jobs : JobOf(k)
  BY <1>5 DEF JobOf
<1>10. \A i \in Ids, a \in Attempts : KeyOf(i, a)
  BY <1>1 DEF KeyOf, Settled, Unset
<1>11. Counters /\ \A w \in Windows : MarkersOf(w)
  BY <1>6 DEF Counters, MarkersOf
<1>12. WithinBudget
  <2> SUFFICES ASSUME NEW w \in Windows, NEW f \in Fields PROVE Spent(w, f) <= LimitOf(w, f)
    BY DEF WithinBudget
  <2> DEFINE A == [i \in Ids |-> Allowed(i)]
  <2>1. {i \in Ids : Spending(i) /\ In(i, w) /\ f \in FieldsOf[i]} = {}
    BY <1>3 DEF Spending
  <2>2. Spent(w, f) = Sum(A, {})
    BY Zenon, <2>1 DEF Spent, Sum
  <2>3. Sum(A, {}) = 0
    BY SumNone
  <2>4. LimitOf(w, f) \in Nat
    BY BudgetAssumption DEF LimitOf
  <2> QED BY <2>2, <2>3, <2>4
<1> QED BY <1>2, <1>7, <1>8, <1>9, <1>10, <1>11, <1>12 DEF BudgetInv

LEMMA NextBudget == BudgetInv /\ [Next]_vars => BudgetInv'
<1> SUFFICES ASSUME BudgetInv, [Next]_vars PROVE BudgetInv'
  OBVIOUS
<1>1. ASSUME NEW c \in Callers, NEW i \in Ids, NEW h \in Hours, Persist(c, i, h)
      PROVE  BudgetInv'
  BY <1>1, PersistStep
<1>2. ASSUME NEW c \in Callers, LoadSnapshot(c) PROVE BudgetInv'
  BY <1>2, LoadSnapshotStep
<1>3. ASSUME NEW c \in Callers, Initialize(c) PROVE BudgetInv'
  BY <1>3, InitializeStep
<1>4. ASSUME NEW c \in Callers, StalePolicy(c) PROVE BudgetInv'
  BY <1>4, StalePolicyStep
<1>5. ASSUME NEW c \in Callers, Reserve(c) PROVE BudgetInv'
  BY <1>5, ReserveStep
<1>6. ASSUME NEW c \in Callers, Refuse(c) PROVE BudgetInv'
  BY <1>6, RefuseStep
<1>7. ASSUME NEW c \in Callers, Unreserve(c) PROVE BudgetInv'
  BY <1>7, UnreserveStep
<1>8. ASSUME NEW c \in Callers, Keep(c) PROVE BudgetInv'
  BY <1>8, KeepStep
<1>9. ASSUME NEW c \in Callers, Release(c) PROVE BudgetInv'
  BY <1>9, ReleaseStep
<1>10. ASSUME NEW c \in Callers, Refund(c) PROVE BudgetInv'
  BY <1>10, RefundStep
<1>11. ASSUME NEW c \in Callers, MarkRedisSettled(c) PROVE BudgetInv'
  BY <1>11, MarkRedisSettledStep
<1>12. ASSUME NEW c \in Callers, Crash(c) PROVE BudgetInv'
  BY <1>12, CrashStep
<1>13. ASSUME NEW k \in Jobs, NEW i \in Ids, ListTerminal(k, i) PROVE BudgetInv'
  BY <1>13, ListTerminalStep
<1>14. ASSUME NEW k \in Jobs, NEW i \in Ids, NEW x \in 0..(AmountOf[i] + Excess),
              Commit(k, i, x)
       PROVE  BudgetInv'
  <2>1. x \in Nat
    BY BudgetAssumption
  <2> QED BY <1>14, <2>1, CommitStep
<1>15. ASSUME NEW k \in Jobs, SyncRedisSettlement(k) PROVE BudgetInv'
  BY <1>15, SyncRedisSettlementStep
<1>16. ASSUME NEW k \in Jobs, JobMark(k) PROVE BudgetInv'
  BY <1>16, JobMarkStep
<1>17. ASSUME NEW k \in Jobs, JobCrash(k) PROVE BudgetInv'
  BY <1>17, JobCrashStep
<1>18. ASSUME NEW i \in Ids, PersistAmbiguousCharge(i) PROVE BudgetInv'
  BY <1>18, PersistAmbiguousChargeStep
<1>19. ASSUME NEW lost \in SUBSET Windows, LoseRedis(lost) PROVE BudgetInv'
  BY <1>19, LoseRedisStep
<1>20. CASE UNCHANGED vars
  <2>1. row' = row /\ win' = win /\ key' = key /\ call' = call /\ job' = job
    BY <1>20 DEF vars
  <2>2. TypeOK' /\ OneHolder'
    BY <2>1 DEF BudgetInv, TypeOK, OneHolder
  <2>3. /\ Rows' /\ \A i \in Ids : Calm(i)
        /\ \A d \in Callers : call[d].pc \in Holding => Kept(call[d].id)
    BY <2>1, RowsAlone
  <2> QED BY <2>1, <2>2, <2>3, QuietStep
<1> QED BY Zenon, <1>1, <1>2, <1>3, <1>4, <1>5, <1>6, <1>7, <1>8, <1>9, <1>10, <1>11, <1>12,
           <1>13, <1>14, <1>15, <1>16, <1>17, <1>18, <1>19, <1>20 DEF Next

LEMMA Budget == Spec => []BudgetInv
BY InitBudget, NextBudget, PTL DEF Spec

(* Rows, hashes, keys and the progress of everybody have their types: no   *)
(* counter is ever negative, whatever the seeding script corrects and the  *)
(* settling script takes back.                                             *)
THEOREM Typed == Spec => []TypeOK
<1>1. BudgetInv => TypeOK
  BY DEF BudgetInv
<1> QED BY <1>1, Budget, PTL

(* What was let through in an hour or a day is within every limit that     *)
(* applies to it, whatever the interleaving of the scripts with the reads  *)
(* and writes of Postgres, and whatever Redis loses.                       *)
THEOREM StaysWithinBudget == Spec => []WithinBudget
<1>1. BudgetInv => WithinBudget
  BY DEF BudgetInv
<1> QED BY <1>1, Budget, PTL

(* A counter in use says no less than what was let through.                *)
THEOREM NeverUndercounts == Spec => []NoUndercount
<1>1. BudgetInv => NoUndercount
  <2> SUFFICES ASSUME BudgetInv, NEW w \in Windows, NEW f \in win[w].init
               PROVE  win[w].used[f] >= Spent(w, f)
    BY DEF NoUndercount
  <2>1. TypeOK /\ Counters
    BY DEF BudgetInv
  <2>2. Spent(w, f) \in Int /\ Load(w, f) \in Int /\ Spent(w, f) <= Load(w, f)
    BY <2>1, SpentIsLoaded
  <2>3. Load(w, f) <= win[w].used[f] /\ win[w].used[f] \in Nat
    BY <2>1, HashType DEF Counters
  <2> QED BY <2>2, <2>3
<1> QED BY <1>1, Budget, PTL

(* No settlement finds a counter too small for it: the script never trips  *)
(* the breaker for the network.                                            *)
THEOREM NeverRefusesSettlement == Spec => []SettlementNeverRefused
<1>1. BudgetInv => SettlementNeverRefused
  <2> SUFFICES ASSUME BudgetInv PROVE SettlementNeverRefused
    OBVIOUS
  <2>1. /\ TypeOK /\ Counters /\ \A w \in Windows : MarkersOf(w)
        /\ \A c \in Callers : CallOf(c)
        /\ \A k \in Jobs : JobOf(k)
    BY DEF BudgetInv
  <2>2. ASSUME NEW k \in Jobs, job[k].pc = "settle"
        PROVE  ~SettleRefused(job[k].id, job[k].attempt, job[k].hour, job[k].actual)
    <3>1. /\ job[k].id \in Ids /\ job[k].hour \in Windows /\ job[k].actual \in Nat
          /\ Final(job[k].id, job[k].attempt, job[k].actual)
      BY <2>1, <2>2, JobType DEF JobOf
    <3>2. job[k].attempt \in Attempts
      BY <2>1, <3>1, FinalAttempt
    <3> QED BY <2>1, <3>1, <3>2, NeverRefused
  <2>3. ASSUME NEW c \in Callers, call[c].pc = "refund"
        PROVE  ~SettleRefused(call[c].id, call[c].attempt, call[c].hour, 0)
    <3>1. /\ call[c].id \in Ids /\ call[c].hour \in Windows
          /\ Final(call[c].id, call[c].attempt, 0)
      BY <2>1, <2>3, CallType DEF CallOf
    <3>2. call[c].attempt \in Attempts
      BY <2>1, <3>1, FinalAttempt
    <3> QED BY <2>1, <3>1, <3>2, NeverRefused
  <2> QED BY Zenon, <2>2, <2>3 DEF SettlementNeverRefused
<1> QED BY <1>1, Budget, PTL

=============================================================================
