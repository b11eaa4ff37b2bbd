-------------------- MODULE SponsorshipReservationsSteps ---------------------
(***************************************************************************)
(* What the steps of a request have in common.  Twenty-five actions move a *)
(* request; the invariants of SponsorshipReservationsProofs need to know   *)
(* of them only how they may treat the row they work on, what they may     *)
(* hand out and which keys they may settle.  StepOf says so, and one lemma *)
(* per action shows it.                                                    *)
(***************************************************************************)
EXTENDS SponsorshipReservations, TLAPS

Calls == [pc : Pcs, id : Ids \cup {None}, op : Ops, attempt : 0..MaxAttempt,
          round : {1, 2}, dup : BOOLEAN]
Keys == [Attempts -> {"none", "held", "settled"}]
Targets == [pc : JobPcs, id : Ids \cup {None}, attempt : 0..MaxAttempt,
            sig : Messages \cup {NoSig}, miss : 0..1]

CallsTyped == call \in [Callers -> Calls] /\ enabled \in BOOLEAN
RowsTyped == row \in [Ids -> Rows]
KeysTyped == key \in [Ids -> Keys]
JobsTyped == job \in [Jobs -> Targets]
WorldTyped == /\ exposed \subseteq Messages /\ leaked \subseteq Messages
              /\ landed \subseteq Messages /\ expired \subseteq Messages

(* The type invariant is the conjunction of these parts. *)
LEMMA TypeOKParts == TypeOK <=> /\ CallsTyped /\ RowsTyped /\ KeysTyped /\ JobsTyped /\ WorldTyped
BY DEF TypeOK, CallsTyped, RowsTyped, KeysTyped, JobsTyped, WorldTyped, Calls, Keys, Targets

(* A step of c leaves the other requests alone; c keeps its reservation,   *)
(* attempt and operation.                                                  *)
Others(c) == \A d \in Callers \ {c} : call'[d] = call[d]
SameCall(c) == /\ call'[c].id = call[c].id /\ call'[c].op = call[c].op
               /\ call'[c].attempt = call[c].attempt

(* Moving a request on changes its program counter and nothing else. *)
LEMMA GotoMoves ==
  ASSUME CallsTyped, NEW c \in Callers, NEW p \in Pcs, Goto(c, p)
  PROVE  /\ CallsTyped' /\ Others(c) /\ SameCall(c)
         /\ call'[c].pc = p /\ call'[c].round = call[c].round /\ call'[c].dup = call[c].dup
<1>1. [call[c] EXCEPT !.pc = p] \in Calls
  BY DEF CallsTyped, Calls
<1>2. call' = [call EXCEPT ![c] = [call[c] EXCEPT !.pc = p]] /\ enabled' = enabled
  BY DEF Goto
<1>3. CallsTyped'
  BY <1>1, <1>2 DEF CallsTyped
<1>4. call'[c] = [call[c] EXCEPT !.pc = p]
  BY <1>2 DEF CallsTyped
<1>5. Others(c)
  BY <1>2 DEF Others, CallsTyped
<1>6. SameCall(c) /\ call'[c].pc = p /\ call'[c].round = call[c].round /\ call'[c].dup = call[c].dup
  BY <1>4 DEF SameCall, CallsTyped, Calls
<1>7. QED BY <1>3, <1>5, <1>6

(* A request that returns or throws is idle again. *)
LEMMA EndMoves ==
  ASSUME CallsTyped, NEW c \in Callers, Return(c) \/ Fail(c)
  PROVE  CallsTyped' /\ Others(c) /\ call'[c] = Idle /\ call'[c].pc = "idle" /\ call'[c].dup = FALSE
<1>1. Idle \in Calls /\ Idle.pc = "idle" /\ Idle.dup = FALSE
  BY ReservationAssumption DEF Calls, Idle, Pcs, Ops
<1>2. call' = [call EXCEPT ![c] = Idle] /\ enabled' \in BOOLEAN
  BY DEF Return, Fail, CallsTyped
<1>3. CallsTyped' /\ call'[c] = Idle
  BY <1>1, <1>2 DEF CallsTyped
<1>4. Others(c)
  BY <1>2 DEF Others, CallsTyped
<1>5. QED BY <1>1, <1>3, <1>4

(* The rows the statements write are rows. *)
LEMMA RowForms ==
  ASSUME RowsTyped, NEW i \in Ids
  PROVE  /\ \A a \in Attempts : Reserved(a) \in Rows
         /\ Signed(i) \in Rows /\ Submitted(i) \in Rows
         /\ \A s \in Statuses : WithStatus(i, s) \in Rows
         /\ [row[i] EXCEPT !.settled = TRUE] \in Rows
<1>1. ASSUME NEW a \in Attempts PROVE Reserved(a) \in Rows
  <2>1. MaxAttempt \in Nat /\ a \in 0..MaxAttempt
    BY ReservationAssumption DEF Attempts
  <2>2. Absent \in Rows
    BY <2>1 DEF Rows, Absent
  <2>3. QED BY <2>1, <2>2 DEF Rows, Reserved, Statuses, Live
<1>2. MessageOf[i] \in Messages /\ row[i] \in Rows
  BY ReservationAssumption DEF RowsTyped
<1>3. Submitted(i) \in Rows
  BY <1>2 DEF Rows, Submitted, Statuses, Live
<1>4. Signed(i) \in Rows
  <2> DEFINE r == [row[i] EXCEPT !.status = "signed", !.sig = MessageOf[i]]
  <2>1. r \in Rows
    BY <1>2 DEF Rows, Statuses, Live
  <2>2. [r EXCEPT !.stx = TRUE] \in Rows
    BY <2>1 DEF Rows
  <2>3. Signed(i) = [r EXCEPT !.stx = TRUE]
    BY DEF Signed
  <2>4. QED BY <2>2, <2>3
<1>5. \A s \in Statuses : WithStatus(i, s) \in Rows
  BY <1>2 DEF Rows, WithStatus
<1>6. [row[i] EXCEPT !.settled = TRUE] \in Rows
  BY <1>2 DEF Rows
<1>7. QED BY <1>1, <1>3, <1>4, <1>5, <1>6

(* A statement writes one row. *)
LEMMA Writes ==
  ASSUME RowsTyped, NEW i \in Ids, NEW r \in Rows, Write(i, r)
  PROVE  RowsTyped' /\ row'[i] = r /\ \A j \in Ids \ {i} : row'[j] = row[j]
BY DEF Write, RowsTyped

(* A Redis script writes one key. *)
LEMMA SetsKey ==
  ASSUME KeysTyped, NEW i \in Ids, NEW a, NEW v \in {"none", "held", "settled"}, SetKey(i, a, v)
  PROVE  /\ KeysTyped'
         /\ \A j \in Ids, b \in Attempts : key'[j][b] = IF j = i /\ b = a THEN v ELSE key[j][b]
<1>1. KeysTyped'
  BY DEF SetKey, KeysTyped, Keys
<1>2. \A j \in Ids, b \in Attempts : key'[j][b] = IF j = i /\ b = a THEN v ELSE key[j][b]
  BY DEF SetKey, KeysTyped, Keys
<1>3. QED BY <1>1, <1>2
-----------------------------------------------------------------------------
(* An owner that knows its transaction may be out: it keeps the charge or  *)
(* records the submission, or gives way to a row that pays for the same    *)
(* message.                                                                *)
Safe(c) == \/ call[c].pc = "ambiguous"
           \/ call[c].op = "send" /\ call[c].pc \in {"submit", "advanced"}

(* A request that is under way works on an attempt of a reservation. *)
Busy ==
  \A c \in Callers : call[c].pc # "idle" =>
    /\ call[c].id \in Ids /\ call[c].attempt \in Attempts /\ call[c].op \in OpsOf[call[c].id]
    /\ call[c].pc = "create" => call[c].attempt = 1

(* A missing row has no attempts. *)
AbsentIsNew == \A i \in Ids : row[i].status = "absent" => row[i].attempt = 0

(* The row advances within its attempt and is not given back. *)
Kept(i) ==
  /\ row'[i].attempt = row[i].attempt
  /\ \/ row'[i].status = row[i].status
     \/ row[i].status \in Live /\ row'[i].status \in Statuses \ {"released"}

(* The signature and the stored transaction of the row stay. *)
SameSig(i) == row'[i].sig = row[i].sig /\ row'[i].stx = row[i].stx

(* The four things a step of a request may do to its row.  It keeps it,    *)
(* perhaps recording its signature,                                        *)
Keeps(c, i) ==
  /\ Kept(i)
  /\ Owning(c)' => Owning(c) /\ (Safe(c) => Safe(c)')
  /\ \/ SameSig(i)
     \/ row'[i].sig = MessageOf[i] /\ Owning(c) /\ (call[c].op = "owned" \/ ~Owning(c)')

(* opens the next attempt of a row nobody is charged for, *)
Takes(c, i) ==
  /\ ~Charged(i) /\ row' = [row EXCEPT ![i] = Reserved(call[c].attempt)]
  /\ call[c].attempt = row[i].attempt + 1

(* gives back the attempt it owns, unless the transaction may be out, *)
GivesBack(c, i) ==
  /\ Owning(c) /\ ~Safe(c) /\ ~Owning(c)'
  /\ row[i].attempt = call[c].attempt /\ row[i].status \in Live
  /\ row' = [row EXCEPT ![i] = WithStatus(i, "released")]

(* or gives way to another row with the same signature. *)
Yields(c, i) ==
  /\ row' = row /\ Owning(c) /\ call'[c].pc = "release" /\ SignatureTaken(i) /\ call[c].op # "owned"

(* Why the transaction may leave the service: its owner is charged and     *)
(* will stay so, or it gave way to a row that is, or the row has the       *)
(* transaction stored.                                                     *)
Justified(c, i) ==
  \/ Owning(c) /\ Charged(i)' /\ (Owning(c)' => Safe(c)')
  \/ call[c].dup
  \/ row[i].stx /\ "sign" \in OpsOf[i] /\ row' = row

(* The step is invisible in the ledger. *)
SamePhase(i) ==
  /\ row'[i].attempt = row[i].attempt
  /\ row'[i].status = row[i].status \/ (row[i].status \in Live /\ row'[i].status \in Live)

(* What is known of any step of request c on reservation i. *)
StepOf(c, i) ==
  /\ Others(c) /\ (call'[c].pc = "idle" \/ SameCall(c))
  /\ \A j \in Ids \ {i} : row'[j] = row[j]
  /\ Keeps(c, i) \/ Takes(c, i) \/ GivesBack(c, i) \/ Yields(c, i)
  /\ \/ exposed' = exposed
     \/ exposed' = exposed \cup {MessageOf[i]} /\ Justified(c, i) /\ SamePhase(i)
  /\ \A j \in Ids, a \in Attempts : key'[j][a] = "settled" =>
       key[j][a] = "settled" \/ (call[c].pc = "refund" /\ j = i /\ a = call[c].attempt)
  /\ call'[c].pc \in {"refund", "mark"} =>
       call[c].pc = "refund" \/ (row'[i].status = "released" /\ row'[i].attempt = call[c].attempt)
  /\ call'[c].dup => call[c].dup \/ Yields(c, i)
  /\ call'[c].pc = "create" => call[c].attempt = 1

(* Types without the passes. *)
Typed == CallsTyped /\ RowsTyped /\ KeysTyped /\ WorldTyped

(* A request that moves on without taking or giving back the row. *)
QuietCall(c) ==
  /\ CallsTyped' /\ Others(c) /\ (call'[c].pc = "idle" \/ SameCall(c))
  /\ Owning(c)' => Owning(c) /\ (Safe(c) => Safe(c)')
  /\ call'[c].pc \notin {"refund", "mark"}
  /\ call'[c].dup => call[c].dup
  /\ call'[c].pc = "create" => call[c].attempt = 1

(* A request that ends owns nothing any more. *)
LEMMA EndsQuietly ==
  ASSUME Typed, NEW c \in Callers, Return(c) \/ Fail(c)
  PROVE  QuietCall(c) /\ ~Owning(c)'
<1>1. CallsTyped' /\ Others(c) /\ call'[c].pc = "idle" /\ call'[c].dup = FALSE
  BY EndMoves DEF Typed
<1>2. ~Owning(c)'
  BY <1>1 DEF Owning
<1>3. QED BY <1>1, <1>2 DEF QuietCall

(* A request that moves on, not into a refund, and owns no more than it    *)
(* did, moves quietly.                                                     *)
LEMMA GoesQuietly ==
  ASSUME Typed, NEW c \in Callers, NEW p \in Pcs, Goto(c, p),
         p \notin {"policies", "refund", "mark"},
         Owning(c) \/ p \in {"idle", "create", "existing", "reopen", "unmark"},
         Safe(c) => p = "advanced" /\ call[c].op = "send",
         p = "create" => call[c].attempt = 1
  PROVE  QuietCall(c) /\ call'[c].pc = p
<1>1. /\ CallsTyped' /\ Others(c) /\ SameCall(c)
      /\ call'[c].pc = p /\ call'[c].round = call[c].round /\ call'[c].dup = call[c].dup
  BY GotoMoves DEF Typed
<1>2. Owning(c)' => Owning(c)
  BY <1>1 DEF Owning
<1>3. Safe(c) /\ Owning(c)' => Safe(c)'
  <2>1. SUFFICES ASSUME Safe(c), Owning(c)' PROVE Safe(c)'
    OBVIOUS
  <2>2. p = "advanced" /\ call[c].op = "send"
    BY <2>1
  <2>3. QED BY <2>1, <2>2, <1>1 DEF Safe, SameCall
<1>4. QED BY <1>1, <1>2, <1>3 DEF QuietCall

(* A quiet request whose row only advances takes a step of the required    *)
(* form.                                                                   *)
LEMMA KeepStep ==
  ASSUME Typed, NEW c \in Callers, NEW i \in Ids, QuietCall(c), Keeps(c, i), RowsTyped',
         \A j \in Ids \ {i} : row'[j] = row[j],
         \/ exposed' = exposed
         \/ exposed' = exposed \cup {MessageOf[i]} /\ Justified(c, i) /\ SamePhase(i),
         KeysTyped', \A j \in Ids, a \in Attempts : key'[j][a] = "settled" => key[j][a] = "settled",
         leaked' = leaked \/ leaked' = leaked \cup {MessageOf[i]}, UNCHANGED <<landed, expired>>
  PROVE  Typed' /\ StepOf(c, i)
<1>1. exposed' \subseteq Messages /\ leaked' \subseteq Messages
  BY ReservationAssumption DEF Typed, WorldTyped
<1>2. Typed'
  BY <1>1 DEF Typed, WorldTyped, QuietCall
<1>3. QED BY <1>2 DEF StepOf, QuietCall

(* So does one that writes nothing. *)
LEMMA QuietStep ==
  ASSUME Typed, NEW c \in Callers, NEW i \in Ids, QuietCall(c), row' = row, key' = key,
         exposed' = exposed \/ (exposed' = exposed \cup {MessageOf[i]} /\ Justified(c, i)),
         leaked' = leaked \/ leaked' = leaked \cup {MessageOf[i]}, UNCHANGED <<landed, expired>>
  PROVE  Typed' /\ StepOf(c, i)
<1>1. Keeps(c, i)
  BY DEF Keeps, Kept, SameSig, QuietCall
<1>2. RowsTyped' /\ KeysTyped'
  BY DEF Typed, RowsTyped, KeysTyped
<1>3. SamePhase(i)
  BY DEF SamePhase
<1>4. QED BY <1>1, <1>2, <1>3, KeepStep

(* So does one whose statement advances or marks its row. *)
LEMMA WriteStep ==
  ASSUME Typed, NEW c \in Callers, NEW i \in Ids, QuietCall(c), NEW r \in Rows, Write(i, r),
         r.attempt = row[i].attempt,
         \/ r.status = row[i].status
         \/ row[i].status \in Live /\ r.status \in Statuses \ {"released"},
         \/ r.sig = row[i].sig /\ r.stx = row[i].stx
         \/ r.sig = MessageOf[i] /\ Owning(c) /\ (call[c].op = "owned" \/ ~Owning(c)'),
         \/ exposed' = exposed
         \/ /\ exposed' = exposed \cup {MessageOf[i]} /\ Justified(c, i)
            /\ r.status = row[i].status \/ r.status \in Live,
         key' = key, UNCHANGED <<leaked, landed, expired>>
  PROVE  Typed' /\ StepOf(c, i)
<1>1. RowsTyped' /\ row'[i] = r /\ \A j \in Ids \ {i} : row'[j] = row[j]
  BY Writes DEF Typed
<1>2. Keeps(c, i)
  BY <1>1 DEF Keeps, Kept, SameSig, QuietCall
<1>3. KeysTyped'
  BY DEF Typed, KeysTyped
<1>4. exposed' = exposed \/ SamePhase(i)
  BY <1>1 DEF SamePhase
<1>5. QED BY <1>1, <1>2, <1>3, <1>4, KeepStep

(* The fields of the rows the statements write. *)
LEMMA RowFields ==
  ASSUME RowsTyped, NEW i \in Ids
  PROVE  /\ row[i].attempt \in Nat
         /\ \A s \in Statuses : /\ WithStatus(i, s).status = s /\ WithStatus(i, s).attempt = row[i].attempt
                                /\ WithStatus(i, s).sig = row[i].sig /\ WithStatus(i, s).stx = row[i].stx
         /\ Signed(i).status = "signed" /\ Signed(i).attempt = row[i].attempt /\ Signed(i).sig = MessageOf[i]
         /\ Submitted(i).status = "submitted" /\ Submitted(i).attempt = row[i].attempt
         /\ Submitted(i).sig = MessageOf[i]
         /\ LET r == [row[i] EXCEPT !.settled = TRUE] IN
              /\ r.status = row[i].status /\ r.attempt = row[i].attempt
              /\ r.sig = row[i].sig /\ r.stx = row[i].stx
<1>1. row[i] \in Rows
  BY DEF RowsTyped
<1>2. row[i].attempt \in Nat
  BY <1>1, ReservationAssumption DEF Rows
<1>3. \A s \in Statuses : /\ WithStatus(i, s).status = s /\ WithStatus(i, s).attempt = row[i].attempt
                          /\ WithStatus(i, s).sig = row[i].sig /\ WithStatus(i, s).stx = row[i].stx
  BY <1>1 DEF WithStatus, Rows
<1>4. Signed(i).status = "signed" /\ Signed(i).attempt = row[i].attempt /\ Signed(i).sig = MessageOf[i]
  BY <1>1 DEF Signed, Rows
<1>5. Submitted(i).status = "submitted" /\ Submitted(i).attempt = row[i].attempt /\ Submitted(i).sig = MessageOf[i]
  BY <1>1 DEF Submitted, Rows
<1>6. LET r == [row[i] EXCEPT !.settled = TRUE] IN
              /\ r.status = row[i].status /\ r.attempt = row[i].attempt
              /\ r.sig = row[i].sig /\ r.stx = row[i].stx
  BY <1>1 DEF Rows
<1>7. QED BY <1>2, <1>3, <1>4, <1>5, <1>6
-----------------------------------------------------------------------------
(* What a step of a request relies on. *)
Ready == Typed /\ Busy /\ AbsentIsNew /\ OwnerIsCurrent

(* resolvePolicies: on to the insert, the existing row or the budget, or   *)
(* back out.                                                               *)
LEMMA PolicySteps ==
  ASSUME Ready, NEW c \in Callers, NEW i \in Ids, call[c].id = i, ResolvePolicies(c)
  PROVE  Typed' /\ StepOf(c, i)
<1>1. /\ call[c].pc = "policies" /\ ~Safe(c)
      /\ row' = row /\ key' = key /\ exposed' = exposed /\ UNCHANGED <<leaked, landed, expired>>
  BY DEF ResolvePolicies, Safe
<1>2. QuietCall(c)
  <2>1. CASE Return(c)
    BY <2>1, EndsQuietly DEF Ready
  <2>2. CASE call[c].round = 2
    <3>1. Owning(c)
      BY <2>2, <1>1 DEF Owning
    <3>2. CASE Goto(c, "budget")
      <4>1. "budget" \in Pcs
        BY DEF Pcs
      <4>2. QED BY <3>1, <3>2, <1>1, <4>1, GoesQuietly DEF Ready
    <3>3. CASE Goto(c, "unreserve")
      <4>1. "unreserve" \in Pcs
        BY DEF Pcs
      <4>2. QED BY <3>1, <3>3, <1>1, <4>1, GoesQuietly DEF Ready
    <3>4. QED BY <2>2, <3>2, <3>3 DEF ResolvePolicies
  <2>3. CASE Goto(c, "create") /\ call[c].attempt = 1
    <3>1. "create" \in Pcs
      BY DEF Pcs
    <3>2. QED BY <2>3, <1>1, <3>1, GoesQuietly DEF Ready
  <2>4. CASE Goto(c, "existing")
    <3>1. "existing" \in Pcs
      BY DEF Pcs
    <3>2. QED BY <2>4, <1>1, <3>1, GoesQuietly DEF Ready
  <2>5. QED
    BY <2>1, <2>2, <2>3, <2>4 DEF ResolvePolicies
<1>3. QED BY <1>1, <1>2, QuietStep DEF Ready

(* The limits deny the reservation; its owner goes on to give it back. *)
LEMMA DeniedStep ==
  ASSUME Ready, NEW c \in Callers, NEW i \in Ids, call[c].id = i, Denied(c)
  PROVE  Typed' /\ StepOf(c, i)
<1>1. /\ Owning(c) /\ ~Safe(c) /\ Goto(c, "unreserve") /\ "unreserve" \in Pcs
      /\ row' = row /\ key' = key /\ exposed' = exposed /\ UNCHANGED <<leaked, landed, expired>>
  BY DEF Denied, Safe, Owning, Pcs
<1>2. QuietCall(c)
  BY <1>1, GoesQuietly DEF Ready
<1>3. QED BY <1>1, <1>2, QuietStep DEF Ready

(* A stale control field sends the owner back to the policies, still       *)
(* owning the row.                                                         *)
LEMMA StalePolicyStep ==
  ASSUME Ready, NEW c \in Callers, NEW i \in Ids, call[c].id = i, StalePolicy(c)
  PROVE  Typed' /\ StepOf(c, i)
<1>1. /\ Owning(c) /\ ~Safe(c)
      /\ row' = row /\ key' = key /\ exposed' = exposed /\ UNCHANGED <<leaked, landed, expired>>
  BY DEF StalePolicy, Safe, Owning
<1>2. QuietCall(c)
  <2> DEFINE x == [call[c] EXCEPT !.pc = "policies", !.round = 2]
  <2>1. x \in Calls /\ x.id = call[c].id /\ x.op = call[c].op /\ x.attempt = call[c].attempt
        /\ x.pc = "policies" /\ x.dup = call[c].dup
    BY DEF Ready, Typed, CallsTyped, Calls, Pcs
  <2>2. call' = [call EXCEPT ![c] = x] /\ enabled' = enabled
    BY DEF StalePolicy
  <2>3. CallsTyped' /\ call'[c] = x /\ Others(c)
    BY <2>1, <2>2 DEF Ready, Typed, CallsTyped, Others
  <2>4. QED BY <1>1, <2>1, <2>3 DEF QuietCall, SameCall
<1>3. QED BY <1>1, <1>2, QuietStep DEF Ready

(* persistSigned and the second policy check: on to markStarted or to the  *)
(* release.                                                                *)
LEMMA PersistStep ==
  ASSUME Ready, NEW c \in Callers, NEW i \in Ids, call[c].id = i, OwnedPersist(c)
  PROVE  Typed' /\ StepOf(c, i)
<1>1. /\ Owning(c) /\ ~Safe(c)
      /\ row' = row /\ key' = key /\ exposed' = exposed /\ UNCHANGED <<leaked, landed, expired>>
  BY DEF OwnedPersist, Safe, Owning
<1>2. QuietCall(c)
  <2>1. CASE Goto(c, "start")
    <3>1. "start" \in Pcs
      BY DEF Pcs
    <3>2. QED BY <2>1, <1>1, <3>1, GoesQuietly DEF Ready
  <2>2. CASE call' = [call EXCEPT ![c].pc = "release"] /\ enabled' \in {enabled, FALSE}
    <3> DEFINE x == [call[c] EXCEPT !.pc = "release"]
    <3>1. x \in Calls /\ x.id = call[c].id /\ x.op = call[c].op /\ x.attempt = call[c].attempt
          /\ x.pc = "release" /\ x.dup = call[c].dup
      BY DEF Ready, Typed, CallsTyped, Calls, Pcs
    <3>2. call' = [call EXCEPT ![c] = x] /\ enabled' \in BOOLEAN
      BY <2>2 DEF Ready, Typed, CallsTyped
    <3>3. CallsTyped' /\ call'[c] = x /\ Others(c)
      BY <3>1, <3>2 DEF Ready, Typed, CallsTyped, Others
    <3>4. QED BY <1>1, <3>1, <3>3 DEF QuietCall, SameCall
  <2>3. QED BY <2>1, <2>2 DEF OwnedPersist
<1>3. QED BY <1>1, <1>2, QuietStep DEF Ready

(* A request that dies loses ownership and changes nothing else. *)
LEMMA AbortStep ==
  ASSUME Ready, NEW c \in Callers, NEW i \in Ids, call[c].id = i, Abort(c)
  PROVE  Typed' /\ StepOf(c, i)
<1>1. Fail(c) /\ row' = row /\ key' = key /\ exposed' = exposed /\ UNCHANGED <<leaked, landed, expired>>
  BY DEF Abort
<1>2. QED BY <1>1, EndsQuietly, QuietStep DEF Ready

(* markStarted. *)
LEMMA StartStep ==
  ASSUME Ready, NEW c \in Callers, NEW i \in Ids, call[c].id = i, OwnedStart(c)
  PROVE  Typed' /\ StepOf(c, i)
<1>1. /\ Owning(c) /\ ~Safe(c) /\ "submit" \in Pcs /\ "release" \in Pcs
      /\ row' = row /\ key' = key /\ exposed' = exposed /\ UNCHANGED <<leaked, landed, expired>>
  BY DEF OwnedStart, Safe, Owning, Pcs
<1>2. QuietCall(c)
  <2>1. CASE Return(c)
    BY <2>1, EndsQuietly DEF Ready
  <2>2. CASE Goto(c, "submit")
    BY <2>2, <1>1, GoesQuietly DEF Ready
  <2>3. CASE Goto(c, "release")
    BY <2>3, <1>1, GoesQuietly DEF Ready
  <2>4. QED BY <2>1, <2>2, <2>3 DEF OwnedStart
<1>3. QED BY <1>1, <1>2, QuietStep DEF Ready

(* The custody signature exposes nothing by itself. *)
LEMMA ProviderSignStep ==
  ASSUME Ready, NEW c \in Callers, NEW i \in Ids, call[c].id = i, ProviderSign(c)
  PROVE  Typed' /\ StepOf(c, i)
<1>1. /\ Owning(c) /\ ~Safe(c) /\ "signed" \in Pcs /\ "ambiguous" \in Pcs /\ "release" \in Pcs
      /\ row' = row /\ key' = key /\ exposed' = exposed /\ UNCHANGED <<leaked, landed, expired>>
  BY DEF ProviderSign, Safe, Owning, Pcs
<1>2. QuietCall(c)
  <2>1. CASE Goto(c, "signed")
    BY <2>1, <1>1, GoesQuietly DEF Ready
  <2>2. CASE Goto(c, "ambiguous")
    BY <2>2, <1>1, GoesQuietly DEF Ready
  <2>3. CASE Goto(c, "release")
    BY <2>3, <1>1, GoesQuietly DEF Ready
  <2>4. QED BY <2>1, <2>2, <2>3 DEF ProviderSign
<1>3. QED BY <1>1, <1>2, QuietStep DEF Ready

(* The provider may have broadcast: the owner then only records it or      *)
(* keeps the charge, unless the last of its tries was rejected.            *)
LEMMA ProviderSendStep ==
  ASSUME Ready, NEW c \in Callers, NEW i \in Ids, call[c].id = i, ProviderSend(c)
  PROVE  Typed' /\ StepOf(c, i)
<1>1. /\ Owning(c) /\ ~Safe(c) /\ "submit" \in Pcs /\ "ambiguous" \in Pcs /\ "release" \in Pcs
      /\ call[c].op = "send" /\ row' = row /\ key' = key /\ UNCHANGED <<landed, expired>>
      /\ leaked' = leaked \/ leaked' = leaked \cup {MessageOf[i]}
  BY DEF ProviderSend, Safe, Owning, Pcs
<1>2. Charged(i)'
  BY <1>1 DEF Ready, OwnerIsCurrent, Charged
<1>3. CASE Goto(c, "submit") /\ GiveOut(c)
  <2>1. QuietCall(c) /\ call'[c].pc = "submit"
    BY <1>3, <1>1, GoesQuietly DEF Ready
  <2>2. Safe(c)'
    BY <2>1, <1>1 DEF QuietCall, Safe, SameCall
  <2>3. exposed' = exposed \cup {MessageOf[i]} /\ Justified(c, i)
    BY <2>2, <1>1, <1>2, <1>3 DEF Justified, GiveOut
  <2>4. QED BY <2>1, <2>3, <1>1, QuietStep DEF Ready
<1>4. CASE Goto(c, "ambiguous")
  <2>1. QuietCall(c) /\ call'[c].pc = "ambiguous"
    BY <1>4, <1>1, GoesQuietly DEF Ready
  <2>2. Justified(c, i)
    BY <2>1, <1>1, <1>2 DEF Justified, Safe
  <2>3. exposed' = exposed \/ exposed' = exposed \cup {MessageOf[i]}
    BY DEF ProviderSend, GiveOut
  <2>4. QED BY <2>1, <2>2, <2>3, <1>1, QuietStep DEF Ready
<1>5. CASE Goto(c, "release") /\ exposed' = exposed
  <2>1. QuietCall(c)
    BY <1>5, <1>1, GoesQuietly DEF Ready
  <2>2. QED BY <2>1, <1>5, <1>1, QuietStep DEF Ready
<1>6. QED BY <1>3, <1>4, <1>5 DEF ProviderSend

(* The broadcast of an owned submission: exposed only together with the    *)
(* end of ownership.                                                       *)
LEMMA BroadcastStep ==
  ASSUME Ready, NEW c \in Callers, NEW i \in Ids, call[c].id = i, Broadcast(c)
  PROVE  Typed' /\ StepOf(c, i)
<1>1. /\ Owning(c) /\ ~Safe(c) /\ "unbroadcast" \in Pcs
      /\ row' = row /\ key' = key /\ UNCHANGED <<leaked, landed, expired>>
  BY DEF Broadcast, Safe, Owning, Pcs
<1>2. CASE Return(c)
  <2>1. QuietCall(c) /\ ~Owning(c)'
    BY <1>2, EndsQuietly DEF Ready
  <2>2. Justified(c, i)
    BY <2>1, <1>1 DEF Ready, OwnerIsCurrent, Charged, Justified
  <2>3. exposed' = exposed \/ exposed' = exposed \cup {MessageOf[i]}
    BY DEF Broadcast, GiveOut
  <2>4. QED BY <2>1, <2>2, <2>3, <1>1, QuietStep DEF Ready
<1>3. CASE Goto(c, "unbroadcast") /\ exposed' = exposed
  <2>1. QuietCall(c)
    BY <1>3, <1>1, GoesQuietly DEF Ready
  <2>2. QED BY <2>1, <1>3, <1>1, QuietStep DEF Ready
<1>4. QED BY <1>2, <1>3 DEF Broadcast

(* durablyAdvanced hands the transaction out while the row is still charged. *)
LEMMA AdvancedStep ==
  ASSUME Ready, NEW c \in Callers, NEW i \in Ids, call[c].id = i, DurablyAdvanced(c)
  PROVE  Typed' /\ StepOf(c, i)
<1>1. /\ Owning(c) /\ "broadcast" \in Pcs
      /\ row' = row /\ key' = key /\ UNCHANGED <<leaked, landed, expired>>
  BY DEF DurablyAdvanced, Owning, Pcs
<1>2. CASE Return(c) \/ Fail(c)
  <2>1. QuietCall(c) /\ ~Owning(c)'
    BY <1>2, EndsQuietly DEF Ready
  <2>2. Justified(c, i)
    BY <2>1, <1>1 DEF Ready, OwnerIsCurrent, Charged, Justified
  <2>3. exposed' = exposed \/ exposed' = exposed \cup {MessageOf[i]}
    BY DEF DurablyAdvanced, GiveOut
  <2>4. QED BY <2>1, <2>2, <2>3, <1>1, QuietStep DEF Ready
<1>3. CASE Goto(c, "broadcast") /\ exposed' = exposed /\ call[c].op = "owned"
  <2>1. ~Safe(c)
    BY <1>3 DEF DurablyAdvanced, Safe
  <2>2. QuietCall(c)
    BY <2>1, <1>3, <1>1, GoesQuietly DEF Ready
  <2>3. QED BY <2>2, <1>3, <1>1, QuietStep DEF Ready
<1>4. QED BY <1>2, <1>3 DEF DurablyAdvanced

(* A duplicate hands out only a transaction that is stored in the row. *)
LEMMA ReadExistingStep ==
  ASSUME Ready, NEW c \in Callers, NEW i \in Ids, call[c].id = i, ReadExisting(c)
  PROVE  Typed' /\ StepOf(c, i)
<1>1. /\ ~Safe(c) /\ "reopen" \in Pcs /\ call[c].pc = "existing"
      /\ row' = row /\ key' = key /\ UNCHANGED <<leaked, landed, expired>>
  BY DEF ReadExisting, Safe, Pcs
<1>2. CASE Goto(c, "reopen") /\ exposed' = exposed
  <2>1. QuietCall(c)
    BY <1>2, <1>1, GoesQuietly DEF Ready
  <2>2. QED BY <2>1, <1>2, <1>1, QuietStep DEF Ready
<1>3. CASE Return(c) /\ exposed' = exposed
  BY <1>1, <1>3, EndsQuietly, QuietStep DEF Ready
<1>4. CASE Return(c) /\ call[c].op = "sign" /\ HasResponse(row[i], "sign") /\ GiveOut(c)
  <2>1. row[i].stx /\ "sign" \in OpsOf[i]
    BY <1>1, <1>4 DEF HasResponse, Ready, Busy
  <2>2. exposed' = exposed \cup {MessageOf[i]} /\ Justified(c, i)
    BY <2>1, <1>1, <1>4 DEF Justified, GiveOut
  <2>3. QED BY <2>2, <1>1, <1>4, EndsQuietly, QuietStep DEF Ready
<1>5. QED BY <1>2, <1>3, <1>4 DEF ReadExisting
-----------------------------------------------------------------------------
(* The statements that open an attempt do so on a row nobody is charged for. *)
LEMMA TakeStep ==
  ASSUME Ready, NEW c \in Callers, NEW i \in Ids, call[c].id = i, call[c].attempt \in Attempts,
         ~Charged(i), call[c].attempt = row[i].attempt + 1,
         Write(i, Reserved(call[c].attempt)), Goto(c, "budget") \/ Fail(c),
         UNCHANGED <<key, exposed, leaked, landed, expired>>
  PROVE  Typed' /\ StepOf(c, i)
<1>1. Reserved(call[c].attempt) \in Rows
  BY RowForms DEF Ready, Typed
<1>2. RowsTyped' /\ \A j \in Ids \ {i} : row'[j] = row[j]
  BY <1>1, Writes DEF Ready, Typed
<1>3. Takes(c, i)
  BY DEF Takes, Write
<1>4. KeysTyped' /\ WorldTyped'
  BY DEF Ready, Typed, KeysTyped, WorldTyped
<1>5. CASE Goto(c, "budget")
  <2>1. "budget" \in Pcs
    BY DEF Pcs
  <2>2. CallsTyped' /\ Others(c) /\ SameCall(c) /\ call'[c].pc = "budget" /\ call'[c].dup = call[c].dup
    BY <2>1, <1>5, GotoMoves DEF Ready, Typed
  <2>3. QED BY <1>2, <1>3, <1>4, <2>2 DEF StepOf, Typed
<1>6. CASE Fail(c)
  <2>1. CallsTyped' /\ Others(c) /\ call'[c].pc = "idle" /\ call'[c].dup = FALSE
    BY <1>6, EndMoves DEF Ready, Typed
  <2>2. QED BY <1>2, <1>3, <1>4, <2>1 DEF StepOf, Typed
<1>7. QED BY <1>5, <1>6

(* createReservation takes the row or finds it. *)
LEMMA CreateStep ==
  ASSUME Ready, NEW c \in Callers, NEW i \in Ids, call[c].id = i, CreateReservation(c)
  PROVE  Typed' /\ StepOf(c, i)
<1>1. call[c].pc = "create" /\ key' = key /\ exposed' = exposed /\ UNCHANGED <<leaked, landed, expired>>
  BY DEF CreateReservation
<1>2. CASE row[i].status = "absent"
  <2>1. call[c].attempt = 1 /\ 1 \in Attempts /\ row[i].attempt = 0
    BY <1>1, <1>2 DEF Ready, Busy, AbsentIsNew
  <2>2. Write(i, Reserved(1)) /\ (Goto(c, "budget") \/ Fail(c))
    BY <1>2 DEF CreateReservation, Commit
  <2>3. ~Charged(i)
    BY <1>2 DEF Charged
  <2>4. Write(i, Reserved(call[c].attempt)) /\ call[c].attempt = row[i].attempt + 1
    BY <2>1, <2>2
  <2>5. QED BY <1>1, <2>1, <2>2, <2>3, <2>4, TakeStep
<1>3. CASE row[i].status # "absent"
  <2>1. Goto(c, "existing") /\ row' = row
    BY <1>3 DEF CreateReservation
  <2>2. "existing" \in Pcs /\ ~Safe(c)
    BY <1>1 DEF Pcs, Safe
  <2>3. QuietCall(c)
    BY <2>1, <2>2, GoesQuietly DEF Ready
  <2>4. QED BY <1>1, <2>1, <2>3, QuietStep DEF Ready
<1>4. QED BY <1>2, <1>3

(* reopenReleasedReservation takes the next attempt of a released row. *)
LEMMA ReopenStep ==
  ASSUME Ready, NEW c \in Callers, NEW i \in Ids, call[c].id = i, ReopenReleasedReservation(c)
  PROVE  Typed' /\ StepOf(c, i)
<1>1. call[c].pc = "reopen" /\ key' = key /\ exposed' = exposed /\ UNCHANGED <<leaked, landed, expired>>
  BY DEF ReopenReleasedReservation
<1>2. CASE Reopenable(i, call[c].attempt)
  <2>1. call[c].attempt \in Attempts
    BY <1>1 DEF Ready, Busy
  <2>2. Write(i, Reserved(call[c].attempt)) /\ (Goto(c, "budget") \/ Fail(c))
    BY <1>2 DEF ReopenReleasedReservation, Commit
  <2>3. ~Charged(i) /\ call[c].attempt = row[i].attempt + 1
    BY <1>2, <2>1 DEF Charged, Reopenable, At, Attempts
  <2>4. QED BY <1>1, <2>1, <2>2, <2>3, TakeStep
<1>3. CASE ~Reopenable(i, call[c].attempt)
  <2>1. Return(c) /\ row' = row
    BY <1>3 DEF ReopenReleasedReservation
  <2>2. QED BY <1>1, <2>1, EndsQuietly, QuietStep DEF Ready
<1>4. QED BY <1>2, <1>3

(* The statements that give an attempt back end the ownership of it. *)
LEMMA GiveBackStep ==
  ASSUME Ready, NEW c \in Callers, NEW i \in Ids, call[c].id = i, Owning(c), ~Safe(c),
         row[i].attempt = call[c].attempt, row[i].status \in Live,
         Write(i, WithStatus(i, "released")),
         Goto(c, "unmark") \/ Goto(c, "refund") \/ Fail(c),
         UNCHANGED <<key, exposed, leaked, landed, expired>>
  PROVE  Typed' /\ StepOf(c, i)
<1>1. "released" \in Statuses
  BY DEF Statuses
<1>2. WithStatus(i, "released") \in Rows
  BY <1>1, RowForms DEF Ready, Typed
<1>3. /\ WithStatus(i, "released").status = "released"
      /\ WithStatus(i, "released").attempt = row[i].attempt
  BY <1>1, RowFields DEF Ready, Typed
<1>4. /\ RowsTyped' /\ \A j \in Ids \ {i} : row'[j] = row[j]
      /\ row'[i].status = "released" /\ row'[i].attempt = call[c].attempt
  BY <1>2, <1>3, Writes DEF Ready, Typed
<1>5. /\ CallsTyped' /\ Others(c) /\ (call'[c].pc = "idle" \/ SameCall(c))
      /\ call'[c].pc \in {"unmark", "refund", "idle"} /\ (call'[c].dup => call[c].dup)
  <2>1. CASE Goto(c, "unmark")
    <3>1. "unmark" \in Pcs
      BY DEF Pcs
    <3>2. QED BY <2>1, <3>1, GotoMoves DEF Ready, Typed
  <2>2. CASE Goto(c, "refund")
    <3>1. "refund" \in Pcs
      BY DEF Pcs
    <3>2. QED BY <2>2, <3>1, GotoMoves DEF Ready, Typed
  <2>3. CASE Fail(c)
    BY <2>3, EndMoves DEF Ready, Typed
  <2>4. QED BY <2>1, <2>2, <2>3
<1>6. ~Owning(c)'
  BY <1>5 DEF Owning
<1>7. GivesBack(c, i)
  BY <1>6 DEF GivesBack, Write
<1>8. KeysTyped' /\ WorldTyped'
  BY DEF Ready, Typed, KeysTyped, WorldTyped
<1>9. QED BY <1>4, <1>5, <1>7, <1>8 DEF StepOf, Typed

(* releaseDurable. *)
LEMMA UnreserveStep ==
  ASSUME Ready, NEW c \in Callers, NEW i \in Ids, call[c].id = i, Unreserve(c)
  PROVE  Typed' /\ StepOf(c, i)
<1>1. /\ Owning(c) /\ ~Safe(c) /\ "unmark" \in Pcs
      /\ key' = key /\ exposed' = exposed /\ UNCHANGED <<leaked, landed, expired>>
  BY DEF Unreserve, Owning, Safe, Pcs
<1>2. CASE CanRelease(i, call[c].attempt)
  <2>1. row[i].attempt = call[c].attempt /\ row[i].status \in Live
    BY <1>2 DEF CanRelease, At, Live
  <2>2. Write(i, WithStatus(i, "released")) /\ (Goto(c, "unmark") \/ Fail(c))
    BY <1>2 DEF Unreserve, Commit
  <2>3. QED BY <1>1, <2>1, <2>2, GiveBackStep
<1>3. CASE ~CanRelease(i, call[c].attempt)
  <2>1. Goto(c, "unmark") /\ row' = row
    BY <1>3 DEF Unreserve
  <2>2. QED BY <1>1, <2>1, GoesQuietly, QuietStep DEF Ready
<1>4. QED BY <1>2, <1>3

(* releaseDeterministic, before and after a refused broadcast. *)
LEMMA ReleaseStep ==
  ASSUME Ready, NEW c \in Callers, NEW i \in Ids, call[c].id = i, Release(c)
  PROVE  Typed' /\ StepOf(c, i)
<1>1. /\ Owning(c) /\ ~Safe(c)
      /\ key' = key /\ exposed' = exposed /\ UNCHANGED <<leaked, landed, expired>>
  BY DEF Release, Owning, Safe
<1>2. CASE Write(i, WithStatus(i, "released")) /\ (Goto(c, "refund") \/ Fail(c))
           /\ (CanRelease(i, call[c].attempt) \/ CanSettle(i, call[c].attempt))
  <2>1. row[i].attempt = call[c].attempt /\ row[i].status \in Live
    BY <1>2 DEF CanRelease, CanSettle, At, Live
  <2>2. QED BY <1>1, <1>2, <2>1, GiveBackStep
<1>3. CASE Fail(c) /\ row' = row
  BY <1>1, <1>3, EndsQuietly, QuietStep DEF Ready
<1>4. QED BY <1>2, <1>3 DEF Release, Commit

(* markRedisSettled after releaseDurable. *)
LEMMA UnmarkStep ==
  ASSUME Ready, NEW c \in Callers, NEW i \in Ids, call[c].id = i, Unmark(c)
  PROVE  Typed' /\ StepOf(c, i)
<1>1. key' = key /\ exposed' = exposed /\ UNCHANGED <<leaked, landed, expired>> /\ (Return(c) \/ Fail(c))
  BY DEF Unmark, Commit
<1>2. QuietCall(c)
  BY <1>1, EndsQuietly DEF Ready
<1>3. CASE row' = row
  BY <1>1, <1>2, <1>3, QuietStep DEF Ready
<1>4. CASE Write(i, [row[i] EXCEPT !.settled = TRUE])
  <2> DEFINE r == [row[i] EXCEPT !.settled = TRUE]
  <2>1. r \in Rows /\ r.status = row[i].status /\ r.attempt = row[i].attempt
        /\ r.sig = row[i].sig /\ r.stx = row[i].stx
    BY RowForms, RowFields DEF Ready, Typed
  <2>2. Write(i, r)
    BY <1>4
  <2> HIDE DEF r
  <2>3. QED BY <1>1, <1>2, <2>1, <2>2, WriteStep DEF Ready
<1>5. QED BY <1>3, <1>4 DEF Unmark, Commit

(* markRedisSettled after a refund; a duplicate then hands out its signed  *)
(* transaction.                                                            *)
LEMMA MarkRefundedStep ==
  ASSUME Ready, NEW c \in Callers, NEW i \in Ids, call[c].id = i, MarkRefunded(c)
  PROVE  Typed' /\ StepOf(c, i)
<1>1. key' = key /\ UNCHANGED <<leaked, landed, expired>> /\ (Return(c) \/ Fail(c))
  BY DEF MarkRefunded, Commit
<1>2. QuietCall(c)
  BY <1>1, EndsQuietly DEF Ready
<1>3. exposed' = exposed \/ (exposed' = exposed \cup {MessageOf[i]} /\ Justified(c, i))
  BY DEF MarkRefunded, Commit, GiveOut, Justified
<1>4. CASE row' = row
  BY <1>1, <1>2, <1>3, <1>4, QuietStep DEF Ready
<1>5. CASE Write(i, [row[i] EXCEPT !.settled = TRUE])
  <2> DEFINE r == [row[i] EXCEPT !.settled = TRUE]
  <2>1. r \in Rows /\ r.status = row[i].status /\ r.attempt = row[i].attempt
        /\ r.sig = row[i].sig /\ r.stx = row[i].stx
    BY RowForms, RowFields DEF Ready, Typed
  <2>2. Write(i, r)
    BY <1>5
  <2> HIDE DEF r
  <2>3. QED BY <1>1, <1>2, <1>3, <2>1, <2>2, WriteStep DEF Ready
<1>6. QED BY <1>4, <1>5 DEF MarkRefunded, Commit

(* markAmbiguous. *)
LEMMA AmbiguousStep ==
  ASSUME Ready, NEW c \in Callers, NEW i \in Ids, call[c].id = i, MarkAmbiguous(c)
  PROVE  Typed' /\ StepOf(c, i)
<1>1. key' = key /\ exposed' = exposed /\ UNCHANGED <<leaked, landed, expired>> /\ (Return(c) \/ Fail(c))
  BY DEF MarkAmbiguous, Commit
<1>2. QuietCall(c)
  BY <1>1, EndsQuietly DEF Ready
<1>3. CASE row' = row
  BY <1>1, <1>2, <1>3, QuietStep DEF Ready
<1>4. CASE Write(i, WithStatus(i, "charged_unknown")) /\ CanCharge(i, call[c].attempt)
  <2> DEFINE r == WithStatus(i, "charged_unknown")
  <2>1. row[i].status \in Live /\ "charged_unknown" \in Statuses \ {"released"}
    BY <1>4 DEF CanCharge, At, Statuses
  <2>2. r \in Rows /\ r.status = "charged_unknown" /\ r.attempt = row[i].attempt
        /\ r.sig = row[i].sig /\ r.stx = row[i].stx
    BY <2>1, RowForms, RowFields DEF Ready, Typed
  <2>3. Write(i, r)
    BY <1>4
  <2> HIDE DEF r
  <2>4. QED BY <1>1, <1>2, <2>1, <2>2, <2>3, WriteStep DEF Ready
<1>5. QED BY <1>3, <1>4 DEF MarkAmbiguous, Commit
-----------------------------------------------------------------------------
(* The budget gate writes a reservation key, never a settlement key. *)
LEMMA HeldStep ==
  ASSUME Ready, NEW c \in Callers, NEW i \in Ids, QuietCall(c),
         NEW a, NEW v \in {"none", "held", "settled"}, SetKey(i, a, v),
         v = "settled" => key[i][a] = "settled",
         UNCHANGED <<row, exposed, leaked, landed, expired>>
  PROVE  Typed' /\ StepOf(c, i)
<1>1. /\ KeysTyped'
      /\ \A j \in Ids, b \in Attempts : key'[j][b] = IF j = i /\ b = a THEN v ELSE key[j][b]
  BY SetsKey DEF Ready, Typed
<1>2. \A j \in Ids, b \in Attempts : key'[j][b] = "settled" => key[j][b] = "settled"
  BY <1>1
<1>3. Keeps(c, i)
  BY DEF Keeps, Kept, SameSig, QuietCall
<1>4. RowsTyped'
  BY DEF Ready, Typed, RowsTyped
<1>5. QED BY <1>1, <1>2, <1>3, <1>4, KeepStep DEF Ready

(* The gate admits the reservation. *)
LEMMA AdmittedStep ==
  ASSUME Ready, NEW c \in Callers, NEW i \in Ids, call[c].id = i, Admitted(c)
  PROVE  Typed' /\ StepOf(c, i)
<1>1. /\ Owning(c) /\ ~Safe(c) /\ "provider" \in Pcs /\ (Goto(c, "provider") \/ Fail(c))
      /\ SetKey(i, call[c].attempt, "held") /\ UNCHANGED <<row, exposed, leaked, landed, expired>>
  BY DEF Admitted, Owning, Safe, Pcs
<1>2. QuietCall(c)
  <2>1. CASE Goto(c, "provider")
    BY <1>1, <2>1, GoesQuietly DEF Ready
  <2>2. CASE Fail(c)
    BY <2>2, EndsQuietly DEF Ready
  <2>3. QED BY <1>1, <2>1, <2>2
<1>3. QED BY <1>1, <1>2, HeldStep

(* The gate finds its own key and denies the owner. *)
LEMMA DuplicateReserveStep ==
  ASSUME Ready, NEW c \in Callers, NEW i \in Ids, call[c].id = i, DuplicateReserve(c)
  PROVE  Typed' /\ StepOf(c, i)
<1> DEFINE a == call[c].attempt
           v == IF key[i][a] = "none" THEN "held" ELSE key[i][a]
<1>1. /\ Owning(c) /\ ~Safe(c) /\ "unreserve" \in Pcs /\ Goto(c, "unreserve")
      /\ SetKey(i, a, v) /\ UNCHANGED <<row, exposed, leaked, landed, expired>>
  BY DEF DuplicateReserve, Owning, Safe, Pcs
<1>2. QuietCall(c)
  BY <1>1, GoesQuietly DEF Ready
<1>3. a \in Attempts
  BY DEF Ready, Busy, DuplicateReserve
<1>4. v \in {"none", "held", "settled"} /\ (v = "settled" => key[i][a] = "settled")
  BY <1>3 DEF Ready, Typed, KeysTyped, Keys
<1> HIDE DEF a, v
<1>5. QED BY <1>1, <1>2, <1>4, HeldStep

(* settle at zero: the only step of a request that writes a settlement key. *)
LEMMA RefundStep ==
  ASSUME Ready, NEW c \in Callers, NEW i \in Ids, call[c].id = i, Refund(c)
  PROVE  Typed' /\ StepOf(c, i)
<1>1. /\ call[c].pc = "refund" /\ ~Owning(c) /\ "mark" \in Pcs /\ (Goto(c, "mark") \/ Fail(c))
      /\ SetKey(i, call[c].attempt, "settled") /\ UNCHANGED <<row, exposed, leaked, landed, expired>>
  BY DEF Refund, Owning, Pcs
<1>2. /\ KeysTyped'
      /\ \A j \in Ids, b \in Attempts : key'[j][b] = "settled" =>
           key[j][b] = "settled" \/ (j = i /\ b = call[c].attempt)
  <2> DEFINE a == call[c].attempt
  <2>1. SetKey(i, a, "settled")
    BY <1>1
  <2> HIDE DEF a
  <2>2. /\ KeysTyped'
        /\ \A j \in Ids, b \in Attempts :
             key'[j][b] = IF j = i /\ b = a THEN "settled" ELSE key[j][b]
    BY <2>1, SetsKey DEF Ready, Typed
  <2>3. \A j \in Ids, b \in Attempts : key'[j][b] = "settled" =>
          key[j][b] = "settled" \/ (j = i /\ b = a)
    BY <2>2
  <2>4. QED BY <2>2, <2>3 DEF a
<1>3. /\ CallsTyped' /\ Others(c) /\ (call'[c].pc = "idle" \/ SameCall(c))
      /\ call'[c].pc \in {"mark", "idle"} /\ (call'[c].dup => call[c].dup)
  <2>1. CASE Goto(c, "mark")
    BY <1>1, <2>1, GotoMoves DEF Ready, Typed
  <2>2. CASE Fail(c)
    BY <2>2, EndMoves DEF Ready, Typed
  <2>3. QED BY <1>1, <2>1, <2>2
<1>4. Keeps(c, i)
  <2>1. ~Owning(c)'
    BY <1>3 DEF Owning
  <2>2. QED BY <1>1, <2>1 DEF Keeps, Kept, SameSig
<1>5. RowsTyped' /\ WorldTyped'
  BY <1>1 DEF Ready, Typed, RowsTyped, WorldTyped
<1>6. QED BY <1>1, <1>2, <1>3, <1>4, <1>5 DEF StepOf, Typed

(* An owner whose signature is recorded for another id gives way to it. *)
LEMMA YieldStep ==
  ASSUME Ready, NEW c \in Callers, NEW i \in Ids, call[c].id = i, ReleaseDuplicate(c),
         Owning(c), SignatureTaken(i), call[c].op # "owned",
         UNCHANGED <<row, key, exposed, leaked, landed, expired>>
  PROVE  Typed' /\ StepOf(c, i)
<1> DEFINE x == [call[c] EXCEPT !.pc = "release", !.dup = TRUE]
<1>1. x \in Calls
  <2>1. [call[c] EXCEPT !.pc = "release"] \in Calls
    BY DEF Ready, Typed, CallsTyped, Calls, Pcs
  <2>2. \A y \in Calls : [y EXCEPT !.dup = TRUE] \in Calls
    BY DEF Calls
  <2>3. x = [[call[c] EXCEPT !.pc = "release"] EXCEPT !.dup = TRUE]
    OBVIOUS
  <2>4. QED BY <2>1, <2>2, <2>3
<1>2. call[c] \in Calls
  BY DEF Ready, Typed, CallsTyped
<1>3. x.id = call[c].id /\ x.op = call[c].op /\ x.attempt = call[c].attempt /\ x.pc = "release"
  BY <1>2 DEF Calls
<1>4. call' = [call EXCEPT ![c] = x] /\ enabled' = enabled
  BY DEF ReleaseDuplicate
<1> HIDE DEF x
<1>5. CallsTyped' /\ call'[c] = x /\ Others(c)
  BY <1>1, <1>4 DEF Ready, Typed, CallsTyped, Others
<1>6. Yields(c, i) /\ SameCall(c) /\ call'[c].pc = "release"
  BY <1>3, <1>5 DEF Yields, SameCall
<1>7. RowsTyped' /\ KeysTyped' /\ WorldTyped'
  BY DEF Ready, Typed, RowsTyped, KeysTyped, WorldTyped
<1>8. QED BY <1>5, <1>6, <1>7 DEF StepOf, Typed

(* markSigned of a sign. *)
LEMMA MarkSignedStep ==
  ASSUME Ready, NEW c \in Callers, NEW i \in Ids, call[c].id = i, MarkSigned(c)
  PROVE  Typed' /\ StepOf(c, i)
<1>1. /\ Owning(c) /\ ~Safe(c) /\ "advanced" \in Pcs /\ call[c].op = "sign"
      /\ key' = key /\ UNCHANGED <<leaked, landed, expired>>
  BY DEF MarkSigned, Owning, Safe, Pcs
<1>2. CASE Goto(c, "advanced") /\ row' = row /\ exposed' = exposed
  BY <1>1, <1>2, GoesQuietly, QuietStep DEF Ready
<1>3. CASE ReleaseDuplicate(c) /\ SignatureTaken(i) /\ row' = row /\ exposed' = exposed
  BY <1>1, <1>3, YieldStep
<1>4. CASE /\ CanSign(i, call[c].attempt) /\ Write(i, Signed(i)) /\ (Return(c) \/ Fail(c))
           /\ exposed' = exposed \/ exposed' = exposed \cup {MessageOf[i]}
  <2>1. QuietCall(c) /\ ~Owning(c)'
    BY <1>4, EndsQuietly DEF Ready
  <2>2. row[i].status \in Live /\ "signed" \in Statuses \ {"released"}
    BY <1>4 DEF CanSign, At, Live, Statuses
  <2>3. Signed(i) \in Rows /\ Signed(i).status = "signed" /\ Signed(i).attempt = row[i].attempt
        /\ Signed(i).sig = MessageOf[i]
    BY RowForms, RowFields DEF Ready, Typed
  <2>4. row'[i].status = "signed"
    BY <1>4, <2>3, Writes DEF Ready, Typed
  <2>5. Justified(c, i) /\ "signed" \in Live
    BY <1>1, <2>1, <2>4 DEF Justified, Charged, Live
  <2>6. QED BY <1>1, <1>4, <2>1, <2>2, <2>3, <2>5, WriteStep DEF Ready
<1>5. QED BY <1>2, <1>3, <1>4 DEF MarkSigned, Commit, GiveOut

(* markSubmitted of a send. *)
LEMMA MarkSubmittedStep ==
  ASSUME Ready, NEW c \in Callers, NEW i \in Ids, call[c].id = i, MarkSubmitted(c)
  PROVE  Typed' /\ StepOf(c, i)
<1>1. /\ Owning(c) /\ "advanced" \in Pcs /\ call[c].op = "send"
      /\ key' = key /\ exposed' = exposed /\ UNCHANGED <<leaked, landed, expired>>
  BY DEF MarkSubmitted, Owning, Pcs
<1>2. CASE Goto(c, "advanced") /\ row' = row
  BY <1>1, <1>2, GoesQuietly, QuietStep DEF Ready
<1>3. CASE ReleaseDuplicate(c) /\ SignatureTaken(i) /\ row' = row
  BY <1>1, <1>3, YieldStep
<1>4. CASE CanSubmit(i, call[c].attempt) /\ Write(i, Submitted(i)) /\ (Return(c) \/ Fail(c))
  <2>1. QuietCall(c) /\ ~Owning(c)'
    BY <1>4, EndsQuietly DEF Ready
  <2>2. row[i].status \in Live /\ "submitted" \in Statuses \ {"released"}
    BY <1>4 DEF CanSubmit, At, Live, Statuses
  <2>3. Submitted(i) \in Rows /\ Submitted(i).status = "submitted"
        /\ Submitted(i).attempt = row[i].attempt /\ Submitted(i).sig = MessageOf[i]
    BY RowForms, RowFields DEF Ready, Typed
  <2>4. QED BY <1>1, <1>4, <2>1, <2>2, <2>3, WriteStep DEF Ready
<1>5. QED BY <1>2, <1>3, <1>4 DEF MarkSubmitted, Commit

(* markSigned of an owned submission. *)
LEMMA OwnedSignStep ==
  ASSUME Ready, NEW c \in Callers, NEW i \in Ids, call[c].id = i, OwnedMarkSigned(c)
  PROVE  Typed' /\ StepOf(c, i)
<1>1. /\ Owning(c) /\ ~Safe(c) /\ "persist" \in Pcs /\ "release" \in Pcs /\ call[c].op = "owned"
      /\ key' = key /\ exposed' = exposed /\ UNCHANGED <<leaked, landed, expired>>
      /\ Goto(c, "persist") \/ Goto(c, "release")
  BY DEF OwnedMarkSigned, Commit, Owning, Safe, Pcs
<1>2. QuietCall(c)
  <2>1. CASE Goto(c, "persist")
    BY <1>1, <2>1, GoesQuietly DEF Ready
  <2>2. CASE Goto(c, "release")
    BY <1>1, <2>2, GoesQuietly DEF Ready
  <2>3. QED BY <1>1, <2>1, <2>2
<1>3. CASE row' = row
  BY <1>1, <1>2, <1>3, QuietStep DEF Ready
<1>4. CASE CanSign(i, call[c].attempt) /\ Write(i, Signed(i))
  <2>1. row[i].status \in Live /\ "signed" \in Statuses \ {"released"}
    BY <1>4 DEF CanSign, At, Live, Statuses
  <2>2. Signed(i) \in Rows /\ Signed(i).status = "signed" /\ Signed(i).attempt = row[i].attempt
        /\ Signed(i).sig = MessageOf[i]
    BY RowForms, RowFields DEF Ready, Typed
  <2>3. QED BY <1>1, <1>2, <1>4, <2>1, <2>2, WriteStep DEF Ready
<1>5. QED BY <1>3, <1>4 DEF OwnedMarkSigned, Commit

(* markSubmitted of an owned submission. *)
LEMMA OwnedSubmitStep ==
  ASSUME Ready, NEW c \in Callers, NEW i \in Ids, call[c].id = i, OwnedMarkSubmitted(c)
  PROVE  Typed' /\ StepOf(c, i)
<1>1. /\ Owning(c) /\ ~Safe(c) /\ "broadcast" \in Pcs /\ "advanced" \in Pcs /\ call[c].op = "owned"
      /\ key' = key /\ exposed' = exposed /\ UNCHANGED <<leaked, landed, expired>>
      /\ Goto(c, "broadcast") \/ Goto(c, "advanced") \/ Fail(c)
  BY DEF OwnedMarkSubmitted, Commit, Owning, Safe, Pcs
<1>2. QuietCall(c)
  <2>1. CASE Goto(c, "broadcast")
    BY <1>1, <2>1, GoesQuietly DEF Ready
  <2>2. CASE Goto(c, "advanced")
    BY <1>1, <2>2, GoesQuietly DEF Ready
  <2>3. CASE Fail(c)
    BY <2>3, EndsQuietly DEF Ready
  <2>4. QED BY <1>1, <2>1, <2>2, <2>3
<1>3. CASE row' = row
  BY <1>1, <1>2, <1>3, QuietStep DEF Ready
<1>4. CASE CanSubmit(i, call[c].attempt) /\ Write(i, Submitted(i))
  <2>1. row[i].status \in Live /\ "submitted" \in Statuses \ {"released"}
    BY <1>4 DEF CanSubmit, At, Live, Statuses
  <2>2. Submitted(i) \in Rows /\ Submitted(i).status = "submitted"
        /\ Submitted(i).attempt = row[i].attempt /\ Submitted(i).sig = MessageOf[i]
    BY RowForms, RowFields DEF Ready, Typed
  <2>3. QED BY <1>1, <1>2, <1>4, <2>1, <2>2, WriteStep DEF Ready
<1>5. QED BY <1>3, <1>4 DEF OwnedMarkSubmitted, Commit

(* Every step of a request has the required form: what the invariant needs *)
(* to know of them all.                                                    *)
LEMMA CallerStepOf ==
  ASSUME Ready, NEW c \in Callers, CallerStep(c)
  PROVE  /\ call[c].pc # "idle" /\ call[c].id \in Ids
         /\ Typed' /\ StepOf(c, call[c].id) /\ job' = job
<1>1. call[c].pc # "idle" /\ job' = job
  BY DEF CallerStep, ResolvePolicies, CreateReservation, ReadExisting, ReopenReleasedReservation,
         Admitted, Denied, StalePolicy, DuplicateReserve, Unreserve, Unmark, ProviderSign,
         ProviderSend, MarkAmbiguous, MarkSigned, MarkSubmitted, DurablyAdvanced,
         OwnedMarkSigned, OwnedPersist, OwnedStart, OwnedMarkSubmitted, Broadcast, Release,
         Refund, MarkRefunded, Abort
<1>2. call[c].id \in Ids
  BY <1>1 DEF Ready, Busy
<1>3. ASSUME NEW i \in Ids, call[c].id = i
      PROVE  Typed' /\ StepOf(c, i)
  BY <1>3, PolicySteps, DeniedStep, StalePolicyStep, PersistStep, AbortStep, StartStep,
     ProviderSignStep, ProviderSendStep, BroadcastStep, AdvancedStep, ReadExistingStep,
     CreateStep, ReopenStep, UnreserveStep, ReleaseStep, UnmarkStep, MarkRefundedStep,
     AmbiguousStep, AdmittedStep, DuplicateReserveStep, RefundStep, MarkSignedStep,
     MarkSubmittedStep, OwnedSignStep, OwnedSubmitStep DEF CallerStep
<1>4. QED BY <1>1, <1>2, <1>3
=============================================================================
