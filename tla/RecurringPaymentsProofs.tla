---------------------- MODULE RecurringPaymentsProofs ----------------------
(***************************************************************************)
(* What collections, recoveries and lifecycle operations of a recurring    *)
(* payment guarantee, for any requests, attempts and periods.              *)
(***************************************************************************)
EXTENDS RecurringPayments, TLAPS

(* Steps in which a request has an attempt in hand; those from which its   *)
(* collector may still send the transaction; those of a claimed operation. *)
AttemptSteps == CollectSteps \cup {"transfer", "prove"}
MaySend == {"policy", "link", "destination", "sign", "start", "send"}
Claimed == LifecycleSteps \ {"claim"}

(* An attempt that is not there yet has left no trace. *)
Fresh ==
  \A a \in Attempts : attempt[a] = "none" => adue[a] = 0 /\ ~started[a] /\ ~sent[a]

(* Nothing lands that was not sent, or is sent that was not started. *)
Marks ==
  \A a \in Attempts : /\ landed[a] # "no" => sent[a]
                      /\ sent[a] => started[a]
                      /\ started[a] => transfer[a] # "none"

(* A transfer is confirmed by what is on chain only. *)
TransferLanded ==
  \A a \in Attempts : transfer[a] \in {"confirmed", "finalized"} => landed[a] = "ok"

(* What a request knows of its attempt. *)
HandOf(w) ==
  /\ work[w].pc \in AttemptSteps =>
       /\ work[w].a \in Attempts /\ attempt[work[w].a] # "none"
       /\ adue[work[w].a] = work[w].due
  /\ work[w].pc = "finalize" => landed[work[w].a] = "ok"
  /\ work[w].pc = "send" => started[work[w].a]
  /\ work[w].pc \in MaySend => work[w].own
  /\ work[w].own => work[w].pc \in CollectSteps
  /\ work[w].own \/ work[w].pc = "create" => work[w].kind # "resume"
  /\ work[w].pc \in LifecycleSteps => work[w].kind # "collect"
InHand == \A w \in Requests : HandOf(w)

(* One attempt of a period that is not failed. *)
OneActive ==
  \A a, b \in Attempts :
    /\ a # b /\ attempt[a] \in {"processing", "confirmed"}
    /\ attempt[b] \in {"processing", "confirmed"}
    => adue[a] # adue[b]

(* The subscription follows the payment. *)
Together ==
  /\ status \in {"active", "canceling"} => subStatus = "active"
  /\ status \in {"canceled", "resuming"} => subStatus = "canceled"

RowInv ==
  /\ Fresh /\ Marks /\ TransferLanded /\ ConfirmedAttemptLanded /\ OneActive
  /\ Together /\ AdvancedWasCharged

CollectionInv == RowInv /\ InHand

(* The transaction of an attempt has failed, on the chain or on a fork     *)
(* that is gone, or was not and will not be sent.                          *)
Dead(a) ==
  \/ landed[a] = "err" \/ forked[a]
  \/ /\ ~sent[a] /\ attempt[a] # "none"
     /\ \A w \in Requests : work[w].pc \in MaySend => work[w].a # a

(* Its collector is gone. *)
Abandoned(a) ==
  /\ attempt[a] # "none"
  /\ \A w \in Requests : work[w].own => work[w].a # a

OneCollector ==
  \A v, w \in Requests : v # w /\ work[v].own /\ work[w].own => work[v].a # work[w].a

(* Who may send has not done so; who saw an attempt grow old knows that it *)
(* has no collector; and who is about to fail one, that it is dead.        *)
CareOf(w) ==
  /\ work[w].pc \in MaySend =>
       ~sent[work[w].a] /\ (work[w].pc # "send" => ~started[work[w].a])
  /\ work[w].pc = "transfer" /\ work[w].stale => Abandoned(work[w].a)
  /\ work[w].pc = "fail" => Dead(work[w].a)

(* Old attempts have no collector, and failed ones are dead. *)
Losses ==
  \A a \in Attempts : /\ age[a] > 0 => Abandoned(a)
                      /\ attempt[a] = "failed" => Dead(a)

(* Nothing is started before it is signed. *)
Signing ==
  /\ \A a \in Attempts : started[a] => signed[a]
  /\ \A w \in Requests : work[w].pc = "start" => signed[work[w].a]

ChargeInv ==
  ~scenario.stalls => Signing /\ OneCollector /\ Losses /\ \A w \in Requests : CareOf(w)

(* A cancel is on chain, or was undone by an untracked resume. *)
Reached(op) == op = "cancel" => onchain = Final(op) \/ orphaned

(* At most one request has claimed an operation. *)
OneClaim ==
  \A v, w \in Requests : work[v].pc \in Claimed /\ work[w].pc \in Claimed => v = w

(* What it knows: the payment is its own, it works on the latest row, and  *)
(* the row and the chain have what it has seen.                            *)
ClaimOf(w) ==
  work[w].pc \in Claimed =>
    /\ status = Processing(work[w].kind) /\ ~old
    /\ work[w].pc \notin {"row", "unclaim"} =>
         work[w].row = life[work[w].kind].n /\ life[work[w].kind].processing
    /\ work[w].pc \in {"submit", "recordSignature"} => life[work[w].kind].sig = "none"
    /\ work[w].pc = "confirmSignature" => life[work[w].kind].sig \in {work[w].sig, "none"}
    /\ work[w].pc = "finish" => work[w].sig = "ok"
    /\ work[w].pc = "failRow" => life[work[w].kind].sig # "ok"
    /\ work[w].pc = "unclaim" => ~life[work[w].kind].processing
    /\ work[w].pc \in {"recordSignature", "confirmSignature", "finish"} /\ work[w].sig = "ok"
         => Reached(work[w].kind)

(* A row is worked on while the payment says so. *)
RowOf(op) ==
  life[op].processing => status = Processing(op) /\ (life[op].sig = "ok" => Reached(op))

(* A subscription stays canceled on chain until a resume lands. *)
Undone ==
  /\ status = "canceled" => Reached("cancel")
  /\ status = "resuming" =>
       \/ Reached("cancel")
       \/ life["resume"].processing /\ life["resume"].sig = "ok"
       \/ \E w \in Requests : work[w].pc = "recordSignature" /\ work[w].sig = "ok"

Claims ==
  /\ OneClaim /\ Undone
  /\ \A w \in Requests : ClaimOf(w)
  /\ \A op \in {"cancel", "resume"} : RowOf(op)

LifeInv == ~scenario.stalls => Claims

-----------------------------------------------------------------------------
(* Types *)

PCs == {"idle", "create"} \cup CollectSteps \cup RecoverySteps \cup LifecycleSteps
TransferStatus == {"none", "processing", "confirmed", "finalized", "failed"}
WorkRecords ==
  [pc : PCs, kind : Kinds, due : 0..(Periods + 1), active : BOOLEAN, a : Attempts \cup {NoAttempt},
   linked : BOOLEAN, stale : BOOLEAN, asig : BOOLEAN, own : BOOLEAN, again : BOOLEAN,
   transfer : TransferStatus, row : 0..MaxRows, sig : Outcomes]
LifeRecords == [n : 0..MaxRows, processing : BOOLEAN, sig : Outcomes]

(* Only request w takes a step, and its record stays one. *)
Moves(w) == work'[w] \in WorkRecords /\ work' = [work EXCEPT ![w] = work'[w]]

PaymentType ==
  /\ status \in {"active", "canceling", "canceled", "resuming"} /\ old \in BOOLEAN
  /\ due \in 1..(Periods + 1) /\ subDue \in 1..(Periods + 1) /\ now \in 0..Periods
  /\ subStatus \in {"active", "canceled"} /\ onchain \in {"active", "canceled"}
  /\ orphaned \in BOOLEAN /\ scenario \in Scenarios
RowType ==
  /\ attempt \in [Attempts -> {"none", "processing", "confirmed", "failed"}]
  /\ adue \in [Attempts -> 0..Periods] /\ asig \in [Attempts -> BOOLEAN]
  /\ age \in [Attempts -> 0..2] /\ transfer \in [Attempts -> TransferStatus]
  /\ signed \in [Attempts -> BOOLEAN] /\ started \in [Attempts -> BOOLEAN]
ChainType ==
  /\ sent \in [Attempts -> BOOLEAN] /\ expired \in [Attempts -> BOOLEAN]
  /\ landed \in [Attempts -> {"no", "ok", "err"}] /\ forked \in [Attempts -> BOOLEAN]
  /\ loose \subseteq {"cancel", "resume"}
LifeType == life \in [{"cancel", "resume"} -> LifeRecords]
WorkType == work \in [Requests -> WorkRecords]

LEMMA Bounds == Periods \in Nat /\ Periods >= 1 /\ MaxRows \in Nat
<1>1. Periods \in Nat \ {0} /\ MaxRows \in Nat
  BY RecurringAssumption
<1> QED BY <1>1

LEMMA TypeParts == TypeOK <=> PaymentType /\ RowType /\ ChainType /\ LifeType /\ WorkType
BY Zenon DEF TypeOK, PaymentType, RowType, ChainType, LifeType, WorkType, WorkRecords,
   LifeRecords, PCs, TransferStatus

LEMMA TypePartsNext ==
  TypeOK' <=> PaymentType' /\ RowType' /\ ChainType' /\ LifeType' /\ WorkType'
BY Zenon DEF TypeOK, PaymentType, RowType, ChainType, LifeType, WorkType, WorkRecords,
   LifeRecords, PCs, TransferStatus

LEMMA IdleType == Idle \in WorkRecords
BY Bounds DEF Idle, WorkRecords, PCs, Kinds, Outcomes, TransferStatus

LEMMA TypesInit == Init => TypeOK
<1> SUFFICES ASSUME Init PROVE TypeOK
  OBVIOUS
<1>1. WorkType
  BY IdleType DEF Init, WorkType
<1>2. PaymentType
  <2>1. due \in 1..(Periods + 1) /\ subDue \in 1..(Periods + 1) /\ now \in 0..Periods
    BY Bounds DEF Init
  <2> QED BY <2>1, Zenon DEF Init, PaymentType
<1>3. RowType /\ ChainType
  BY Bounds DEF Init, RowType, ChainType, TransferStatus
<1>4. LifeType
  BY Bounds DEF Init, LifeType, LifeRecords, Outcomes
<1> QED BY <1>1, <1>2, <1>3, <1>4, TypeParts

(* A request moves to another step, starts afresh or goes back to rest. *)
LEMMA GotoMoves ==
  ASSUME WorkType, NEW w \in Requests, NEW pc \in PCs, Goto(w, pc)
  PROVE  Moves(w)
BY DEF WorkType, Moves, Goto, Becomes, WorkRecords

LEMMA LeavesMoves ==
  ASSUME WorkType, NEW w \in Requests, Leaves(w)
  PROVE  Moves(w)
BY IdleType DEF WorkType, Moves, Leaves, Becomes

LEMMA BecomesMoves ==
  ASSUME WorkType, NEW w \in Requests, NEW r \in WorkRecords, Becomes(w, r)
  PROVE  Moves(w)
BY DEF WorkType, Moves, Becomes

LEMMA NothingMoves ==
  ASSUME WorkType, NEW w \in Requests, NothingToRecover(w)
  PROVE  Moves(w)
BY GotoMoves, LeavesMoves DEF NothingToRecover, PCs, LifecycleSteps

LEMMA MovesType ==
  ASSUME WorkType, NEW w \in Requests, Moves(w)
  PROVE  WorkType'
BY DEF WorkType, Moves

LEMMA BeginsType ==
  ASSUME NEW d \in 0..(Periods + 1), NEW b \in BOOLEAN
  PROVE  [Idle EXCEPT !.pc = "recover", !.due = d, !.active = b] \in WorkRecords
BY IdleType DEF WorkRecords, PCs, RecoverySteps

LEMMA OperatesType ==
  ASSUME NEW d \in 0..(Periods + 1), NEW op \in Kinds, NEW pc \in PCs
  PROVE  [Idle EXCEPT !.kind = op, !.due = d, !.pc = pc] \in WorkRecords
BY IdleType DEF WorkRecords

LEMMA FindsType ==
  ASSUME NEW r \in WorkRecords, NEW a \in Attempts, NEW b \in BOOLEAN, NEW c \in BOOLEAN
  PROVE  [r EXCEPT !.pc = "transfer", !.a = a, !.linked = TRUE, !.stale = b, !.asig = c]
           \in WorkRecords
BY DEF WorkRecords, PCs, RecoverySteps

LEMMA LosesType ==
  ASSUME NEW r \in WorkRecords, NEW a \in Attempts
  PROVE  [r EXCEPT !.pc = "fail", !.a = a, !.linked = FALSE] \in WorkRecords
BY DEF WorkRecords, PCs, CollectSteps

LEMMA FailsType ==
  ASSUME NEW r \in WorkRecords
  PROVE  [r EXCEPT !.pc = "fail", !.linked = FALSE] \in WorkRecords
BY DEF WorkRecords, PCs, CollectSteps

LEMMA LearnsType ==
  ASSUME NEW r \in WorkRecords, NEW pc \in PCs, NEW t \in TransferStatus
  PROVE  [r EXCEPT !.pc = pc, !.transfer = t] \in WorkRecords
BY DEF WorkRecords

LEMMA LinksType ==
  ASSUME NEW r \in WorkRecords
  PROVE  [r EXCEPT !.pc = "destination", !.linked = TRUE, !.transfer = "processing"] \in WorkRecords
BY DEF WorkRecords, PCs, CollectSteps, TransferStatus

LEMMA CreatesType ==
  ASSUME NEW r \in WorkRecords, NEW a \in Attempts
  PROVE  [r EXCEPT !.pc = "policy", !.a = a, !.own = TRUE] \in WorkRecords
BY DEF WorkRecords, PCs, CollectSteps

LEMMA AgainType ==
  ASSUME NEW r \in WorkRecords
  PROVE  [r EXCEPT !.pc = "recover", !.again = TRUE] \in WorkRecords
BY DEF WorkRecords, PCs, RecoverySteps

LEMMA ClaimsType ==
  ASSUME NEW r \in WorkRecords, NEW pc \in PCs, NEW n \in 0..MaxRows, NEW s \in Outcomes
  PROVE  /\ [r EXCEPT !.row = n, !.sig = s, !.pc = pc] \in WorkRecords
         /\ [r EXCEPT !.pc = pc, !.row = n] \in WorkRecords
BY DEF WorkRecords

LEMMA SubmitsType ==
  ASSUME NEW r \in WorkRecords, NEW pc \in PCs, NEW s \in Outcomes
  PROVE  [r EXCEPT !.pc = pc, !.sig = s] \in WorkRecords
BY DEF WorkRecords

LEMMA RequestCollectionTypes ==
  ASSUME TypeOK, InHand, NEW w \in Requests, RequestCollection(w)
  PROVE  Moves(w) /\ TypeOK'
<1>0. PaymentType /\ RowType /\ ChainType /\ LifeType /\ WorkType
  BY TypeParts
<1>1. Moves(w)
  <2>1. due \in 0..(Periods + 1) /\ (status = "active" /\ subStatus = "active") \in BOOLEAN
    BY <1>0, Bounds DEF PaymentType
  <2>2. [Idle EXCEPT !.pc = "recover", !.due = due,
                     !.active = (status = "active" /\ subStatus = "active")] \in WorkRecords
    BY <2>1, BeginsType, Zenon
  <2> QED BY <1>0, <2>2, BecomesMoves, Zenon DEF RequestCollection, Reads
<1>2. PaymentType'
  BY <1>0 DEF RequestCollection, PaymentType, payment, attempts, chain, world, lifecycle
<1>3. RowType'
  BY <1>0 DEF RequestCollection, RowType, payment, attempts, chain, world, lifecycle
<1>4. ChainType' /\ LifeType'
  BY <1>0 DEF RequestCollection, ChainType, LifeType, chain, world, lifecycle
<1> QED BY <1>0, <1>1, <1>2, <1>3, <1>4, MovesType, TypePartsNext

LEMMA ListRecoverableTypes ==
  ASSUME TypeOK, InHand, NEW w \in Requests, ListRecoverable(w)
  PROVE  Moves(w) /\ TypeOK'
<1>0. PaymentType /\ RowType /\ ChainType /\ LifeType /\ WorkType
  BY TypeParts
<1>1. Moves(w)
  <2>1. due \in 0..(Periods + 1) /\ (status = "active" /\ subStatus = "active") \in BOOLEAN
    BY <1>0, Bounds DEF PaymentType
  <2>2. [Idle EXCEPT !.pc = "recover", !.due = due,
                     !.active = (status = "active" /\ subStatus = "active")] \in WorkRecords
    BY <2>1, BeginsType, Zenon
  <2> QED BY <1>0, <2>2, BecomesMoves, Zenon DEF ListRecoverable, Reads
<1>2. PaymentType'
  BY <1>0 DEF ListRecoverable, PaymentType, payment, attempts, chain, world, lifecycle
<1>3. RowType'
  BY <1>0 DEF ListRecoverable, RowType, payment, attempts, chain, world, lifecycle
<1>4. ChainType' /\ LifeType'
  BY <1>0 DEF ListRecoverable, ChainType, LifeType, chain, world, lifecycle
<1> QED BY <1>0, <1>1, <1>2, <1>3, <1>4, MovesType, TypePartsNext

LEMMA ListDueTypes ==
  ASSUME TypeOK, InHand, NEW w \in Requests, ListDue(w)
  PROVE  Moves(w) /\ TypeOK'
<1>0. PaymentType /\ RowType /\ ChainType /\ LifeType /\ WorkType
  BY TypeParts
<1>1. Moves(w)
  <2>1. due \in 0..(Periods + 1) /\ (status = "active" /\ subStatus = "active") \in BOOLEAN
    BY <1>0, Bounds DEF PaymentType
  <2>2. [Idle EXCEPT !.pc = "recover", !.due = due,
                     !.active = (status = "active" /\ subStatus = "active")] \in WorkRecords
    BY <2>1, BeginsType, Zenon
  <2> QED BY <1>0, <2>2, BecomesMoves, Zenon DEF ListDue, Reads
<1>2. PaymentType'
  BY <1>0 DEF ListDue, PaymentType, payment, attempts, chain, world, lifecycle
<1>3. RowType'
  BY <1>0 DEF ListDue, RowType, payment, attempts, chain, world, lifecycle
<1>4. ChainType' /\ LifeType'
  BY <1>0 DEF ListDue, ChainType, LifeType, chain, world, lifecycle
<1> QED BY <1>0, <1>1, <1>2, <1>3, <1>4, MovesType, TypePartsNext

LEMMA GetCollectionAttemptByDueTypes ==
  ASSUME TypeOK, InHand, NEW w \in Requests, GetCollectionAttemptByDue(w)
  PROVE  Moves(w) /\ TypeOK'
<1>0. PaymentType /\ RowType /\ ChainType /\ LifeType /\ WorkType
  BY TypeParts
<1>w. work[w] \in WorkRecords
  BY <1>0 DEF WorkType
<1>u. UNCHANGED <<payment, attempts, world, lifecycle>>
  BY Zenon DEF GetCollectionAttemptByDue
<1>1. Moves(w)
  <2>1. CASE ActiveAttempts(work[w].due) = {}
    BY <1>0, <2>1, NothingMoves DEF GetCollectionAttemptByDue
  <2>2. ASSUME NEW a \in Attempts,
               Becomes(w, [work[w] EXCEPT !.pc = "transfer", !.a = a, !.linked = TRUE,
                                          !.stale = (age[a] = 2), !.asig = asig[a]])
        PROVE  Moves(w)
    <3>1. (age[a] = 2) \in BOOLEAN /\ asig[a] \in BOOLEAN
      BY <1>0 DEF RowType
    <3>2. [work[w] EXCEPT !.pc = "transfer", !.a = a, !.linked = TRUE,
                          !.stale = (age[a] = 2), !.asig = asig[a]] \in WorkRecords
      BY <1>w, <3>1, FindsType, Zenon
    <3> QED BY <1>0, <2>2, <3>2, BecomesMoves, Zenon
  <2>3. ASSUME NEW a \in Attempts,
               Becomes(w, [work[w] EXCEPT !.pc = "fail", !.a = a, !.linked = FALSE])
        PROVE  Moves(w)
    BY <1>0, <1>w, <2>3, LosesType, BecomesMoves, Zenon
  <2>4. CASE Leaves(w)
    BY <1>0, <2>4, LeavesMoves
  <2> QED BY <2>1, <2>2, <2>3, <2>4, Zenon DEF GetCollectionAttemptByDue, ActiveAttempts
<1>2. PaymentType'
  BY <1>0, <1>u DEF PaymentType, payment, attempts, chain, world, lifecycle
<1>3. RowType'
  BY <1>0, <1>u DEF RowType, payment, attempts, chain, world, lifecycle
<1>4. ChainType' /\ LifeType'
  BY <1>0, <1>u DEF ChainType, LifeType, payment, attempts, chain, world, lifecycle
<1> QED BY <1>0, <1>1, <1>2, <1>3, <1>4, MovesType, TypePartsNext

LEMMA GetTransferByIdTypes ==
  ASSUME TypeOK, InHand, NEW w \in Requests, GetTransferById(w)
  PROVE  Moves(w) /\ TypeOK'
<1>0. PaymentType /\ RowType /\ ChainType /\ LifeType /\ WorkType
  BY TypeParts
<1>w. work[w] \in WorkRecords
  BY <1>0 DEF WorkType
<1>a. work[w].a \in Attempts
  BY <1>0 DEF GetTransferById, InHand, HandOf, AttemptSteps, At
<1>1. Moves(w)
  <2>1. "prove" \in PCs /\ "fail" \in PCs /\ transfer[work[w].a] \in TransferStatus
    BY <1>0, <1>a DEF RowType, PCs, CollectSteps, RecoverySteps
  <2> QED BY <1>0, <1>w, <2>1, LearnsType, GotoMoves, LeavesMoves, BecomesMoves, Zenon
             DEF GetTransferById
<1>2. PaymentType'
  BY <1>0 DEF GetTransferById, PaymentType, payment, attempts, chain, world, lifecycle
<1>3. RowType'
  BY <1>0 DEF GetTransferById, RowType, payment, attempts, chain, world, lifecycle
<1>4. ChainType' /\ LifeType'
  BY <1>0 DEF GetTransferById, ChainType, LifeType, chain, world, lifecycle
<1> QED BY <1>0, <1>1, <1>2, <1>3, <1>4, MovesType, TypePartsNext

LEMMA ProveCollectionTypes ==
  ASSUME TypeOK, InHand, NEW w \in Requests, ProveCollection(w)
  PROVE  Moves(w) /\ TypeOK'
<1>0. PaymentType /\ RowType /\ ChainType /\ LifeType /\ WorkType
  BY TypeParts
<1>1. Moves(w)
  BY <1>0, GotoMoves DEF ProveCollection, PCs, CollectSteps, RecoverySteps, LifecycleSteps
<1>2. PaymentType'
  BY <1>0 DEF ProveCollection, PaymentType, payment, attempts, chain, world, lifecycle
<1>3. RowType'
  BY <1>0 DEF ProveCollection, RowType, payment, attempts, chain, world, lifecycle
<1>4. ChainType' /\ LifeType'
  BY <1>0 DEF ProveCollection, ChainType, LifeType, chain, world, lifecycle
<1> QED BY <1>0, <1>1, <1>2, <1>3, <1>4, MovesType, TypePartsNext

LEMMA FailCollectionTypes ==
  ASSUME TypeOK, InHand, NEW w \in Requests, FailCollection(w)
  PROVE  Moves(w) /\ TypeOK'
<1>0. PaymentType /\ RowType /\ ChainType /\ LifeType /\ WorkType
  BY TypeParts
<1>w. work[w] \in WorkRecords
  BY <1>0 DEF WorkType
<1>a. work[w].a \in Attempts
  BY <1>0 DEF FailCollection, InHand, HandOf, AttemptSteps, CollectSteps, At
<1>1. Moves(w)
  BY <1>0, NothingMoves, LeavesMoves DEF FailCollection
<1>2. PaymentType'
  BY <1>0 DEF FailCollection, PaymentType, payment, attempts, chain, world, lifecycle
<1>3. RowType'
  <2>1. CASE UNCHANGED <<attempt, transfer, asig, age>>
    BY <1>0, <2>1 DEF FailCollection, RowType
  <2>2. CASE MarkFailedAtomically(work[w].a, work[w].linked)
    BY <1>0, <1>a, <2>2 DEF FailCollection, MarkFailedAtomically, RowType, TransferStatus
  <2> QED BY <2>1, <2>2 DEF FailCollection
<1>4. ChainType' /\ LifeType'
  BY <1>0 DEF FailCollection, ChainType, LifeType, chain, world, lifecycle
<1> QED BY <1>0, <1>1, <1>2, <1>3, <1>4, MovesType, TypePartsNext

LEMMA CreateCollectionAttemptTypes ==
  ASSUME TypeOK, InHand, NEW w \in Requests, CreateCollectionAttempt(w)
  PROVE  Moves(w) /\ TypeOK'
<1>0. PaymentType /\ RowType /\ ChainType /\ LifeType /\ WorkType
  BY TypeParts
<1>w. work[w] \in WorkRecords
  BY <1>0 DEF WorkType
<1>u. UNCHANGED <<payment, asig, transfer, signed, started, world, lifecycle>>
  BY Zenon DEF CreateCollectionAttempt
<1>1. Moves(w)
  <2>1. ASSUME NEW a \in Attempts,
               Becomes(w, [work[w] EXCEPT !.pc = "policy", !.a = a, !.own = TRUE])
        PROVE  Moves(w)
    BY <1>0, <1>w, <2>1, CreatesType, BecomesMoves, Zenon
  <2>2. CASE Becomes(w, [work[w] EXCEPT !.pc = "recover", !.again = TRUE])
    BY <1>0, <1>w, <2>2, AgainType, BecomesMoves, Zenon
  <2>3. CASE Leaves(w)
    BY <1>0, <2>3, LeavesMoves
  <2> QED BY <2>1, <2>2, <2>3, Zenon DEF CreateCollectionAttempt
<1>2. PaymentType'
  BY <1>0, <1>u DEF PaymentType, payment, attempts, chain, world, lifecycle
<1>3. RowType'
  <2>1. CASE UNCHANGED <<attempt, adue, age>>
    BY <1>0, <1>u, <2>1 DEF RowType
  <2>2. ASSUME NEW a \in Attempts, work[w].due <= now,
               attempt' = [attempt EXCEPT ![a] = "processing"],
               adue' = [adue EXCEPT ![a] = work[w].due], age' = [age EXCEPT ![a] = 0]
        PROVE  RowType'
    <3>1. work[w].due \in 0..Periods
      BY <1>0, <2>2, Bounds DEF WorkType, WorkRecords, PaymentType
    <3> QED BY <1>0, <1>u, <2>2, <3>1 DEF RowType
  <2>3. work[w].due > now \/ work[w].due <= now
    BY <1>0, Bounds DEF WorkType, WorkRecords, PaymentType
  <2> QED BY <2>1, <2>2, <2>3, Zenon DEF CreateCollectionAttempt
<1>4. ChainType' /\ LifeType'
  BY <1>0, <1>u DEF ChainType, LifeType, payment, attempts, chain, world, lifecycle
<1> QED BY <1>0, <1>1, <1>2, <1>3, <1>4, MovesType, TypePartsNext

LEMMA EnforcePolicyTypes ==
  ASSUME TypeOK, InHand, NEW w \in Requests, EnforcePolicy(w)
  PROVE  Moves(w) /\ TypeOK'
<1>0. PaymentType /\ RowType /\ ChainType /\ LifeType /\ WorkType
  BY TypeParts
<1>w. work[w] \in WorkRecords
  BY <1>0 DEF WorkType
<1>1. Moves(w)
  <2>1. "link" \in PCs
    BY DEF PCs, CollectSteps
  <2> QED BY <1>0, <1>w, <2>1, FailsType, GotoMoves, BecomesMoves, Zenon DEF EnforcePolicy
<1>2. PaymentType'
  BY <1>0 DEF EnforcePolicy, PaymentType, payment, attempts, chain, world, lifecycle
<1>3. RowType'
  BY <1>0 DEF EnforcePolicy, RowType, payment, attempts, chain, world, lifecycle
<1>4. ChainType' /\ LifeType'
  BY <1>0 DEF EnforcePolicy, ChainType, LifeType, chain, world, lifecycle
<1> QED BY <1>0, <1>1, <1>2, <1>3, <1>4, MovesType, TypePartsNext

LEMMA LinkTransferTypes ==
  ASSUME TypeOK, InHand, NEW w \in Requests, LinkTransfer(w)
  PROVE  Moves(w) /\ TypeOK'
<1>0. PaymentType /\ RowType /\ ChainType /\ LifeType /\ WorkType
  BY TypeParts
<1>w. work[w] \in WorkRecords
  BY <1>0 DEF WorkType
<1>a. work[w].a \in Attempts
  BY <1>0 DEF LinkTransfer, InHand, HandOf, AttemptSteps, CollectSteps, At
<1>1. Moves(w)
  BY <1>0, <1>w, FailsType, LinksType, BecomesMoves, Zenon DEF LinkTransfer
<1>2. PaymentType'
  BY <1>0 DEF LinkTransfer, PaymentType, payment, attempts, chain, world, lifecycle
<1>3. RowType'
  BY <1>0, <1>a DEF LinkTransfer, RowType, TransferStatus
<1>4. ChainType' /\ LifeType'
  BY <1>0 DEF LinkTransfer, ChainType, LifeType, chain, world, lifecycle
<1> QED BY <1>0, <1>1, <1>2, <1>3, <1>4, MovesType, TypePartsNext

LEMMA UpdateDestinationTokenAccountTypes ==
  ASSUME TypeOK, InHand, NEW w \in Requests, UpdateDestinationTokenAccount(w)
  PROVE  Moves(w) /\ TypeOK'
<1>0. PaymentType /\ RowType /\ ChainType /\ LifeType /\ WorkType
  BY TypeParts
<1>1. Moves(w)
  BY <1>0, GotoMoves DEF UpdateDestinationTokenAccount, PCs, CollectSteps, RecoverySteps,
     LifecycleSteps
<1>2. PaymentType'
  BY <1>0 DEF UpdateDestinationTokenAccount, PaymentType, payment, attempts, chain, world, lifecycle
<1>3. RowType'
  BY <1>0 DEF UpdateDestinationTokenAccount, RowType, payment, attempts, chain, world, lifecycle
<1>4. ChainType' /\ LifeType'
  BY <1>0 DEF UpdateDestinationTokenAccount, ChainType, LifeType, chain, world, lifecycle
<1> QED BY <1>0, <1>1, <1>2, <1>3, <1>4, MovesType, TypePartsNext

LEMMA PersistSignedTypes ==
  ASSUME TypeOK, InHand, NEW w \in Requests, PersistSigned(w)
  PROVE  Moves(w) /\ TypeOK'
<1>0. PaymentType /\ RowType /\ ChainType /\ LifeType /\ WorkType
  BY TypeParts
<1>w. work[w] \in WorkRecords
  BY <1>0 DEF WorkType
<1>a. work[w].a \in Attempts
  BY <1>0 DEF PersistSigned, InHand, HandOf, AttemptSteps, CollectSteps, At
<1>1. Moves(w)
  BY <1>0, GotoMoves DEF PersistSigned, PCs, CollectSteps, RecoverySteps, LifecycleSteps
<1>2. PaymentType'
  BY <1>0 DEF PersistSigned, PaymentType, payment, attempts, chain, world, lifecycle
<1>3. RowType'
  BY <1>0, <1>a DEF PersistSigned, RowType
<1>4. ChainType' /\ LifeType'
  BY <1>0 DEF PersistSigned, ChainType, LifeType, chain, world, lifecycle
<1> QED BY <1>0, <1>1, <1>2, <1>3, <1>4, MovesType, TypePartsNext

LEMMA MarkStartedTypes ==
  ASSUME TypeOK, InHand, NEW w \in Requests, MarkStarted(w)
  PROVE  Moves(w) /\ TypeOK'
<1>0. PaymentType /\ RowType /\ ChainType /\ LifeType /\ WorkType
  BY TypeParts
<1>w. work[w] \in WorkRecords
  BY <1>0 DEF WorkType
<1>a. work[w].a \in Attempts
  BY <1>0 DEF MarkStarted, InHand, HandOf, AttemptSteps, CollectSteps, At
<1>1. Moves(w)
  BY <1>0, GotoMoves DEF MarkStarted, PCs, CollectSteps, RecoverySteps, LifecycleSteps
<1>2. PaymentType'
  BY <1>0 DEF MarkStarted, PaymentType, payment, attempts, chain, world, lifecycle
<1>3. RowType'
  BY <1>0, <1>a DEF MarkStarted, RowType
<1>4. ChainType' /\ LifeType'
  BY <1>0 DEF MarkStarted, ChainType, LifeType, chain, world, lifecycle
<1> QED BY <1>0, <1>1, <1>2, <1>3, <1>4, MovesType, TypePartsNext

LEMMA SendTransactionTypes ==
  ASSUME TypeOK, InHand, NEW w \in Requests, SendTransaction(w)
  PROVE  Moves(w) /\ TypeOK'
<1>0. PaymentType /\ RowType /\ ChainType /\ LifeType /\ WorkType
  BY TypeParts
<1>w. work[w] \in WorkRecords
  BY <1>0 DEF WorkType
<1>a. work[w].a \in Attempts
  BY <1>0 DEF SendTransaction, InHand, HandOf, AttemptSteps, CollectSteps, At
<1>1. Moves(w)
  BY <1>0, GotoMoves DEF SendTransaction, PCs, CollectSteps, RecoverySteps, LifecycleSteps
<1>2. PaymentType'
  BY <1>0 DEF SendTransaction, PaymentType, payment, attempts, chain, world, lifecycle
<1>3. RowType'
  BY <1>0 DEF SendTransaction, RowType, payment, attempts, chain, world, lifecycle
<1>4. ChainType' /\ LifeType'
  BY <1>0, <1>a DEF SendTransaction, ChainType, LifeType, lifecycle
<1> QED BY <1>0, <1>1, <1>2, <1>3, <1>4, MovesType, TypePartsNext

LEMMA RecordSignatureTypes ==
  ASSUME TypeOK, InHand, NEW w \in Requests, RecordSignature(w)
  PROVE  Moves(w) /\ TypeOK'
<1>0. PaymentType /\ RowType /\ ChainType /\ LifeType /\ WorkType
  BY TypeParts
<1>w. work[w] \in WorkRecords
  BY <1>0 DEF WorkType
<1>a. work[w].a \in Attempts
  BY <1>0 DEF RecordSignature, InHand, HandOf, AttemptSteps, CollectSteps, At
<1>1. Moves(w)
  <2>1. "confirm" \in PCs /\ "journal" \in PCs /\ transfer[work[w].a] \in TransferStatus
    BY <1>0, <1>a DEF RowType, PCs, CollectSteps
  <2> QED BY <1>0, <1>w, <2>1, LearnsType, GotoMoves, BecomesMoves, Zenon DEF RecordSignature
<1>2. PaymentType'
  BY <1>0 DEF RecordSignature, PaymentType, payment, attempts, chain, world, lifecycle
<1>3. RowType'
  <2>1. CASE UNCHANGED <<asig, age>>
    BY <1>0, <2>1 DEF RecordSignature, RowType
  <2>2. CASE asig' = [asig EXCEPT ![work[w].a] = TRUE] /\ age' = [age EXCEPT ![work[w].a] = 0]
    BY <1>0, <1>a, <2>2 DEF RecordSignature, RowType
  <2> QED BY <2>1, <2>2 DEF RecordSignature
<1>4. ChainType' /\ LifeType'
  BY <1>0 DEF RecordSignature, ChainType, LifeType, chain, world, lifecycle
<1> QED BY <1>0, <1>1, <1>2, <1>3, <1>4, MovesType, TypePartsNext

LEMMA ConfirmCollectionTypes ==
  ASSUME TypeOK, InHand, NEW w \in Requests, ConfirmCollection(w)
  PROVE  Moves(w) /\ TypeOK'
<1>0. PaymentType /\ RowType /\ ChainType /\ LifeType /\ WorkType
  BY TypeParts
<1>1. Moves(w)
  BY <1>0, GotoMoves DEF ConfirmCollection, PCs, CollectSteps, RecoverySteps, LifecycleSteps
<1>2. PaymentType'
  BY <1>0 DEF ConfirmCollection, PaymentType, payment, attempts, chain, world, lifecycle
<1>3. RowType'
  BY <1>0 DEF ConfirmCollection, RowType, payment, attempts, chain, world, lifecycle
<1>4. ChainType' /\ LifeType'
  BY <1>0 DEF ConfirmCollection, ChainType, LifeType, chain, world, lifecycle
<1> QED BY <1>0, <1>1, <1>2, <1>3, <1>4, MovesType, TypePartsNext

LEMMA JournalSignatureTypes ==
  ASSUME TypeOK, InHand, NEW w \in Requests, JournalSignature(w)
  PROVE  Moves(w) /\ TypeOK'
<1>0. PaymentType /\ RowType /\ ChainType /\ LifeType /\ WorkType
  BY TypeParts
<1>w. work[w] \in WorkRecords
  BY <1>0 DEF WorkType
<1>a. work[w].a \in Attempts
  BY <1>0 DEF JournalSignature, InHand, HandOf, AttemptSteps, CollectSteps, At
<1>1. Moves(w)
  BY <1>0, GotoMoves, LeavesMoves DEF JournalSignature, PCs, CollectSteps, RecoverySteps,
     LifecycleSteps
<1>2. PaymentType'
  BY <1>0 DEF JournalSignature, PaymentType, payment, attempts, chain, world, lifecycle
<1>3. RowType'
  <2>1. CASE UNCHANGED <<asig, age>>
    BY <1>0, <2>1 DEF JournalSignature, RowType
  <2>2. CASE asig' = [asig EXCEPT ![work[w].a] = TRUE] /\ age' = [age EXCEPT ![work[w].a] = 0]
    BY <1>0, <1>a, <2>2 DEF JournalSignature, RowType
  <2> QED BY <2>1, <2>2 DEF JournalSignature
<1>4. ChainType' /\ LifeType'
  BY <1>0 DEF JournalSignature, ChainType, LifeType, chain, world, lifecycle
<1> QED BY <1>0, <1>1, <1>2, <1>3, <1>4, MovesType, TypePartsNext

LEMMA FinalizeCollectionTypes ==
  ASSUME TypeOK, InHand, NEW w \in Requests, FinalizeCollection(w)
  PROVE  Moves(w) /\ TypeOK'
<1>0. PaymentType /\ RowType /\ ChainType /\ LifeType /\ WorkType
  BY TypeParts
<1>w. work[w] \in WorkRecords
  BY <1>0 DEF WorkType
<1>a. work[w].a \in Attempts
  BY <1>0 DEF FinalizeCollection, InHand, HandOf, AttemptSteps, CollectSteps, At
<1>1. Moves(w)
  BY <1>0, GotoMoves, LeavesMoves DEF FinalizeCollection, PCs, CollectSteps, RecoverySteps,
     LifecycleSteps
<1>2. PaymentType'
  <2>1. work[w].due \in 0..Periods
    BY <1>0, <1>a DEF FinalizeCollection, InHand, HandOf, AttemptSteps, CollectSteps, At, RowType
  <2>2. due' \in 1..(Periods + 1) /\ subDue' \in 1..(Periods + 1)
    BY <1>0, <2>1, Bounds DEF FinalizeCollection, PaymentType
  <2>3. old' \in BOOLEAN
    BY <1>0 DEF FinalizeCollection, PaymentType
  <2> QED BY <1>0, <2>2, <2>3 DEF FinalizeCollection, PaymentType, payment, attempts, chain,
             world, lifecycle
<1>3. RowType'
  <2>1. CASE UNCHANGED <<transfer, attempt, asig, age>>
    BY <1>0, <2>1 DEF FinalizeCollection, RowType
  <2>2. ASSUME NEW s \in {"confirmed", "finalized"},
               transfer' = [transfer EXCEPT ![work[w].a] = s],
               attempt' = [attempt EXCEPT ![work[w].a] = "confirmed"],
               asig' = [asig EXCEPT ![work[w].a] = TRUE], age' = [age EXCEPT ![work[w].a] = 0]
        PROVE  RowType'
    BY <1>0, <1>a, <2>2 DEF FinalizeCollection, RowType, TransferStatus
  <2> QED BY <2>1, <2>2 DEF FinalizeCollection
<1>4. ChainType' /\ LifeType'
  BY <1>0 DEF FinalizeCollection, ChainType, LifeType, chain, world, lifecycle
<1> QED BY <1>0, <1>1, <1>2, <1>3, <1>4, MovesType, TypePartsNext

LEMMA RequestLifecycleTypes ==
  ASSUME TypeOK, InHand, NEW w \in Requests, NEW op \in scenario.operations, RequestLifecycle(w, op)
  PROVE  Moves(w) /\ TypeOK'
<1>0. PaymentType /\ RowType /\ ChainType /\ LifeType /\ WorkType
  BY TypeParts
<1>1. Moves(w)
  <2>1. op \in {"cancel", "resume"}
    BY <1>0, RecurringAssumption DEF PaymentType
  <2>2. /\ op \in Kinds /\ due \in 0..(Periods + 1)
        /\ (IF op = "resume" /\ due <= Periods THEN "recover" ELSE "claim") \in PCs
    BY <1>0, <2>1, Bounds DEF PaymentType, Kinds, PCs, RecoverySteps, LifecycleSteps
  <2> QED BY <1>0, <2>2, OperatesType, BecomesMoves, Zenon DEF RequestLifecycle
<1>2. PaymentType'
  BY <1>0 DEF RequestLifecycle, PaymentType, payment, attempts, chain, world, lifecycle
<1>3. RowType'
  BY <1>0 DEF RequestLifecycle, RowType, payment, attempts, chain, world, lifecycle
<1>4. ChainType' /\ LifeType'
  BY <1>0 DEF RequestLifecycle, ChainType, LifeType, chain, world, lifecycle
<1> QED BY <1>0, <1>1, <1>2, <1>3, <1>4, MovesType, TypePartsNext

LEMMA ClaimLifecycleTypes ==
  ASSUME TypeOK, InHand, NEW w \in Requests, ClaimLifecycle(w)
  PROVE  Moves(w) /\ TypeOK'
<1>0. PaymentType /\ RowType /\ ChainType /\ LifeType /\ WorkType
  BY TypeParts
<1>1. Moves(w)
  BY <1>0, GotoMoves, LeavesMoves DEF ClaimLifecycle, PCs, CollectSteps, RecoverySteps,
     LifecycleSteps
<1>2. PaymentType'
  BY <1>0 DEF ClaimLifecycle, Processing, PaymentType, chain, world, lifecycle
<1>3. RowType'
  BY <1>0 DEF ClaimLifecycle, RowType, payment, attempts, chain, world, lifecycle
<1>4. ChainType' /\ LifeType'
  BY <1>0 DEF ClaimLifecycle, ChainType, LifeType, chain, world, lifecycle
<1> QED BY <1>0, <1>1, <1>2, <1>3, <1>4, MovesType, TypePartsNext

LEMMA GetOrCreateLifecycleAttemptTypes ==
  ASSUME TypeOK, InHand, NEW w \in Requests, GetOrCreateLifecycleAttempt(w)
  PROVE  Moves(w) /\ TypeOK'
<1>0. PaymentType /\ RowType /\ ChainType /\ LifeType /\ WorkType
  BY TypeParts
<1>w. work[w] \in WorkRecords
  BY <1>0 DEF WorkType
<1>o. work[w].kind \in {"cancel", "resume"}
  BY <1>0 DEF GetOrCreateLifecycleAttempt, InHand, HandOf, At, LifecycleSteps, WorkType,
     WorkRecords, Kinds
<1>1. Moves(w)
  <2>1. /\ {"submit", "confirmSignature", "unclaim"} \subseteq PCs
        /\ life[work[w].kind].n \in 0..MaxRows /\ life[work[w].kind].sig \in Outcomes
        /\ life[work[w].kind].n < MaxRows => life[work[w].kind].n + 1 \in 0..MaxRows
    BY <1>0, <1>o, Bounds DEF LifeType, LifeRecords, PCs, LifecycleSteps
  <2>2. (IF life[work[w].kind].sig = "none" THEN "submit" ELSE "confirmSignature") \in PCs
    BY <2>1
  <2>3. "submit" \in PCs /\ "unclaim" \in PCs
    BY <2>1
  <2>4. CASE life[work[w].kind].processing
    BY <1>0, <1>w, <2>1, <2>2, <2>4, ClaimsType, BecomesMoves, Zenon DEF GetOrCreateLifecycleAttempt
  <2>5. CASE ~life[work[w].kind].processing
    BY <1>0, <1>w, <2>1, <2>3, <2>5, ClaimsType, GotoMoves, BecomesMoves, Zenon
       DEF GetOrCreateLifecycleAttempt
  <2> QED BY <2>4, <2>5
<1>2. PaymentType'
  BY <1>0 DEF GetOrCreateLifecycleAttempt, PaymentType, payment, attempts, chain, world, lifecycle
<1>3. RowType'
  BY <1>0 DEF GetOrCreateLifecycleAttempt, RowType, payment, attempts, chain, world, lifecycle
<1>4. ChainType' /\ LifeType'
  <2>1. ChainType'
    BY <1>0 DEF GetOrCreateLifecycleAttempt, ChainType, payment, attempts, chain, world, lifecycle
  <2>2. ASSUME UNCHANGED life PROVE LifeType'
    BY <1>0, <2>2 DEF LifeType
  <2>3. ASSUME life[work[w].kind].n < MaxRows,
               life' = [life EXCEPT ![work[w].kind] =
                          [n |-> @.n + 1, processing |-> TRUE, sig |-> "none"]]
        PROVE  LifeType'
    BY <1>0, <1>o, <2>3, Bounds DEF LifeType, LifeRecords, Outcomes
  <2> QED BY <2>1, <2>2, <2>3 DEF GetOrCreateLifecycleAttempt
<1> QED BY <1>0, <1>1, <1>2, <1>3, <1>4, MovesType, TypePartsNext

LEMMA SubmitLifecycleTypes ==
  ASSUME TypeOK, InHand, NEW w \in Requests, SubmitLifecycle(w)
  PROVE  Moves(w) /\ TypeOK'
<1>0. PaymentType /\ RowType /\ ChainType /\ LifeType /\ WorkType
  BY TypeParts
<1>w. work[w] \in WorkRecords
  BY <1>0 DEF WorkType
<1>o. work[w].kind \in {"cancel", "resume"}
  BY <1>0 DEF SubmitLifecycle, InHand, HandOf, At, LifecycleSteps, WorkType, WorkRecords, Kinds
<1>1. Moves(w)
  <2>1. "recordSignature" \in PCs /\ "failRow" \in PCs /\ {"ok", "err", "lost"} \subseteq Outcomes
    BY DEF PCs, LifecycleSteps, Outcomes
  <2>2. ASSUME NEW outcome \in {"ok", "err", "lost"},
               Becomes(w, [work[w] EXCEPT !.pc = "recordSignature", !.sig = outcome])
        PROVE  Moves(w)
    <3>1. outcome \in Outcomes
      BY DEF Outcomes
    <3> QED BY <1>0, <1>w, <2>1, <2>2, <3>1, SubmitsType, BecomesMoves, Zenon
  <2>3. CASE Goto(w, "failRow")
    BY <1>0, <2>1, <2>3, GotoMoves
  <2> QED BY <2>2, <2>3, Zenon DEF SubmitLifecycle
<1>2. PaymentType'
  BY <1>0, <1>o DEF SubmitLifecycle, Final, PaymentType, payment
<1>3. RowType'
  BY <1>0 DEF SubmitLifecycle, RowType, payment, attempts, chain, world, lifecycle
<1>4. ChainType' /\ LifeType'
  BY <1>0, <1>o DEF SubmitLifecycle, ChainType, LifeType
<1> QED BY <1>0, <1>1, <1>2, <1>3, <1>4, MovesType, TypePartsNext

LEMMA RecordLifecycleSignatureTypes ==
  ASSUME TypeOK, InHand, NEW w \in Requests, RecordLifecycleSignature(w)
  PROVE  Moves(w) /\ TypeOK'
<1>0. PaymentType /\ RowType /\ ChainType /\ LifeType /\ WorkType
  BY TypeParts
<1>w. work[w] \in WorkRecords
  BY <1>0 DEF WorkType
<1>o. work[w].kind \in {"cancel", "resume"}
  BY <1>0 DEF RecordLifecycleSignature, InHand, HandOf, At, LifecycleSteps, WorkType,
     WorkRecords, Kinds
<1>1. Moves(w)
  BY <1>0, GotoMoves, LeavesMoves DEF RecordLifecycleSignature, PCs, CollectSteps, RecoverySteps,
     LifecycleSteps
<1>2. PaymentType'
  BY <1>0 DEF RecordLifecycleSignature, PaymentType, payment, chain, world
<1>3. RowType'
  BY <1>0 DEF RecordLifecycleSignature, RowType, payment, attempts, chain, world, lifecycle
<1>4. ChainType' /\ LifeType'
  BY <1>0, <1>o, <1>w DEF RecordLifecycleSignature, LifeType, LifeRecords, ChainType,
     WorkRecords, chain, world
<1> QED BY <1>0, <1>1, <1>2, <1>3, <1>4, MovesType, TypePartsNext

LEMMA ConfirmLifecycleTypes ==
  ASSUME TypeOK, InHand, NEW w \in Requests, ConfirmLifecycle(w)
  PROVE  Moves(w) /\ TypeOK'
<1>0. PaymentType /\ RowType /\ ChainType /\ LifeType /\ WorkType
  BY TypeParts
<1>1. Moves(w)
  BY <1>0, GotoMoves, LeavesMoves DEF ConfirmLifecycle, PCs, CollectSteps, RecoverySteps,
     LifecycleSteps
<1>2. PaymentType'
  BY <1>0 DEF ConfirmLifecycle, PaymentType, payment, attempts, chain, world, lifecycle
<1>3. RowType'
  BY <1>0 DEF ConfirmLifecycle, RowType, payment, attempts, chain, world, lifecycle
<1>4. ChainType' /\ LifeType'
  BY <1>0 DEF ConfirmLifecycle, ChainType, LifeType, chain, world, lifecycle
<1> QED BY <1>0, <1>1, <1>2, <1>3, <1>4, MovesType, TypePartsNext

LEMMA FinalizeLifecycleTypes ==
  ASSUME TypeOK, InHand, NEW w \in Requests, FinalizeLifecycle(w)
  PROVE  Moves(w) /\ TypeOK'
<1>0. PaymentType /\ RowType /\ ChainType /\ LifeType /\ WorkType
  BY TypeParts
<1>w. work[w] \in WorkRecords
  BY <1>0 DEF WorkType
<1>o. work[w].kind \in {"cancel", "resume"}
  BY <1>0 DEF FinalizeLifecycle, InHand, HandOf, At, LifecycleSteps, WorkType, WorkRecords, Kinds
<1>1. Moves(w)
  BY <1>0, GotoMoves, LeavesMoves DEF FinalizeLifecycle, PCs, CollectSteps, RecoverySteps,
     LifecycleSteps
<1>2. PaymentType'
  BY <1>0 DEF FinalizeLifecycle, Final, PaymentType, chain, world
<1>3. RowType'
  BY <1>0 DEF FinalizeLifecycle, RowType, payment, attempts, chain, world, lifecycle
<1>4. ChainType' /\ LifeType'
  <2>1. ChainType'
    BY <1>0 DEF FinalizeLifecycle, ChainType, payment, attempts, chain, world, lifecycle
  <2>2. ASSUME UNCHANGED life PROVE LifeType'
    BY <1>0, <2>2 DEF LifeType
  <2>3. ASSUME NEW b \in BOOLEAN, life' = [life EXCEPT ![work[w].kind].processing = b]
        PROVE  LifeType'
    BY <1>0, <1>o, <2>3 DEF LifeType, LifeRecords
  <2>4. (life[work[w].kind].processing /\ life[work[w].kind].n # work[w].row) \in BOOLEAN
    OBVIOUS
  <2> QED BY <2>1, <2>2, <2>3, <2>4 DEF FinalizeLifecycle
<1> QED BY <1>0, <1>1, <1>2, <1>3, <1>4, MovesType, TypePartsNext

LEMMA FailLifecycleRowTypes ==
  ASSUME TypeOK, InHand, NEW w \in Requests, FailLifecycleRow(w)
  PROVE  Moves(w) /\ TypeOK'
<1>0. PaymentType /\ RowType /\ ChainType /\ LifeType /\ WorkType
  BY TypeParts
<1>w. work[w] \in WorkRecords
  BY <1>0 DEF WorkType
<1>o. work[w].kind \in {"cancel", "resume"}
  BY <1>0 DEF FailLifecycleRow, InHand, HandOf, At, LifecycleSteps, WorkType, WorkRecords, Kinds
<1>1. Moves(w)
  BY <1>0, GotoMoves DEF FailLifecycleRow, PCs, CollectSteps, RecoverySteps, LifecycleSteps
<1>2. PaymentType'
  BY <1>0 DEF FailLifecycleRow, PaymentType, payment, attempts, chain, world, lifecycle
<1>3. RowType'
  BY <1>0 DEF FailLifecycleRow, RowType, payment, attempts, chain, world, lifecycle
<1>4. ChainType' /\ LifeType'
  <2>1. ChainType'
    BY <1>0 DEF FailLifecycleRow, ChainType, payment, attempts, chain, world, lifecycle
  <2>2. ASSUME UNCHANGED life PROVE LifeType'
    BY <1>0, <2>2 DEF LifeType
  <2>3. ASSUME NEW b \in BOOLEAN, life' = [life EXCEPT ![work[w].kind].processing = b]
        PROVE  LifeType'
    BY <1>0, <1>o, <2>3 DEF LifeType, LifeRecords
  <2>4. (life[work[w].kind].processing /\ life[work[w].kind].n # work[w].row) \in BOOLEAN
    OBVIOUS
  <2> QED BY <2>1, <2>2, <2>3, <2>4 DEF FailLifecycleRow
<1> QED BY <1>0, <1>1, <1>2, <1>3, <1>4, MovesType, TypePartsNext

LEMMA ResetLifecycleClaimTypes ==
  ASSUME TypeOK, InHand, NEW w \in Requests, ResetLifecycleClaim(w)
  PROVE  Moves(w) /\ TypeOK'
<1>0. PaymentType /\ RowType /\ ChainType /\ LifeType /\ WorkType
  BY TypeParts
<1>1. Moves(w)
  BY <1>0, GotoMoves, LeavesMoves DEF ResetLifecycleClaim, PCs, CollectSteps, RecoverySteps,
     LifecycleSteps
<1>2. PaymentType'
  BY <1>0 DEF ResetLifecycleClaim, Claimable, PaymentType, chain, world, lifecycle
<1>3. RowType'
  BY <1>0 DEF ResetLifecycleClaim, RowType, payment, attempts, chain, world, lifecycle
<1>4. ChainType' /\ LifeType'
  BY <1>0 DEF ResetLifecycleClaim, ChainType, LifeType, chain, world, lifecycle
<1> QED BY <1>0, <1>1, <1>2, <1>3, <1>4, MovesType, TypePartsNext

LEMMA CrashTypes ==
  ASSUME TypeOK, InHand, NEW w \in Requests, Crash(w)
  PROVE  Moves(w) /\ TypeOK'
<1>0. PaymentType /\ RowType /\ ChainType /\ LifeType /\ WorkType
  BY TypeParts
<1>1. Moves(w)
  BY <1>0, GotoMoves, LeavesMoves DEF Crash, PCs, CollectSteps, RecoverySteps, LifecycleSteps
<1>2. PaymentType'
  BY <1>0 DEF Crash, PaymentType, payment, attempts, chain, world, lifecycle
<1>3. RowType'
  BY <1>0 DEF Crash, RowType, payment, attempts, chain, world, lifecycle
<1>4. ChainType' /\ LifeType'
  BY <1>0 DEF Crash, ChainType, LifeType, chain, world
<1> QED BY <1>0, <1>1, <1>2, <1>3, <1>4, MovesType, TypePartsNext

LEMMA TrackTransferTypes ==
  ASSUME TypeOK, InHand, NEW a \in Attempts, TrackTransfer(a)
  PROVE  TypeOK'
<1>0. PaymentType /\ RowType /\ ChainType /\ LifeType /\ WorkType
  BY TypeParts
<1>1. WorkType'
  BY <1>0 DEF TrackTransfer, WorkType
<1>2. PaymentType'
  BY <1>0 DEF TrackTransfer, PaymentType, payment, attempts, chain, world, lifecycle
<1>3. RowType'
  BY <1>0 DEF TrackTransfer, RowType, TransferStatus
<1>4. ChainType' /\ LifeType'
  BY <1>0 DEF TrackTransfer, ChainType, LifeType, chain, world, lifecycle
<1> QED BY <1>0, <1>1, <1>2, <1>3, <1>4, TypePartsNext

LEMMA AttemptAgesTypes ==
  ASSUME TypeOK, InHand, NEW a \in Attempts, AttemptAges(a)
  PROVE  TypeOK'
<1>0. PaymentType /\ RowType /\ ChainType /\ LifeType /\ WorkType
  BY TypeParts
<1>1. WorkType'
  BY <1>0 DEF AttemptAges, WorkType
<1>2. PaymentType'
  BY <1>0 DEF AttemptAges, PaymentType, payment, attempts, chain, world, lifecycle
<1>3. RowType'
  BY <1>0 DEF AttemptAges, RowType
<1>4. ChainType' /\ LifeType'
  BY <1>0 DEF AttemptAges, ChainType, LifeType, chain, world, lifecycle
<1> QED BY <1>0, <1>1, <1>2, <1>3, <1>4, TypePartsNext

LEMMA LandsTypes ==
  ASSUME TypeOK, InHand, NEW a \in Attempts, Lands(a)
  PROVE  TypeOK'
<1>0. PaymentType /\ RowType /\ ChainType /\ LifeType /\ WorkType
  BY TypeParts
<1>1. WorkType'
  BY <1>0 DEF Lands, WorkType
<1>2. PaymentType'
  BY <1>0 DEF Lands, PaymentType, payment, attempts, chain, world, lifecycle
<1>3. RowType'
  BY <1>0 DEF Lands, RowType, payment, attempts, chain, world, lifecycle
<1>4. ChainType' /\ LifeType'
  BY <1>0 DEF Lands, ChainType, LifeType, lifecycle
<1> QED BY <1>0, <1>1, <1>2, <1>3, <1>4, TypePartsNext

LEMMA ExpiresTypes ==
  ASSUME TypeOK, InHand, NEW a \in Attempts, Expires(a)
  PROVE  TypeOK'
<1>0. PaymentType /\ RowType /\ ChainType /\ LifeType /\ WorkType
  BY TypeParts
<1>1. WorkType'
  BY <1>0 DEF Expires, WorkType
<1>2. PaymentType'
  BY <1>0 DEF Expires, PaymentType, payment, attempts, chain, world, lifecycle
<1>3. RowType'
  BY <1>0 DEF Expires, RowType, payment, attempts, chain, world, lifecycle
<1>4. ChainType' /\ LifeType'
  BY <1>0 DEF Expires, ChainType, LifeType, lifecycle
<1> QED BY <1>0, <1>1, <1>2, <1>3, <1>4, TypePartsNext

LEMMA ForkDroppedTypes ==
  ASSUME TypeOK, InHand, NEW a \in Attempts, ForkDropped(a)
  PROVE  TypeOK'
<1>0. PaymentType /\ RowType /\ ChainType /\ LifeType /\ WorkType
  BY TypeParts
<1>1. WorkType'
  BY <1>0 DEF ForkDropped, WorkType
<1>2. PaymentType'
  BY <1>0 DEF ForkDropped, PaymentType, payment, attempts, chain, world, lifecycle
<1>3. RowType'
  BY <1>0 DEF ForkDropped, RowType, payment, attempts, chain, world, lifecycle
<1>4. ChainType' /\ LifeType'
  BY <1>0 DEF ForkDropped, ChainType, LifeType, lifecycle
<1> QED BY <1>0, <1>1, <1>2, <1>3, <1>4, TypePartsNext

LEMMA LandsElsewhereTypes ==
  ASSUME TypeOK, InHand, NEW op \in {"cancel", "resume"}, LandsElsewhere(op)
  PROVE  TypeOK'
<1>0. PaymentType /\ RowType /\ ChainType /\ LifeType /\ WorkType
  BY TypeParts
<1>1. WorkType'
  BY <1>0 DEF LandsElsewhere, WorkType
<1>2. PaymentType'
  BY <1>0 DEF LandsElsewhere, Final, PaymentType, payment
<1>3. RowType'
  BY <1>0 DEF LandsElsewhere, RowType, attempts
<1>4. ChainType' /\ LifeType'
  BY <1>0 DEF LandsElsewhere, ChainType, LifeType
<1> QED BY <1>0, <1>1, <1>2, <1>3, <1>4, TypePartsNext

-----------------------------------------------------------------------------
(* What a request has in hand after a step *)

Same(w) ==
  /\ work'[w].a = work[w].a /\ work'[w].own = work[w].own
  /\ work'[w].kind = work[w].kind /\ work'[w].due = work[w].due
Rested(w) == work'[w].pc = "idle" /\ work'[w].own = FALSE
Recovered(w) ==
  /\ Same(w)
  /\ \/ work'[w].pc = "claim" /\ work[w].kind = "resume"
     \/ work'[w].pc = "create" /\ work[w].kind # "resume"

LEMMA GotoView ==
  ASSUME WorkType, NEW w \in Requests, NEW pc, Goto(w, pc)
  PROVE  /\ Same(w) /\ work'[w].pc = pc /\ work'[w].row = work[w].row
         /\ work'[w].sig = work[w].sig
<1>1. work'[w] = [work[w] EXCEPT !.pc = pc] /\ work[w] \in WorkRecords
  BY DEF Goto, Becomes, WorkType
<1> QED BY <1>1 DEF Same, WorkRecords

LEMMA LeavesView ==
  ASSUME WorkType, NEW w \in Requests, Leaves(w)
  PROVE  Rested(w)
<1>1. work'[w] = Idle
  BY DEF Leaves, Becomes, WorkType
<1> QED BY <1>1 DEF Rested, Idle

LEMMA NothingView ==
  ASSUME WorkType, NEW w \in Requests, NothingToRecover(w)
  PROVE  Rested(w) \/ Recovered(w)
<1>1. CASE Leaves(w)
  BY <1>1, LeavesView
<1>2. CASE work[w].kind = "resume" /\ Goto(w, "claim")
  BY <1>2, GotoView, Zenon DEF Recovered
<1>3. CASE work[w].kind # "resume" /\ Goto(w, "create")
  BY <1>3, GotoView, Zenon DEF Recovered
<1> QED BY <1>1, <1>2, <1>3 DEF NothingToRecover

LEMMA GivesUpView ==
  ASSUME WorkType, NEW w \in Requests, NEW a,
         Becomes(w, [work[w] EXCEPT !.pc = "fail", !.a = a, !.linked = FALSE])
  PROVE  /\ work'[w].pc = "fail" /\ work'[w].a = a /\ work'[w].own = work[w].own
         /\ work'[w].kind = work[w].kind /\ work'[w].due = work[w].due
<1>1. /\ work'[w] = [work[w] EXCEPT !.pc = "fail", !.a = a, !.linked = FALSE]
      /\ work[w] \in WorkRecords
  BY DEF Becomes, WorkType
<1> QED BY <1>1 DEF WorkRecords

LEMMA FailsView ==
  ASSUME WorkType, NEW w \in Requests,
         Becomes(w, [work[w] EXCEPT !.pc = "fail", !.linked = FALSE])
  PROVE  Same(w) /\ work'[w].pc = "fail"
<1>1. /\ work'[w] = [work[w] EXCEPT !.pc = "fail", !.linked = FALSE]
      /\ work[w] \in WorkRecords
  BY DEF Becomes, WorkType
<1> QED BY <1>1 DEF WorkRecords, Same

LEMMA LearnsView ==
  ASSUME WorkType, NEW w \in Requests, NEW pc, NEW t,
         Becomes(w, [work[w] EXCEPT !.pc = pc, !.transfer = t])
  PROVE  Same(w) /\ work'[w].pc = pc
<1>1. /\ work'[w] = [work[w] EXCEPT !.pc = pc, !.transfer = t] /\ work[w] \in WorkRecords
  BY DEF Becomes, WorkType
<1> QED BY <1>1 DEF WorkRecords, Same

LEMMA LinksView ==
  ASSUME WorkType, NEW w \in Requests,
         Becomes(w, [work[w] EXCEPT !.pc = "destination", !.linked = TRUE, !.transfer = "processing"])
  PROVE  Same(w) /\ work'[w].pc = "destination"
<1>1. /\ work'[w] = [work[w] EXCEPT !.pc = "destination", !.linked = TRUE, !.transfer = "processing"]
      /\ work[w] \in WorkRecords
  BY DEF Becomes, WorkType
<1> QED BY <1>1 DEF WorkRecords, Same

LEMMA AgainView ==
  ASSUME WorkType, NEW w \in Requests,
         Becomes(w, [work[w] EXCEPT !.pc = "recover", !.again = TRUE])
  PROVE  Same(w) /\ work'[w].pc = "recover"
<1>1. /\ work'[w] = [work[w] EXCEPT !.pc = "recover", !.again = TRUE] /\ work[w] \in WorkRecords
  BY DEF Becomes, WorkType
<1> QED BY <1>1 DEF WorkRecords, Same

LEMMA CreatesView ==
  ASSUME WorkType, NEW w \in Requests, NEW a,
         Becomes(w, [work[w] EXCEPT !.pc = "policy", !.a = a, !.own = TRUE])
  PROVE  /\ work'[w].pc = "policy" /\ work'[w].a = a /\ work'[w].own
         /\ work'[w].kind = work[w].kind /\ work'[w].due = work[w].due
<1>1. /\ work'[w] = [work[w] EXCEPT !.pc = "policy", !.a = a, !.own = TRUE]
      /\ work[w] \in WorkRecords
  BY DEF Becomes, WorkType
<1> QED BY <1>1 DEF WorkRecords

LEMMA RowView ==
  ASSUME WorkType, NEW w \in Requests, NEW pc, NEW n,
         Becomes(w, [work[w] EXCEPT !.pc = pc, !.row = n])
  PROVE  Same(w) /\ work'[w].pc = pc /\ work'[w].row = n
<1>1. /\ work'[w] = [work[w] EXCEPT !.pc = pc, !.row = n] /\ work[w] \in WorkRecords
  BY DEF Becomes, WorkType
<1> QED BY <1>1 DEF WorkRecords, Same

LEMMA ResumesView ==
  ASSUME WorkType, NEW w \in Requests, NEW pc, NEW n, NEW s,
         Becomes(w, [work[w] EXCEPT !.row = n, !.sig = s, !.pc = pc])
  PROVE  Same(w) /\ work'[w].pc = pc /\ work'[w].row = n /\ work'[w].sig = s
<1>1. /\ work'[w] = [work[w] EXCEPT !.row = n, !.sig = s, !.pc = pc] /\ work[w] \in WorkRecords
  BY DEF Becomes, WorkType
<1> QED BY <1>1 DEF WorkRecords, Same

LEMMA SubmitsView ==
  ASSUME WorkType, NEW w \in Requests, NEW pc, NEW s,
         Becomes(w, [work[w] EXCEPT !.pc = pc, !.sig = s])
  PROVE  /\ Same(w) /\ work'[w].pc = pc /\ work'[w].row = work[w].row /\ work'[w].sig = s
<1>1. /\ work'[w] = [work[w] EXCEPT !.pc = pc, !.sig = s] /\ work[w] \in WorkRecords
  BY DEF Becomes, WorkType
<1> QED BY <1>1 DEF WorkRecords, Same

-----------------------------------------------------------------------------
(* What the steps of requests do to attempts *)

(* Attempts are created, started, confirmed and landed for good, and due   *)
(* dates move one period at a time.                                        *)
RowsAdvance ==
  /\ due' = due \/ due' = due + 1
  /\ subDue' = subDue \/ subDue' = subDue + 1
  /\ \A a \in Attempts :
       /\ attempt[a] # "none" => attempt'[a] # "none" /\ adue'[a] = adue[a]
       /\ attempt[a] = "confirmed" => attempt'[a] = "confirmed"
       /\ landed[a] = "ok" => landed'[a] = "ok"
       /\ landed[a] = "err" \/ forked[a] => landed'[a] = "err" \/ forked'[a]
       /\ started[a] => started'[a]

(* The step of a request leaves the attempts of others alone: it starts,   *)
(* sends and fails only what it has in hand, and collects only an attempt  *)
(* that it collected before or creates.                                    *)
Discreet(w) ==
  /\ RowsAdvance /\ landed' = landed /\ forked' = forked
  /\ \A a \in Attempts :
       /\ started'[a] => started[a] \/ (work[w].pc = "start" /\ work[w].a = a)
       /\ sent'[a] => sent[a] \/ (work[w].pc = "send" /\ work[w].a = a)
       /\ age'[a] > 0 => age[a] > 0
       /\ attempt'[a] = "failed" => attempt[a] = "failed" \/ (work[w].pc = "fail" /\ work[w].a = a)
       /\ signed[a] => signed'[a]
  /\ work'[w].pc = "start" => signed'[work'[w].a]
  /\ work'[w].own => (work[w].own /\ work'[w].a = work[w].a) \/ attempt[work'[w].a] = "none"
  /\ work'[w].pc \in MaySend =>
       (work[w].pc \in MaySend /\ work'[w].a = work[w].a) \/ attempt[work'[w].a] = "none"

RowVars == <<attempt, adue, transfer, started, sent, landed, forked, status, subStatus, due, subDue>>

LEMMA RowsStill ==
  ASSUME RowInv, UNCHANGED RowVars
  PROVE  RowInv'
BY DEF RowInv, RowVars, Fresh, Marks, TransferLanded, ConfirmedAttemptLanded, OneActive,
   Together, AdvancedWasCharged

LEMMA StillAdvance ==
  ASSUME UNCHANGED RowVars
  PROVE  RowsAdvance
BY DEF RowVars, RowsAdvance

LEMMA HandsKept ==
  ASSUME TypeOK, InHand, NEW w \in Requests, Moves(w), RowsAdvance, HandOf(w)'
  PROVE  InHand'
<1>1. WorkType
  BY TypeParts
<1> SUFFICES ASSUME NEW v \in Requests, v # w PROVE HandOf(v)'
  BY DEF InHand
<1>2. work'[v] = work[v] /\ HandOf(v)
  BY <1>1 DEF WorkType, Moves, InHand
<1>3. work[v].pc \in {"send", "finalize"} => work[v].pc \in AttemptSteps
  BY DEF AttemptSteps, CollectSteps
<1> QED BY <1>2, <1>3 DEF HandOf, RowsAdvance

(* The attempt of the period that recovery finds. *)
LEMMA FindsView ==
  ASSUME WorkType, NEW w \in Requests, GetCollectionAttemptByDue(w)
  PROVE  \/ Rested(w) \/ Recovered(w)
         \/ \E a \in ActiveAttempts(work[w].due) :
              /\ work'[w].a = a /\ work'[w].own = work[w].own
              /\ work'[w].kind = work[w].kind /\ work'[w].due = work[w].due
              /\ \/ work'[w].pc = "transfer" /\ (work'[w].stale => age[a] = 2)
                 \/ work'[w].pc = "fail" /\ age[a] = 2 /\ transfer[a] = "none"
<1>1. CASE ActiveAttempts(work[w].due) = {}
  BY <1>1, NothingView DEF GetCollectionAttemptByDue
<1>2. CASE ActiveAttempts(work[w].due) # {}
  <2>1. PICK a \in ActiveAttempts(work[w].due) :
          IF transfer[a] # "none"
          THEN Becomes(w, [work[w] EXCEPT !.pc = "transfer", !.a = a, !.linked = TRUE,
                                          !.stale = (age[a] = 2), !.asig = asig[a]])
          ELSE IF age[a] = 2
          THEN Becomes(w, [work[w] EXCEPT !.pc = "fail", !.a = a, !.linked = FALSE])
          ELSE Leaves(w)
    BY <1>2, Zenon DEF GetCollectionAttemptByDue
  <2>2. CASE Becomes(w, [work[w] EXCEPT !.pc = "transfer", !.a = a, !.linked = TRUE,
                                        !.stale = (age[a] = 2), !.asig = asig[a]])
    <3>1. /\ work'[w] = [work[w] EXCEPT !.pc = "transfer", !.a = a, !.linked = TRUE,
                                         !.stale = (age[a] = 2), !.asig = asig[a]]
          /\ work[w] \in WorkRecords
      BY <2>2 DEF Becomes, WorkType
    <3> QED BY <3>1 DEF WorkRecords
  <2>3. CASE /\ transfer[a] = "none" /\ age[a] = 2
             /\ Becomes(w, [work[w] EXCEPT !.pc = "fail", !.a = a, !.linked = FALSE])
    BY <2>3, GivesUpView, Zenon
  <2>4. CASE Leaves(w)
    BY <2>4, LeavesView
  <2> QED BY <2>1, <2>2, <2>3, <2>4, Zenon
<1> QED BY <1>1, <1>2

LEMMA GetCollectionAttemptByDueHands ==
  ASSUME TypeOK, CollectionInv, NEW w \in Requests, GetCollectionAttemptByDue(w), Moves(w)
  PROVE  Discreet(w) /\ HandOf(w)' /\ RowInv'
<1>0. PaymentType /\ RowType /\ ChainType /\ LifeType /\ WorkType
  BY TypeParts
<1>1. RowInv /\ HandOf(w)
  BY DEF CollectionInv, InHand
<1>u. UNCHANGED RowVars
  BY Zenon DEF GetCollectionAttemptByDue, RowVars, payment, attempts, chain, world, lifecycle
<1>x. UNCHANGED attempts
  BY Zenon DEF GetCollectionAttemptByDue
<1>g. \A a \in Attempts : (age'[a] > 0 => age[a] > 0) /\ (signed[a] => signed'[a])
  BY <1>x DEF attempts
<1>v. \/ Rested(w) \/ Recovered(w)
      \/ \E a \in ActiveAttempts(work[w].due) :
           /\ work'[w].a = a /\ work'[w].own = work[w].own
           /\ work'[w].kind = work[w].kind /\ work'[w].due = work[w].due
           /\ work'[w].pc \in {"transfer", "fail"}
  BY <1>0, FindsView, Zenon
<1>p. work[w].pc = "recover"
  BY Zenon DEF GetCollectionAttemptByDue, At
<1>2. Discreet(w)
  <2>1. RowsAdvance
    BY <1>u, StillAdvance
  <2> QED BY <1>1, <1>p, <1>u, <1>g, <1>v, <2>1 DEF Discreet, Same, Rested, Recovered, RowVars,
             HandOf, MaySend, CollectSteps
<1>3. HandOf(w)'
  BY <1>1, <1>p, <1>u, <1>v DEF HandOf, RowVars, Same, Rested, Recovered, ActiveAttempts,
     AttemptSteps, MaySend, CollectSteps, LifecycleSteps
<1>4. RowInv'
  BY <1>1, <1>u, RowsStill
<1> QED BY <1>2, <1>3, <1>4

LEMMA GetTransferByIdHands ==
  ASSUME TypeOK, CollectionInv, NEW w \in Requests, GetTransferById(w), Moves(w)
  PROVE  Discreet(w) /\ HandOf(w)' /\ RowInv'
<1>0. PaymentType /\ RowType /\ ChainType /\ LifeType /\ WorkType
  BY TypeParts
<1>1. RowInv /\ HandOf(w)
  BY DEF CollectionInv, InHand
<1>u. UNCHANGED RowVars
  BY Zenon DEF GetTransferById, RowVars, payment, attempts, chain, world, lifecycle
<1>x. UNCHANGED attempts
  BY Zenon DEF GetTransferById
<1>g. \A a \in Attempts : (age'[a] > 0 => age[a] > 0) /\ (signed[a] => signed'[a])
  BY <1>x DEF attempts
<1>v. Rested(w) \/ (Same(w) /\ work'[w].pc \in {"fail", "prove"})
  BY <1>0, GotoView, LeavesView, LearnsView, Zenon DEF GetTransferById
<1>2. Discreet(w)
  <2>1. RowsAdvance
    BY <1>u, StillAdvance
  <2> QED BY <1>1, <1>u, <1>g, <1>v, <2>1 DEF Discreet, Same, Rested, RowVars, MaySend
<1>3. HandOf(w)'
  BY <1>1, <1>u, <1>v DEF GetTransferById, At, HandOf, RowVars, Same, Rested, AttemptSteps,
     MaySend, CollectSteps, LifecycleSteps
<1>4. RowInv'
  BY <1>1, <1>u, RowsStill
<1> QED BY <1>2, <1>3, <1>4

LEMMA ProveCollectionHands ==
  ASSUME TypeOK, CollectionInv, NEW w \in Requests, ProveCollection(w), Moves(w)
  PROVE  Discreet(w) /\ HandOf(w)' /\ RowInv'
<1>0. PaymentType /\ RowType /\ ChainType /\ LifeType /\ WorkType
  BY TypeParts
<1>1. RowInv /\ HandOf(w)
  BY DEF CollectionInv, InHand
<1>u. UNCHANGED RowVars
  BY Zenon DEF ProveCollection, RowVars, payment, attempts, chain, world, lifecycle
<1>g. \A a \in Attempts : (age'[a] > 0 => age[a] > 0) /\ (signed[a] => signed'[a])
  BY <1>0 DEF ProveCollection, RowType, payment, attempts, chain, world, lifecycle
<1>v. /\ Same(w) /\ work'[w].pc \in {"fail", "finalize", "journal"}
      /\ work'[w].pc = "finalize" => landed[work[w].a] = "ok"
  BY <1>0, GotoView DEF ProveCollection
<1>2. Discreet(w)
  <2>1. RowsAdvance
    BY <1>u, StillAdvance
  <2> QED BY <1>1, <1>u, <1>g, <1>v, <2>1 DEF Discreet, Same, RowVars, MaySend
<1>3. HandOf(w)'
  BY <1>1, <1>u, <1>v DEF ProveCollection, At, HandOf, RowVars, Same, AttemptSteps, MaySend,
     CollectSteps, LifecycleSteps
<1>4. RowInv'
  BY <1>1, <1>u, RowsStill
<1> QED BY <1>2, <1>3, <1>4

LEMMA EnforcePolicyHands ==
  ASSUME TypeOK, CollectionInv, NEW w \in Requests, EnforcePolicy(w), Moves(w)
  PROVE  Discreet(w) /\ HandOf(w)' /\ RowInv'
<1>0. PaymentType /\ RowType /\ ChainType /\ LifeType /\ WorkType
  BY TypeParts
<1>1. RowInv /\ HandOf(w)
  BY DEF CollectionInv, InHand
<1>u. UNCHANGED RowVars
  BY Zenon DEF EnforcePolicy, RowVars, payment, attempts, chain, world, lifecycle
<1>g. \A a \in Attempts : (age'[a] > 0 => age[a] > 0) /\ (signed[a] => signed'[a])
  BY <1>0 DEF EnforcePolicy, RowType, payment, attempts, chain, world, lifecycle
<1>v. Same(w) /\ work'[w].pc \in {"link", "fail"}
  BY <1>0, GotoView, FailsView, Zenon DEF EnforcePolicy
<1>2. Discreet(w)
  <2>1. RowsAdvance
    BY <1>u, StillAdvance
  <2> QED BY <1>1, <1>u, <1>g, <1>v, <2>1 DEF EnforcePolicy, At, Discreet, Same, RowVars, MaySend
<1>3. HandOf(w)'
  BY <1>1, <1>u, <1>v DEF EnforcePolicy, At, HandOf, RowVars, Same, AttemptSteps, MaySend,
     CollectSteps, LifecycleSteps
<1>4. RowInv'
  BY <1>1, <1>u, RowsStill
<1> QED BY <1>2, <1>3, <1>4

LEMMA UpdateDestinationTokenAccountHands ==
  ASSUME TypeOK, CollectionInv, NEW w \in Requests, UpdateDestinationTokenAccount(w), Moves(w)
  PROVE  Discreet(w) /\ HandOf(w)' /\ RowInv'
<1>0. PaymentType /\ RowType /\ ChainType /\ LifeType /\ WorkType
  BY TypeParts
<1>1. RowInv /\ HandOf(w)
  BY DEF CollectionInv, InHand
<1>u. UNCHANGED RowVars
  BY Zenon DEF UpdateDestinationTokenAccount, RowVars, payment, attempts, chain, world, lifecycle
<1>g. \A a \in Attempts : (age'[a] > 0 => age[a] > 0) /\ (signed[a] => signed'[a])
  BY <1>0 DEF UpdateDestinationTokenAccount, RowType, payment, attempts, chain, world, lifecycle
<1>v. Same(w) /\ work'[w].pc \in {"sign", "fail"}
  BY <1>0, GotoView DEF UpdateDestinationTokenAccount
<1>2. Discreet(w)
  <2>1. RowsAdvance
    BY <1>u, StillAdvance
  <2> QED BY <1>1, <1>u, <1>g, <1>v, <2>1 DEF UpdateDestinationTokenAccount, At, Discreet, Same,
             RowVars, HandOf, MaySend
<1>3. HandOf(w)'
  BY <1>1, <1>u, <1>v DEF UpdateDestinationTokenAccount, At, HandOf, RowVars, Same, AttemptSteps,
     MaySend, CollectSteps, LifecycleSteps
<1>4. RowInv'
  BY <1>1, <1>u, RowsStill
<1> QED BY <1>2, <1>3, <1>4

LEMMA PersistSignedHands ==
  ASSUME TypeOK, CollectionInv, NEW w \in Requests, PersistSigned(w), Moves(w)
  PROVE  Discreet(w) /\ HandOf(w)' /\ RowInv'
<1>0. PaymentType /\ RowType /\ ChainType /\ LifeType /\ WorkType
  BY TypeParts
<1>1. RowInv /\ HandOf(w)
  BY DEF CollectionInv, InHand
<1>u. UNCHANGED RowVars
  BY Zenon DEF PersistSigned, RowVars, payment, attempts, chain, world, lifecycle
<1>a. work[w].a \in Attempts
  BY <1>1 DEF PersistSigned, HandOf, AttemptSteps, CollectSteps, At
<1>g. \A a \in Attempts : (age'[a] > 0 => age[a] > 0) /\ (signed[a] => signed'[a])
  BY <1>0, <1>a DEF PersistSigned, RowType, payment, attempts, chain, world, lifecycle
<1>v. /\ Same(w) /\ work'[w].pc \in {"start", "fail"}
      /\ work'[w].pc = "start" => signed'[work'[w].a]
  <2>1. Same(w) /\ work'[w].pc \in {"start", "fail"}
    BY <1>0, GotoView DEF PersistSigned
  <2>2. work'[w].pc = "start" => signed' = [signed EXCEPT ![work[w].a] = TRUE]
    BY <1>0, GotoView DEF PersistSigned
  <2> QED BY <1>0, <1>a, <2>1, <2>2 DEF RowType, Same
<1>2. Discreet(w)
  <2>1. RowsAdvance
    BY <1>u, StillAdvance
  <2> QED BY <1>1, <1>u, <1>g, <1>v, <2>1 DEF PersistSigned, At, Discreet, Same, RowVars, MaySend
<1>3. HandOf(w)'
  BY <1>1, <1>u, <1>v DEF PersistSigned, At, HandOf, Same, AttemptSteps, MaySend, CollectSteps,
     LifecycleSteps
<1>4. RowInv'
  BY <1>1, <1>u, RowsStill
<1> QED BY <1>2, <1>3, <1>4

LEMMA RecordSignatureHands ==
  ASSUME TypeOK, CollectionInv, NEW w \in Requests, RecordSignature(w), Moves(w)
  PROVE  Discreet(w) /\ HandOf(w)' /\ RowInv'
<1>0. PaymentType /\ RowType /\ ChainType /\ LifeType /\ WorkType
  BY TypeParts
<1>1. RowInv /\ HandOf(w)
  BY DEF CollectionInv, InHand
<1>u. UNCHANGED RowVars
  BY Zenon DEF RecordSignature, RowVars, payment, attempts, chain, world, lifecycle
<1>a. work[w].a \in Attempts
  BY <1>1 DEF RecordSignature, HandOf, AttemptSteps, CollectSteps, At
<1>g. \A a \in Attempts : (age'[a] > 0 => age[a] > 0) /\ (signed[a] => signed'[a])
  <2>0. signed' = signed
    BY DEF RecordSignature
  <2>1. CASE age' = age
    BY <2>0, <2>1
  <2>2. CASE age' = [age EXCEPT ![work[w].a] = 0]
    BY <1>0, <1>a, <2>0, <2>2 DEF RowType
  <2> QED BY <2>1, <2>2 DEF RecordSignature
<1>v. Same(w) /\ work'[w].pc \in {"confirm", "journal"}
  BY <1>0, GotoView, LearnsView, Zenon DEF RecordSignature
<1>2. Discreet(w)
  <2>1. RowsAdvance
    BY <1>u, StillAdvance
  <2> QED BY <1>1, <1>u, <1>g, <1>v, <2>1 DEF Discreet, Same, RowVars, MaySend
<1>3. HandOf(w)'
  BY <1>1, <1>u, <1>v DEF RecordSignature, At, HandOf, Same, AttemptSteps, MaySend, CollectSteps,
     LifecycleSteps
<1>4. RowInv'
  BY <1>1, <1>u, RowsStill
<1> QED BY <1>2, <1>3, <1>4

LEMMA ConfirmCollectionHands ==
  ASSUME TypeOK, CollectionInv, NEW w \in Requests, ConfirmCollection(w), Moves(w)
  PROVE  Discreet(w) /\ HandOf(w)' /\ RowInv'
<1>0. PaymentType /\ RowType /\ ChainType /\ LifeType /\ WorkType
  BY TypeParts
<1>1. RowInv /\ HandOf(w)
  BY DEF CollectionInv, InHand
<1>u. UNCHANGED RowVars
  BY Zenon DEF ConfirmCollection, RowVars, payment, attempts, chain, world, lifecycle
<1>g. \A a \in Attempts : (age'[a] > 0 => age[a] > 0) /\ (signed[a] => signed'[a])
  BY <1>0 DEF ConfirmCollection, RowType, payment, attempts, chain, world, lifecycle
<1>v. /\ Same(w) /\ work'[w].pc \in {"fail", "finalize", "journal"}
      /\ work'[w].pc = "finalize" => landed[work[w].a] = "ok"
  BY <1>0, GotoView DEF ConfirmCollection
<1>2. Discreet(w)
  <2>1. RowsAdvance
    BY <1>u, StillAdvance
  <2> QED BY <1>1, <1>u, <1>g, <1>v, <2>1 DEF Discreet, Same, RowVars, MaySend
<1>3. HandOf(w)'
  BY <1>1, <1>u, <1>v DEF ConfirmCollection, At, HandOf, RowVars, Same, AttemptSteps, MaySend,
     CollectSteps, LifecycleSteps
<1>4. RowInv'
  BY <1>1, <1>u, RowsStill
<1> QED BY <1>2, <1>3, <1>4

LEMMA JournalSignatureHands ==
  ASSUME TypeOK, CollectionInv, NEW w \in Requests, JournalSignature(w), Moves(w)
  PROVE  Discreet(w) /\ HandOf(w)' /\ RowInv'
<1>0. PaymentType /\ RowType /\ ChainType /\ LifeType /\ WorkType
  BY TypeParts
<1>1. RowInv /\ HandOf(w)
  BY DEF CollectionInv, InHand
<1>u. UNCHANGED RowVars
  BY Zenon DEF JournalSignature, RowVars, payment, attempts, chain, world, lifecycle
<1>a. work[w].a \in Attempts
  BY <1>1 DEF JournalSignature, HandOf, AttemptSteps, CollectSteps, At
<1>g. \A a \in Attempts : (age'[a] > 0 => age[a] > 0) /\ (signed[a] => signed'[a])
  <2>0. signed' = signed
    BY DEF JournalSignature
  <2>1. CASE age' = age
    BY <2>0, <2>1
  <2>2. CASE age' = [age EXCEPT ![work[w].a] = 0]
    BY <1>0, <1>a, <2>0, <2>2 DEF RowType
  <2> QED BY <2>1, <2>2 DEF JournalSignature
<1>v. Rested(w)
  BY <1>0, LeavesView DEF JournalSignature
<1>2. Discreet(w)
  <2>1. RowsAdvance
    BY <1>u, StillAdvance
  <2> QED BY <1>1, <1>u, <1>g, <1>v, <2>1 DEF Discreet, Rested, RowVars, MaySend
<1>3. HandOf(w)'
  BY <1>1, <1>u, <1>v DEF HandOf, Rested, AttemptSteps, MaySend, CollectSteps, LifecycleSteps
<1>4. RowInv'
  BY <1>1, <1>u, RowsStill
<1> QED BY <1>2, <1>3, <1>4

LEMMA FailCollectionHands ==
  ASSUME TypeOK, CollectionInv, NEW w \in Requests, FailCollection(w), Moves(w)
  PROVE  Discreet(w) /\ HandOf(w)' /\ RowInv'
<1>0. PaymentType /\ RowType /\ ChainType /\ LifeType /\ WorkType
  BY TypeParts
<1>1. RowInv /\ HandOf(w)
  BY DEF CollectionInv, InHand
<1>p. work[w].pc = "fail"
  BY Zenon DEF FailCollection, At
<1>a. work[w].a \in Attempts /\ attempt[work[w].a] # "none" /\ adue[work[w].a] = work[w].due
  BY <1>1, <1>p DEF HandOf, AttemptSteps, CollectSteps
<1>e. /\ UNCHANGED <<adue, signed, started, sent, landed, forked, status, subStatus, due, subDue>>
      /\ \/ UNCHANGED <<attempt, transfer, age>>
         \/ \E verdict \in {"failed", "confirmed"} :
              /\ attempt[work[w].a] \in {"processing", verdict}
              /\ attempt' = [attempt EXCEPT ![work[w].a] = verdict]
              /\ age' = [age EXCEPT ![work[w].a] = 0]
              /\ \/ verdict = "confirmed" /\ transfer[work[w].a] = "confirmed" /\ transfer' = transfer
                 \/ verdict = "failed" /\ transfer' = transfer
                 \/ verdict = "failed" /\ transfer' = [transfer EXCEPT ![work[w].a] = "failed"]
  <2>1. UNCHANGED <<adue, signed, started, sent, landed, forked, status, subStatus, due, subDue>>
    BY Zenon DEF FailCollection, payment, world, chain
  <2>2. CASE UNCHANGED <<attempt, transfer, asig, age>>
    BY <2>1, <2>2
  <2>3. CASE MarkFailedAtomically(work[w].a, work[w].linked)
    <3>1. CASE work[w].linked /\ transfer[work[w].a] = "confirmed"
      BY <2>1, <2>3, <3>1, Zenon DEF MarkFailedAtomically
    <3>2. CASE ~(work[w].linked /\ transfer[work[w].a] = "confirmed")
      BY <2>1, <2>3, <3>2 DEF MarkFailedAtomically
    <3> QED BY <3>1, <3>2
  <2> QED BY <2>1, <2>2, <2>3 DEF FailCollection
<1>v. Rested(w) \/ (~work[w].own /\ Recovered(w))
  BY <1>0, LeavesView, NothingView DEF FailCollection
<1>2. Discreet(w)
  BY <1>0, <1>1, <1>p, <1>a, <1>e, <1>v DEF Discreet, RowsAdvance, Same, Rested, Recovered,
     RowType, MaySend
<1>3. HandOf(w)'
  BY <1>0, <1>1, <1>p, <1>a, <1>e, <1>v DEF HandOf, Same, Rested, Recovered, AttemptSteps,
     MaySend, CollectSteps, LifecycleSteps
<1>4. RowInv'
  <2>1. Fresh'
    BY <1>0, <1>1, <1>a, <1>e DEF RowInv, Fresh, TransferLanded, RowType, ChainType
  <2>2. Marks'
    BY <1>0, <1>1, <1>e DEF RowInv, Marks, RowType, ChainType
  <2>3. TransferLanded'
    BY <1>0, <1>1, <1>a, <1>e DEF RowInv, TransferLanded, TransferLanded, RowType, ChainType
  <2>4. ConfirmedAttemptLanded'
    BY <1>0, <1>1, <1>a, <1>e DEF RowInv, ConfirmedAttemptLanded, TransferLanded, RowType, ChainType
  <2>5. OneActive'
    BY <1>0, <1>1, <1>a, <1>e DEF RowInv, OneActive, TransferLanded, RowType, ChainType
  <2>6. Together'
    BY <1>0, <1>1, <1>e DEF RowInv, Together, RowType, ChainType
  <2>7. AdvancedWasCharged'
    BY <1>0, <1>1, <1>a, <1>e DEF RowInv, AdvancedWasCharged, TransferLanded, RowType, ChainType
  <2> QED BY <2>1, <2>2, <2>3, <2>4, <2>5, <2>6, <2>7 DEF RowInv
<1> QED BY <1>2, <1>3, <1>4

LEMMA CreateCollectionAttemptHands ==
  ASSUME TypeOK, CollectionInv, NEW w \in Requests, CreateCollectionAttempt(w), Moves(w)
  PROVE  Discreet(w) /\ HandOf(w)' /\ RowInv'
<1>0. PaymentType /\ RowType /\ ChainType /\ LifeType /\ WorkType
  BY TypeParts
<1>1. RowInv /\ HandOf(w)
  BY DEF CollectionInv, InHand
<1>p. work[w].pc = "create"
  BY Zenon DEF CreateCollectionAttempt, At
<1>e. /\ UNCHANGED <<transfer, signed, started, sent, landed, forked, status, subStatus, due, subDue>>
      /\ \/ UNCHANGED <<attempt, adue, age>> /\ (Rested(w) \/ (Same(w) /\ work'[w].pc = "recover"))
         \/ \E a \in Attempts :
              /\ ActiveAttempts(work[w].due) = {} /\ attempt[a] = "none"
              /\ attempt' = [attempt EXCEPT ![a] = "processing"]
              /\ adue' = [adue EXCEPT ![a] = work[w].due] /\ age' = [age EXCEPT ![a] = 0]
              /\ work'[w].pc = "policy" /\ work'[w].a = a /\ work'[w].own
              /\ work'[w].kind = work[w].kind /\ work'[w].due = work[w].due
  <2>1. UNCHANGED <<transfer, signed, started, sent, landed, forked, status, subStatus, due, subDue>>
    BY Zenon DEF CreateCollectionAttempt, payment, world, chain
  <2>2. CASE Leaves(w) /\ UNCHANGED <<attempt, adue, age>>
    BY <1>0, <2>1, <2>2, LeavesView
  <2>3. CASE /\ Becomes(w, [work[w] EXCEPT !.pc = "recover", !.again = TRUE])
             /\ UNCHANGED <<attempt, adue, age>>
    BY <1>0, <2>1, <2>3, AgainView, Zenon
  <2>4. ASSUME NEW a \in Attempts, ActiveAttempts(work[w].due) = {}, attempt[a] = "none",
               attempt' = [attempt EXCEPT ![a] = "processing"],
               adue' = [adue EXCEPT ![a] = work[w].due], age' = [age EXCEPT ![a] = 0],
               Becomes(w, [work[w] EXCEPT !.pc = "policy", !.a = a, !.own = TRUE])
        PROVE  \E b \in Attempts :
              /\ ActiveAttempts(work[w].due) = {} /\ attempt[b] = "none"
              /\ attempt' = [attempt EXCEPT ![b] = "processing"]
              /\ adue' = [adue EXCEPT ![b] = work[w].due] /\ age' = [age EXCEPT ![b] = 0]
              /\ work'[w].pc = "policy" /\ work'[w].a = b /\ work'[w].own
              /\ work'[w].kind = work[w].kind /\ work'[w].due = work[w].due
    BY <1>0, <2>4, CreatesView, Zenon
  <2> QED BY <2>1, <2>2, <2>3, <2>4, Zenon DEF CreateCollectionAttempt
<1>v. work[w].kind # "resume" /\ ~work[w].own
  BY <1>1, <1>p DEF HandOf, CollectSteps
<1>2. Discreet(w)
  BY <1>0, <1>1, <1>p, <1>e, <1>v DEF Discreet, RowsAdvance, Same, Rested, RowType, MaySend
<1>3. HandOf(w)'
  BY <1>0, <1>1, <1>p, <1>e, <1>v DEF HandOf, Same, Rested, RowType, AttemptSteps, MaySend,
     CollectSteps, LifecycleSteps
<1>4. RowInv'
  <2>1. Fresh'
    BY <1>0, <1>1, <1>e DEF RowInv, Fresh, RowType, ChainType
  <2>2. Marks'
    BY <1>0, <1>1, <1>e DEF RowInv, Marks, RowType, ChainType
  <2>3. TransferLanded'
    BY <1>0, <1>1, <1>e DEF RowInv, TransferLanded, RowType, ChainType
  <2>4. ConfirmedAttemptLanded'
    BY <1>0, <1>1, <1>e DEF RowInv, ConfirmedAttemptLanded, RowType, ChainType
  <2>5. OneActive'
    <3>1. CASE attempt' = attempt /\ adue' = adue
      BY <1>1, <3>1 DEF RowInv, OneActive
    <3>2. ASSUME NEW a \in Attempts, ActiveAttempts(work[w].due) = {},
                 attempt' = [attempt EXCEPT ![a] = "processing"],
                 adue' = [adue EXCEPT ![a] = work[w].due]
          PROVE  OneActive'
      BY <1>0, <1>1, <3>2 DEF RowInv, OneActive, ActiveAttempts, RowType
    <3> QED BY <1>e, <3>1, <3>2, Zenon
  <2>6. Together'
    BY <1>0, <1>1, <1>e DEF RowInv, Together, RowType, ChainType
  <2>7. AdvancedWasCharged'
    <3>1. \A a \in Attempts : adue[a] # 0 => adue'[a] = adue[a]
      BY <1>0, <1>1, <1>e DEF RowInv, Fresh, RowType
    <3>2. subDue' >= due' /\ due' = due /\ landed' = landed
      BY <1>1, <1>e DEF RowInv, AdvancedWasCharged
    <3> SUFFICES ASSUME NEW d \in 1..Periods, d < due
                 PROVE  \E a \in Attempts : adue'[a] = d /\ landed[a] = "ok"
      BY <3>2 DEF AdvancedWasCharged
    <3>3. PICK a \in Attempts : adue[a] = d /\ landed[a] = "ok"
      BY <1>1 DEF RowInv, AdvancedWasCharged
    <3> QED BY <3>1, <3>3
  <2> QED BY <2>1, <2>2, <2>3, <2>4, <2>5, <2>6, <2>7 DEF RowInv
<1> QED BY <1>2, <1>3, <1>4

LEMMA LinkTransferHands ==
  ASSUME TypeOK, CollectionInv, NEW w \in Requests, LinkTransfer(w), Moves(w)
  PROVE  Discreet(w) /\ HandOf(w)' /\ RowInv'
<1>0. PaymentType /\ RowType /\ ChainType /\ LifeType /\ WorkType
  BY TypeParts
<1>1. RowInv /\ HandOf(w)
  BY DEF CollectionInv, InHand
<1>p. work[w].pc = "link"
  BY Zenon DEF LinkTransfer, At
<1>a. work[w].a \in Attempts /\ attempt[work[w].a] # "none" /\ adue[work[w].a] = work[w].due
  BY <1>1, <1>p DEF HandOf, AttemptSteps, CollectSteps
<1>e. /\ UNCHANGED <<attempt, adue, signed, started, sent, landed, forked, status, subStatus, due, subDue>>
      /\ \/ UNCHANGED <<transfer, age>>
         \/ /\ attempt[work[w].a] = "processing" /\ age' = [age EXCEPT ![work[w].a] = 0]
            /\ transfer' = [transfer EXCEPT ![work[w].a] = "processing"]
  BY Zenon DEF LinkTransfer, payment, world, chain
<1>v. Same(w) /\ work'[w].pc \in {"destination", "fail"}
  BY <1>0, FailsView, LinksView, Zenon DEF LinkTransfer
<1>2. Discreet(w)
  BY <1>0, <1>1, <1>p, <1>a, <1>e, <1>v DEF Discreet, RowsAdvance, Same, RowType, MaySend
<1>3. HandOf(w)'
  BY <1>0, <1>1, <1>p, <1>a, <1>e, <1>v DEF HandOf, Same, MaySend, CollectSteps, LifecycleSteps
<1>4. RowInv'
  <2>1. Fresh'
    BY <1>0, <1>1, <1>e DEF RowInv, Fresh, RowType, ChainType
  <2>2. Marks'
    BY <1>0, <1>1, <1>e DEF RowInv, Marks, RowType, ChainType
  <2>3. TransferLanded'
    BY <1>0, <1>1, <1>e DEF RowInv, TransferLanded, RowType, ChainType
  <2>4. ConfirmedAttemptLanded'
    BY <1>0, <1>1, <1>e DEF RowInv, ConfirmedAttemptLanded, RowType, ChainType
  <2>5. OneActive'
    BY <1>0, <1>1, <1>e DEF RowInv, OneActive, RowType, ChainType
  <2>6. Together'
    BY <1>0, <1>1, <1>e DEF RowInv, Together, RowType, ChainType
  <2>7. AdvancedWasCharged'
    BY <1>0, <1>1, <1>e DEF RowInv, AdvancedWasCharged, RowType, ChainType
  <2> QED BY <2>1, <2>2, <2>3, <2>4, <2>5, <2>6, <2>7 DEF RowInv
<1> QED BY <1>2, <1>3, <1>4

LEMMA MarkStartedHands ==
  ASSUME TypeOK, CollectionInv, NEW w \in Requests, MarkStarted(w), Moves(w)
  PROVE  Discreet(w) /\ HandOf(w)' /\ RowInv'
<1>0. PaymentType /\ RowType /\ ChainType /\ LifeType /\ WorkType
  BY TypeParts
<1>1. RowInv /\ HandOf(w)
  BY DEF CollectionInv, InHand
<1>p. work[w].pc = "start"
  BY Zenon DEF MarkStarted, At
<1>a. work[w].a \in Attempts /\ attempt[work[w].a] # "none" /\ adue[work[w].a] = work[w].due
  BY <1>1, <1>p DEF HandOf, AttemptSteps, CollectSteps
<1>e. /\ UNCHANGED <<attempt, adue, age, transfer, signed, sent, landed, forked, status, subStatus, due, subDue>>
      /\ \/ started' = started
         \/ transfer[work[w].a] = "processing" /\ started' = [started EXCEPT ![work[w].a] = TRUE]
  BY Zenon DEF MarkStarted, payment, world, chain
<1>v. \/ Same(w) /\ work'[w].pc \in {"journal", "fail"}
      \/ Same(w) /\ work'[w].pc = "send" /\ started' = [started EXCEPT ![work[w].a] = TRUE]
  BY <1>0, GotoView DEF MarkStarted
<1>2. Discreet(w)
  BY <1>0, <1>1, <1>p, <1>a, <1>e, <1>v DEF Discreet, RowsAdvance, Same, RowType, MaySend
<1>3. HandOf(w)'
  BY <1>0, <1>1, <1>p, <1>a, <1>e, <1>v DEF HandOf, Same, RowType, MaySend, CollectSteps,
     LifecycleSteps
<1>4. RowInv'
  <2>1. Fresh'
    BY <1>0, <1>1, <1>a, <1>e DEF RowInv, Fresh, RowType
  <2>2. Marks'
    BY <1>0, <1>1, <1>e DEF RowInv, Marks, RowType, ChainType
  <2>3. TransferLanded'
    BY <1>0, <1>1, <1>e DEF RowInv, TransferLanded, RowType, ChainType
  <2>4. ConfirmedAttemptLanded'
    BY <1>0, <1>1, <1>e DEF RowInv, ConfirmedAttemptLanded, RowType, ChainType
  <2>5. OneActive'
    BY <1>0, <1>1, <1>e DEF RowInv, OneActive, RowType, ChainType
  <2>6. Together'
    BY <1>0, <1>1, <1>e DEF RowInv, Together, RowType, ChainType
  <2>7. AdvancedWasCharged'
    BY <1>0, <1>1, <1>e DEF RowInv, AdvancedWasCharged, RowType, ChainType
  <2> QED BY <2>1, <2>2, <2>3, <2>4, <2>5, <2>6, <2>7 DEF RowInv
<1> QED BY <1>2, <1>3, <1>4

LEMMA SendTransactionHands ==
  ASSUME TypeOK, CollectionInv, NEW w \in Requests, SendTransaction(w), Moves(w)
  PROVE  Discreet(w) /\ HandOf(w)' /\ RowInv'
<1>0. PaymentType /\ RowType /\ ChainType /\ LifeType /\ WorkType
  BY TypeParts
<1>1. RowInv /\ HandOf(w)
  BY DEF CollectionInv, InHand
<1>p. work[w].pc = "send"
  BY Zenon DEF SendTransaction, At
<1>a. work[w].a \in Attempts /\ attempt[work[w].a] # "none" /\ adue[work[w].a] = work[w].due
  BY <1>1, <1>p DEF HandOf, AttemptSteps, CollectSteps
<1>e. /\ UNCHANGED <<attempt, adue, age, transfer, signed, started, landed, forked, status, subStatus, due, subDue>>
      /\ started[work[w].a]
      /\ sent' = sent \/ sent' = [sent EXCEPT ![work[w].a] = TRUE]
  <2>1. started[work[w].a]
    BY <1>1, <1>p DEF HandOf
  <2> QED BY <2>1, Zenon DEF SendTransaction, payment, attempts
<1>v. Same(w) /\ work'[w].pc \in {"journal", "fail", "record"}
  BY <1>0, GotoView DEF SendTransaction
<1>2. Discreet(w)
  BY <1>0, <1>1, <1>p, <1>a, <1>e, <1>v DEF Discreet, RowsAdvance, Same, ChainType, MaySend
<1>3. HandOf(w)'
  BY <1>0, <1>1, <1>p, <1>a, <1>e, <1>v DEF HandOf, Same, MaySend, CollectSteps, LifecycleSteps
<1>4. RowInv'
  <2>1. Fresh'
    BY <1>0, <1>1, <1>a, <1>e DEF RowInv, Fresh, ChainType
  <2>2. Marks'
    BY <1>0, <1>1, <1>e DEF RowInv, Marks, RowType, ChainType
  <2>3. TransferLanded'
    BY <1>0, <1>1, <1>e DEF RowInv, TransferLanded, RowType, ChainType
  <2>4. ConfirmedAttemptLanded'
    BY <1>0, <1>1, <1>e DEF RowInv, ConfirmedAttemptLanded, RowType, ChainType
  <2>5. OneActive'
    BY <1>0, <1>1, <1>e DEF RowInv, OneActive, RowType, ChainType
  <2>6. Together'
    BY <1>0, <1>1, <1>e DEF RowInv, Together, RowType, ChainType
  <2>7. AdvancedWasCharged'
    BY <1>0, <1>1, <1>e DEF RowInv, AdvancedWasCharged, RowType, ChainType
  <2> QED BY <2>1, <2>2, <2>3, <2>4, <2>5, <2>6, <2>7 DEF RowInv
<1> QED BY <1>2, <1>3, <1>4

LEMMA FinalizeCollectionHands ==
  ASSUME TypeOK, CollectionInv, NEW w \in Requests, FinalizeCollection(w), Moves(w)
  PROVE  Discreet(w) /\ HandOf(w)' /\ RowInv'
<1>0. PaymentType /\ RowType /\ ChainType /\ LifeType /\ WorkType
  BY TypeParts
<1>1. RowInv /\ HandOf(w)
  BY DEF CollectionInv, InHand
<1>p. work[w].pc = "finalize"
  BY Zenon DEF FinalizeCollection, At
<1>a. work[w].a \in Attempts /\ attempt[work[w].a] # "none" /\ adue[work[w].a] = work[w].due
  BY <1>1, <1>p DEF HandOf, AttemptSteps, CollectSteps
<1>e. /\ UNCHANGED <<adue, signed, started, sent, landed, forked, status, subStatus>>
      /\ landed[work[w].a] = "ok" /\ work[w].due \in 0..Periods
      /\ \/ UNCHANGED <<attempt, transfer, age, due, subDue>>
         \/ /\ \E s \in {"confirmed", "finalized"} : transfer' = [transfer EXCEPT ![work[w].a] = s]
            /\ attempt[work[w].a] \in {"processing", "confirmed"}
            /\ attempt' = [attempt EXCEPT ![work[w].a] = "confirmed"]
            /\ age' = [age EXCEPT ![work[w].a] = 0]
            /\ due' = IF status = "active" /\ due = work[w].due THEN work[w].due + 1 ELSE due
            /\ subDue' = IF subStatus = "active" /\ subDue = work[w].due
                         THEN work[w].due + 1 ELSE subDue
  <2>1. UNCHANGED <<adue, signed, started, sent, landed, forked, status, subStatus>>
    BY Zenon DEF FinalizeCollection, world, chain
  <2>2. landed[work[w].a] = "ok" /\ work[w].due \in 0..Periods
    BY <1>0, <1>1, <1>a, <1>p DEF HandOf, RowType
  <2> QED BY <2>1, <2>2, Zenon DEF FinalizeCollection
<1>v. \/ Rested(w)
      \/ Same(w) /\ work'[w].pc \in {"journal"}
      \/ Same(w) /\ work'[w].pc = "claim" /\ work[w].kind = "resume"
  <2>1. \/ Leaves(w) \/ Goto(w, "journal")
        \/ work[w].kind = "resume" /\ Goto(w, "claim")
    BY Zenon DEF FinalizeCollection
  <2> QED BY <1>0, <2>1, GotoView, LeavesView
<1>2. Discreet(w)
  BY <1>0, <1>1, <1>p, <1>a, <1>e, <1>v DEF Discreet, RowsAdvance, Same, Rested, RowType, MaySend
<1>3. HandOf(w)'
  BY <1>0, <1>1, <1>p, <1>a, <1>e, <1>v DEF HandOf, Same, Rested, RowType, AttemptSteps, MaySend,
     CollectSteps, LifecycleSteps
<1>4. RowInv'
  <2>1. Fresh'
    BY <1>0, <1>1, <1>e DEF RowInv, Fresh, RowType, ChainType
  <2>2. Marks'
    BY <1>0, <1>1, <1>e DEF RowInv, Marks, RowType, ChainType
  <2>3. TransferLanded'
    BY <1>0, <1>1, <1>e DEF RowInv, TransferLanded, RowType, ChainType
  <2>4. ConfirmedAttemptLanded'
    BY <1>0, <1>1, <1>e DEF RowInv, ConfirmedAttemptLanded, RowType, ChainType
  <2>5. OneActive'
    BY <1>0, <1>1, <1>e DEF RowInv, OneActive, RowType, ChainType
  <2>6. Together'
    BY <1>0, <1>1, <1>e DEF RowInv, Together, RowType, ChainType
  <2>7. AdvancedWasCharged'
    <3>1. CASE due' = due
      <4>1. subDue' >= subDue
        BY <1>0, <1>e DEF PaymentType
      <4>2. subDue' >= due'
        BY <1>0, <1>1, <1>e, <3>1, <4>1 DEF RowInv, AdvancedWasCharged, PaymentType
      <4> QED BY <1>1, <1>e, <3>1, <4>2 DEF RowInv, AdvancedWasCharged
    <3>2. CASE due' # due
      <4>1. status = "active" /\ subStatus = "active" /\ due = work[w].due /\ due' = due + 1
        BY <1>1, <1>e, <3>2 DEF RowInv, Together
      <4>2. subDue' >= due'
        BY <1>0, <1>1, <1>e, <3>2, <4>1 DEF RowInv, AdvancedWasCharged, PaymentType
      <4>3. ASSUME NEW d \in 1..Periods, d < due'
            PROVE  \E a \in Attempts : adue[a] = d /\ landed[a] = "ok"
        <5>1. CASE d = due
          BY <1>a, <1>e, <4>1, <5>1
        <5>2. CASE d # due
          BY <1>0, <1>1, <4>1, <4>3, <5>2 DEF RowInv, AdvancedWasCharged, PaymentType
        <5> QED BY <5>1, <5>2
      <4> QED BY <1>e, <4>2, <4>3 DEF AdvancedWasCharged
    <3> QED BY <3>1, <3>2
  <2> QED BY <2>1, <2>2, <2>3, <2>4, <2>5, <2>6, <2>7 DEF RowInv
<1> QED BY <1>2, <1>3, <1>4

(* Steps that leave attempts alone *)

Aside(w) ==
  /\ UNCHANGED <<attempt, adue, transfer, signed, started, sent, landed, forked, age, due, subDue>>
  /\ work'[w].own = FALSE /\ work'[w].pc \notin AttemptSteps \cup {"create"}
  /\ work'[w].pc \in LifecycleSteps => work'[w].kind # "collect"

LEMMA AsideHands ==
  ASSUME TypeOK, CollectionInv, NEW w \in Requests, Moves(w), Aside(w), Together'
  PROVE  Discreet(w) /\ HandOf(w)' /\ RowInv'
<1>1. RowInv
  BY DEF CollectionInv
<1>2. Discreet(w)
  BY DEF Aside, Discreet, RowsAdvance, AttemptSteps, CollectSteps, MaySend
<1>3. HandOf(w)'
  BY DEF Aside, HandOf, AttemptSteps, CollectSteps, MaySend
<1>4. RowInv'
  BY <1>1 DEF Aside, RowInv, Fresh, Marks, TransferLanded, ConfirmedAttemptLanded, OneActive,
     AdvancedWasCharged
<1> QED BY <1>2, <1>3, <1>4

LEMMA ReadsAside ==
  ASSUME TypeOK, NEW w \in Requests, Reads(w), UNCHANGED <<payment, attempts, world, lifecycle>>
  PROVE  Aside(w) /\ work'[w].pc = "recover"
<1>1. WorkType
  BY TypeParts
<1>2. work'[w] = [Idle EXCEPT !.pc = "recover", !.due = due,
                              !.active = (status = "active" /\ subStatus = "active")]
  BY <1>1 DEF Reads, Becomes, WorkType
<1>3. work'[w].pc = "recover" /\ work'[w].own = FALSE
  BY <1>2 DEF Idle
<1> QED BY <1>3 DEF Aside, AttemptSteps, CollectSteps, LifecycleSteps, payment, attempts, world,
           chain

LEMMA RequestLifecycleAside ==
  ASSUME TypeOK, NEW w \in Requests, NEW op \in scenario.operations, RequestLifecycle(w, op)
  PROVE  Aside(w) /\ work'[w].pc \in {"recover", "claim"}
<1>1. PaymentType /\ WorkType
  BY TypeParts
<1>2. op # "collect"
  BY <1>1, RecurringAssumption DEF PaymentType
<1>3. work'[w] = [Idle EXCEPT !.kind = op, !.due = due,
                   !.pc = IF op = "resume" /\ due <= Periods THEN "recover" ELSE "claim"]
  BY <1>1 DEF RequestLifecycle, Becomes, WorkType
<1>4. work'[w].pc \in {"recover", "claim"} /\ work'[w].own = FALSE /\ work'[w].kind = op
  BY <1>3 DEF Idle
<1> QED BY <1>2, <1>4 DEF Aside, AttemptSteps, CollectSteps, payment, attempts, world, chain,
           RequestLifecycle

LEMMA ClaimLifecycleAside ==
  ASSUME TypeOK, InHand, NEW w \in Requests, ClaimLifecycle(w)
  PROVE  Aside(w)
<1>0. WorkType /\ HandOf(w)
  BY TypeParts DEF InHand
<1>1. work[w].pc = "claim" /\ work[w].own = FALSE /\ work[w].kind # "collect"
  BY <1>0 DEF ClaimLifecycle, At, HandOf, CollectSteps, LifecycleSteps, WorkType, WorkRecords
<1>2. UNCHANGED <<attempt, adue, transfer, signed, started, sent, landed, forked, age, due, subDue>>
  BY Zenon DEF ClaimLifecycle, payment, attempts, world, chain
<1>3. Rested(w) \/ (Same(w) /\ work'[w].pc \in {"row"})
  BY <1>0, GotoView, LeavesView, Zenon DEF ClaimLifecycle
<1> QED BY <1>1, <1>2, <1>3 DEF Aside, Same, Rested, AttemptSteps, CollectSteps, LifecycleSteps

LEMMA RecordLifecycleSignatureAside ==
  ASSUME TypeOK, InHand, NEW w \in Requests, RecordLifecycleSignature(w)
  PROVE  Aside(w)
<1>0. WorkType /\ HandOf(w)
  BY TypeParts DEF InHand
<1>1. work[w].pc = "recordSignature" /\ work[w].own = FALSE /\ work[w].kind # "collect"
  BY <1>0 DEF RecordLifecycleSignature, At, HandOf, CollectSteps, LifecycleSteps, WorkType,
     WorkRecords
<1>2. UNCHANGED <<attempt, adue, transfer, signed, started, sent, landed, forked, age, due, subDue>>
  BY Zenon DEF RecordLifecycleSignature, payment, attempts, world, chain
<1>3. Rested(w) \/ (Same(w) /\ work'[w].pc \in {"confirmSignature"})
  BY <1>0, GotoView, LeavesView, Zenon DEF RecordLifecycleSignature
<1> QED BY <1>1, <1>2, <1>3 DEF Aside, Same, Rested, AttemptSteps, CollectSteps, LifecycleSteps

LEMMA ConfirmLifecycleAside ==
  ASSUME TypeOK, InHand, NEW w \in Requests, ConfirmLifecycle(w)
  PROVE  Aside(w)
<1>0. WorkType /\ HandOf(w)
  BY TypeParts DEF InHand
<1>1. work[w].pc = "confirmSignature" /\ work[w].own = FALSE /\ work[w].kind # "collect"
  BY <1>0 DEF ConfirmLifecycle, At, HandOf, CollectSteps, LifecycleSteps, WorkType, WorkRecords
<1>2. UNCHANGED <<attempt, adue, transfer, signed, started, sent, landed, forked, age, due, subDue>>
  BY Zenon DEF ConfirmLifecycle, payment, attempts, world, chain
<1>3. Rested(w) \/ (Same(w) /\ work'[w].pc \in {"failRow", "finish"})
  BY <1>0, GotoView, LeavesView, Zenon DEF ConfirmLifecycle
<1> QED BY <1>1, <1>2, <1>3 DEF Aside, Same, Rested, AttemptSteps, CollectSteps, LifecycleSteps

LEMMA FailLifecycleRowAside ==
  ASSUME TypeOK, InHand, NEW w \in Requests, FailLifecycleRow(w)
  PROVE  Aside(w)
<1>0. WorkType /\ HandOf(w)
  BY TypeParts DEF InHand
<1>1. work[w].pc = "failRow" /\ work[w].own = FALSE /\ work[w].kind # "collect"
  BY <1>0 DEF FailLifecycleRow, At, HandOf, CollectSteps, LifecycleSteps, WorkType, WorkRecords
<1>2. UNCHANGED <<attempt, adue, transfer, signed, started, sent, landed, forked, age, due, subDue>>
  BY Zenon DEF FailLifecycleRow, payment, attempts, world, chain
<1>3. Rested(w) \/ (Same(w) /\ work'[w].pc \in {"unclaim"})
  BY <1>0, GotoView, Zenon DEF FailLifecycleRow
<1> QED BY <1>1, <1>2, <1>3 DEF Aside, Same, Rested, AttemptSteps, CollectSteps, LifecycleSteps

LEMMA FinalizeLifecycleAside ==
  ASSUME TypeOK, InHand, NEW w \in Requests, FinalizeLifecycle(w)
  PROVE  Aside(w)
<1>0. WorkType /\ HandOf(w)
  BY TypeParts DEF InHand
<1>1. work[w].pc = "finish" /\ work[w].own = FALSE /\ work[w].kind # "collect"
  BY <1>0 DEF FinalizeLifecycle, At, HandOf, CollectSteps, LifecycleSteps, WorkType, WorkRecords
<1>2. UNCHANGED <<attempt, adue, transfer, signed, started, sent, landed, forked, age, due, subDue>>
  BY Zenon DEF FinalizeLifecycle, payment, attempts, world, chain
<1>3. Rested(w)
  BY <1>0, LeavesView, Zenon DEF FinalizeLifecycle
<1> QED BY <1>1, <1>2, <1>3 DEF Aside, Same, Rested, AttemptSteps, CollectSteps, LifecycleSteps

LEMMA ResetLifecycleClaimAside ==
  ASSUME TypeOK, InHand, NEW w \in Requests, ResetLifecycleClaim(w)
  PROVE  Aside(w)
<1>0. WorkType /\ HandOf(w)
  BY TypeParts DEF InHand
<1>1. work[w].pc = "unclaim" /\ work[w].own = FALSE /\ work[w].kind # "collect"
  BY <1>0 DEF ResetLifecycleClaim, At, HandOf, CollectSteps, LifecycleSteps, WorkType, WorkRecords
<1>2. UNCHANGED <<attempt, adue, transfer, signed, started, sent, landed, forked, age, due, subDue>>
  BY Zenon DEF ResetLifecycleClaim, payment, attempts, world, chain
<1>3. Rested(w)
  BY <1>0, LeavesView, Zenon DEF ResetLifecycleClaim
<1> QED BY <1>1, <1>2, <1>3 DEF Aside, Same, Rested, AttemptSteps, CollectSteps, LifecycleSteps

LEMMA GetOrCreateLifecycleAttemptAside ==
  ASSUME TypeOK, InHand, NEW w \in Requests, GetOrCreateLifecycleAttempt(w)
  PROVE  Aside(w)
<1>0. WorkType /\ HandOf(w)
  BY TypeParts DEF InHand
<1>1. work[w].pc = "row" /\ work[w].own = FALSE /\ work[w].kind # "collect"
  BY <1>0 DEF GetOrCreateLifecycleAttempt, At, HandOf, CollectSteps, LifecycleSteps, WorkType,
     WorkRecords
<1>2. UNCHANGED <<attempt, adue, transfer, signed, started, sent, landed, forked, age, due, subDue>>
  BY Zenon DEF GetOrCreateLifecycleAttempt, payment, attempts, world, chain
<1>3. Rested(w) \/ (Same(w) /\ work'[w].pc \in {"submit", "confirmSignature", "unclaim"})
  <2>1. ASSUME NEW n, NEW s, NEW pc \in {"submit", "confirmSignature"},
               Becomes(w, [work[w] EXCEPT !.row = n, !.sig = s, !.pc = pc])
        PROVE  Same(w) /\ work'[w].pc \in {"submit", "confirmSignature", "unclaim"}
    BY <1>0, <2>1, ResumesView, Zenon
  <2>2. ASSUME NEW n, Becomes(w, [work[w] EXCEPT !.pc = "submit", !.row = n])
        PROVE  Same(w) /\ work'[w].pc \in {"submit", "confirmSignature", "unclaim"}
    BY <1>0, <2>2, RowView, Zenon
  <2>3. CASE Goto(w, "unclaim")
    BY <1>0, <2>3, GotoView, Zenon
  <2>4. (IF life[work[w].kind].sig = "none" THEN "submit" ELSE "confirmSignature")
          \in {"submit", "confirmSignature"}
    OBVIOUS
  <2> QED BY <2>1, <2>2, <2>3, <2>4, Zenon DEF GetOrCreateLifecycleAttempt
<1> QED BY <1>1, <1>2, <1>3 DEF Aside, Same, Rested, AttemptSteps, CollectSteps, LifecycleSteps

LEMMA SubmitLifecycleAside ==
  ASSUME TypeOK, InHand, NEW w \in Requests, SubmitLifecycle(w)
  PROVE  Aside(w)
<1>0. WorkType /\ HandOf(w)
  BY TypeParts DEF InHand
<1>1. work[w].pc = "submit" /\ work[w].own = FALSE /\ work[w].kind # "collect"
  BY <1>0 DEF SubmitLifecycle, At, HandOf, CollectSteps, LifecycleSteps, WorkType, WorkRecords
<1>2. UNCHANGED <<attempt, adue, transfer, signed, started, sent, landed, forked, age, due, subDue>>
  BY Zenon DEF SubmitLifecycle, payment, attempts, world, chain
<1>3. Rested(w) \/ (Same(w) /\ work'[w].pc \in {"failRow", "recordSignature"})
  <2>1. ASSUME NEW s, Becomes(w, [work[w] EXCEPT !.pc = "recordSignature", !.sig = s])
        PROVE  Same(w) /\ work'[w].pc \in {"failRow", "recordSignature"}
    BY <1>0, <2>1, SubmitsView, Zenon
  <2>2. CASE Goto(w, "failRow")
    BY <1>0, <2>2, GotoView, Zenon
  <2> QED BY <2>1, <2>2, Zenon DEF SubmitLifecycle
<1> QED BY <1>1, <1>2, <1>3 DEF Aside, Same, Rested, AttemptSteps, CollectSteps, LifecycleSteps

LEMMA CrashAside ==
  ASSUME TypeOK, NEW w \in Requests, Crash(w)
  PROVE  Aside(w) /\ work'[w].pc = "idle"
<1>1. WorkType
  BY TypeParts
<1>2. Rested(w)
  BY <1>1, LeavesView DEF Crash
<1> QED BY <1>2 DEF Aside, Rested, AttemptSteps, CollectSteps, LifecycleSteps, payment, attempts,
           world, chain, Crash

(* The payment and its subscription change status together. *)
LEMMA LifecycleTogether ==
  ASSUME TypeOK, CollectionInv, NEW w \in Requests, LifecycleStep(w)
  PROVE  Together'
<1>0. PaymentType /\ WorkType
  BY TypeParts
<1>1. Together /\ HandOf(w)
  BY DEF CollectionInv, RowInv, InHand
<1>2. CASE ClaimLifecycle(w)
  <2>1. work[w].kind \in {"cancel", "resume"}
    BY <1>0, <1>1, <1>2 DEF ClaimLifecycle, At, HandOf, LifecycleSteps, WorkType, WorkRecords, Kinds
  <2> QED BY <1>1, <1>2, <2>1 DEF ClaimLifecycle, Together, Claimable, Processing
<1>3. CASE FinalizeLifecycle(w)
  BY <1>1, <1>3 DEF FinalizeLifecycle, Together, Final
<1>4. CASE ResetLifecycleClaim(w)
  <2>1. work[w].kind \in {"cancel", "resume"}
    BY <1>0, <1>1, <1>4 DEF ResetLifecycleClaim, At, HandOf, LifecycleSteps, WorkType,
       WorkRecords, Kinds
  <2> QED BY <1>1, <1>4, <2>1 DEF ResetLifecycleClaim, Together, Claimable, Processing
<1>5. CASE \/ GetOrCreateLifecycleAttempt(w) \/ SubmitLifecycle(w) \/ RecordLifecycleSignature(w)
           \/ ConfirmLifecycle(w) \/ FailLifecycleRow(w)
  <2>1. status' = status /\ subStatus' = subStatus
    BY <1>5, Zenon DEF GetOrCreateLifecycleAttempt, SubmitLifecycle, RecordLifecycleSignature,
       ConfirmLifecycle, FailLifecycleRow, payment
  <2> QED BY <1>1, <2>1 DEF Together
<1> QED BY <1>2, <1>3, <1>4, <1>5 DEF LifecycleStep

LEMMA LifecycleAside ==
  ASSUME TypeOK, InHand, NEW w \in Requests, LifecycleStep(w)
  PROVE  Aside(w) /\ Moves(w)
BY ClaimLifecycleAside, GetOrCreateLifecycleAttemptAside, SubmitLifecycleAside,
   RecordLifecycleSignatureAside, ConfirmLifecycleAside, FinalizeLifecycleAside,
   FailLifecycleRowAside, ResetLifecycleClaimAside, ClaimLifecycleTypes,
   GetOrCreateLifecycleAttemptTypes, SubmitLifecycleTypes, RecordLifecycleSignatureTypes,
   ConfirmLifecycleTypes, FinalizeLifecycleTypes, FailLifecycleRowTypes,
   ResetLifecycleClaimTypes DEF LifecycleStep

(* A step of a request, one of Next's disjuncts. *)
RequestStep(w) ==
  \/ RequestCollection(w) \/ ListRecoverable(w) \/ ListDue(w)
  \/ \E op \in scenario.operations : RequestLifecycle(w, op)
  \/ RecoverStep(w) \/ CollectStep(w) \/ LifecycleStep(w) \/ Crash(w)

LEMMA RequestTypes ==
  ASSUME TypeOK, InHand, NEW w \in Requests, RequestStep(w)
  PROVE  Moves(w) /\ TypeOK'
<1>1. CASE RecoverStep(w)
  BY <1>1, GetCollectionAttemptByDueTypes, GetTransferByIdTypes, ProveCollectionTypes
     DEF RecoverStep
<1>2. CASE CollectStep(w)
  BY <1>2, FailCollectionTypes, CreateCollectionAttemptTypes, EnforcePolicyTypes,
     LinkTransferTypes, UpdateDestinationTokenAccountTypes, PersistSignedTypes,
     MarkStartedTypes, SendTransactionTypes, RecordSignatureTypes, ConfirmCollectionTypes,
     JournalSignatureTypes, FinalizeCollectionTypes DEF CollectStep
<1>3. CASE LifecycleStep(w)
  BY <1>3, ClaimLifecycleTypes, GetOrCreateLifecycleAttemptTypes, SubmitLifecycleTypes,
     RecordLifecycleSignatureTypes, ConfirmLifecycleTypes, FinalizeLifecycleTypes,
     FailLifecycleRowTypes, ResetLifecycleClaimTypes DEF LifecycleStep
<1> QED BY <1>1, <1>2, <1>3, RequestCollectionTypes, ListRecoverableTypes, ListDueTypes,
          RequestLifecycleTypes, CrashTypes DEF RequestStep

LEMMA RequestHands ==
  ASSUME TypeOK, CollectionInv, NEW w \in Requests, RequestStep(w)
  PROVE  Discreet(w) /\ CollectionInv'
<1>0. InHand /\ Together
  BY DEF CollectionInv, RowInv
<1>1. Moves(w)
  BY <1>0, RequestTypes
<1>2. CASE RecoverStep(w)
  BY <1>1, <1>2, GetCollectionAttemptByDueHands, GetTransferByIdHands, ProveCollectionHands,
     HandsKept DEF RecoverStep, CollectionInv, Discreet
<1>3. CASE CollectStep(w)
  <2>1. Discreet(w) /\ HandOf(w)' /\ RowInv'
    BY <1>1, <1>3, FailCollectionHands, CreateCollectionAttemptHands, EnforcePolicyHands,
       LinkTransferHands, UpdateDestinationTokenAccountHands, PersistSignedHands,
       MarkStartedHands, SendTransactionHands, RecordSignatureHands,
       ConfirmCollectionHands, JournalSignatureHands, FinalizeCollectionHands
       DEF CollectStep
  <2> QED BY <1>0, <1>1, <2>1, HandsKept DEF CollectionInv, Discreet
<1>4. ASSUME Aside(w), Together' PROVE Discreet(w) /\ CollectionInv'
  BY <1>0, <1>1, <1>4, AsideHands, HandsKept DEF CollectionInv, Discreet
<1>5. CASE LifecycleStep(w)
  BY <1>0, <1>4, <1>5, LifecycleAside, LifecycleTogether
<1>6. ASSUME UNCHANGED payment PROVE Together'
  BY <1>0, <1>6 DEF Together, payment
<1>7. CASE Crash(w)
  BY <1>4, <1>6, <1>7, CrashAside DEF Crash
<1>8. CASE RequestCollection(w) \/ ListRecoverable(w) \/ ListDue(w)
  <2>1. Reads(w) /\ UNCHANGED <<payment, attempts, world, lifecycle>>
    BY <1>8, Zenon DEF RequestCollection, ListRecoverable, ListDue
  <2> QED BY <1>4, <1>6, <2>1, ReadsAside
<1>9. ASSUME NEW op \in scenario.operations, RequestLifecycle(w, op)
      PROVE  Discreet(w) /\ CollectionInv'
  <2>1. UNCHANGED payment
    BY <1>9, Zenon DEF RequestLifecycle
  <2> QED BY <1>4, <1>6, <1>9, <2>1, RequestLifecycleAside
<1> QED BY <1>2, <1>3, <1>5, <1>7, <1>8, <1>9 DEF RequestStep

-----------------------------------------------------------------------------
(* The tracking job, time and the chain *)

WorldStep ==
  \/ \E a \in Attempts :
       TrackTransfer(a) \/ AttemptAges(a) \/ Lands(a) \/ Expires(a) \/ ForkDropped(a)
  \/ \E op \in {"cancel", "resume"} : LandsElsewhere(op)
  \/ DueDatePasses \/ PaymentAges

LEMMA WorldTypes ==
  ASSUME TypeOK, InHand, WorldStep
  PROVE  TypeOK'
<1>0. PaymentType /\ RowType /\ ChainType /\ LifeType /\ WorkType
  BY TypeParts
<1>1. CASE DueDatePasses
  <2>1. now' \in 0..Periods
    BY <1>0, <1>1, Bounds DEF DueDatePasses, PaymentType
  <2>2. PaymentType'
    BY <1>0, <1>1, <2>1 DEF DueDatePasses, PaymentType, payment, chain, lifecycle
  <2>3. RowType' /\ ChainType' /\ LifeType' /\ WorkType'
    BY <1>0, <1>1 DEF DueDatePasses, RowType, ChainType, LifeType, WorkType, attempts, chain,
       lifecycle
  <2> QED BY <2>2, <2>3, TypePartsNext
<1>2. CASE PaymentAges
  <2>1. PaymentType'
    BY <1>0, <1>2 DEF PaymentAges, PaymentType, world, chain, lifecycle
  <2>2. RowType' /\ ChainType' /\ LifeType' /\ WorkType'
    BY <1>0, <1>2 DEF PaymentAges, RowType, ChainType, LifeType, WorkType, attempts, world,
       chain, lifecycle
  <2> QED BY <2>1, <2>2, TypePartsNext
<1> QED BY <1>1, <1>2, TrackTransferTypes, AttemptAgesTypes, LandsTypes, ExpiresTypes,
           ForkDroppedTypes, LandsElsewhereTypes DEF WorldStep

LEMMA WorldHands ==
  ASSUME TypeOK, CollectionInv, WorldStep
  PROVE  /\ RowsAdvance /\ CollectionInv' /\ work' = work
         /\ UNCHANGED <<attempt, signed, started, sent, due, subDue, scenario>>
<1>0. RowType /\ ChainType /\ RowInv /\ InHand
  BY TypeParts DEF CollectionInv
<1>1. ASSUME RowsAdvance, work' = work PROVE InHand'
  BY <1>0, <1>1 DEF InHand, HandOf, RowsAdvance, AttemptSteps, CollectSteps
<1>2. ASSUME NEW a \in Attempts, TrackTransfer(a)
      PROVE  /\ RowsAdvance /\ RowInv' /\ work' = work
             /\ UNCHANGED <<attempt, signed, started, sent, due, subDue, scenario>>
  <2>1. UNCHANGED <<attempt, adue, signed, started, sent, landed, forked, work, status, subStatus, due, subDue, scenario>>
    BY <1>2, Zenon DEF TrackTransfer, payment, world, chain
  <2>2. \/ transfer[a] = "processing" /\ transfer' = [transfer EXCEPT ![a] = "failed"]
        \/ \E s \in {"confirmed", "finalized"} :
             landed[a] = "ok" /\ transfer' = [transfer EXCEPT ![a] = s]
    BY <1>0, <1>2 DEF TrackTransfer, RowInv, TransferLanded
  <2>3. TransferLanded' /\ ConfirmedAttemptLanded'
    BY <1>0, <2>1, <2>2 DEF RowInv, TransferLanded, ConfirmedAttemptLanded, RowType
  <2>4. Marks'
    BY <1>0, <2>1, <2>2 DEF RowInv, Marks, RowType
  <2>5. Fresh' /\ OneActive' /\ Together' /\ AdvancedWasCharged' /\ RowsAdvance
    BY <1>0, <2>1 DEF RowInv, Fresh, OneActive, Together, AdvancedWasCharged, RowsAdvance
  <2> QED BY <2>1, <2>3, <2>4, <2>5 DEF RowInv
<1>3. ASSUME NEW a \in Attempts, Lands(a) \/ ForkDropped(a)
      PROVE  /\ RowsAdvance /\ RowInv' /\ work' = work
             /\ UNCHANGED <<attempt, signed, started, sent, due, subDue, scenario>>
  <2>1. UNCHANGED <<attempt, adue, transfer, signed, started, sent, work, status, subStatus, due, subDue, scenario>>
    BY <1>3, Zenon DEF Lands, ForkDropped, payment, attempts
  <2>2. \/ /\ sent[a] /\ landed[a] = "no" /\ forked' = forked
           /\ \E r \in {"ok", "err"} : landed' = [landed EXCEPT ![a] = r]
        \/ /\ landed[a] = "err" /\ landed' = [landed EXCEPT ![a] = "no"]
           /\ forked' = [forked EXCEPT ![a] = TRUE]
    BY <1>3, Zenon DEF Lands, ForkDropped
  <2>3. RowsAdvance /\ \A b \in Attempts : landed[b] = "ok" => landed'[b] = "ok"
    BY <1>0, <2>1, <2>2 DEF RowsAdvance, ChainType
  <2>4. Fresh' /\ OneActive' /\ Together'
    BY <1>0, <2>1 DEF RowInv, Fresh, OneActive, Together
  <2>5. Marks' /\ TransferLanded' /\ ConfirmedAttemptLanded'
    BY <1>0, <2>1, <2>2, <2>3 DEF RowInv, Marks, TransferLanded, ConfirmedAttemptLanded, ChainType
  <2>6. AdvancedWasCharged'
    BY <1>0, <2>1, <2>3 DEF RowInv, AdvancedWasCharged
  <2> QED BY <2>1, <2>3, <2>4, <2>5, <2>6 DEF RowInv
<1>4. ASSUME UNCHANGED <<RowVars, signed, work, scenario>>
      PROVE  /\ RowsAdvance /\ RowInv' /\ work' = work
             /\ UNCHANGED <<attempt, signed, started, sent, due, subDue, scenario>>
  BY <1>0, <1>4, RowsStill, StillAdvance DEF RowVars
<1>5. CASE \/ DueDatePasses \/ PaymentAges \/ \E a \in Attempts : AttemptAges(a) \/ Expires(a)
           \/ \E op \in {"cancel", "resume"} : LandsElsewhere(op)
  <2>1. UNCHANGED <<RowVars, signed, work, scenario>>
    BY <1>5, Zenon DEF DueDatePasses, PaymentAges, AttemptAges, Expires, LandsElsewhere, RowVars,
       payment, attempts, world, chain
  <2> QED BY <1>1, <1>4, <2>1 DEF CollectionInv
<1>6. CASE \E a \in Attempts : TrackTransfer(a) \/ Lands(a) \/ ForkDropped(a)
  BY <1>1, <1>2, <1>3, <1>6 DEF CollectionInv
<1> QED BY <1>5, <1>6, Zenon DEF WorldStep

LEMMA Steps == Next => (\E w \in Requests : RequestStep(w)) \/ WorldStep
BY Zenon DEF Next, RequestStep, WorldStep

LEMMA CollectionInit == Init => CollectionInv
<1> SUFFICES ASSUME Init PROVE CollectionInv
  OBVIOUS
<1>1. RowInv
  BY Bounds DEF Init, RowInv, Fresh, Marks, TransferLanded, ConfirmedAttemptLanded, OneActive,
     Together, AdvancedWasCharged
<1>2. InHand
  BY DEF Init, InHand, HandOf, Idle, AttemptSteps, CollectSteps, MaySend, LifecycleSteps
<1> QED BY <1>1, <1>2 DEF CollectionInv

LEMMA CollectionNext == TypeOK /\ CollectionInv /\ [Next]_vars => TypeOK' /\ CollectionInv'
<1> SUFFICES ASSUME TypeOK, CollectionInv, [Next]_vars PROVE TypeOK' /\ CollectionInv'
  OBVIOUS
<1>1. InHand
  BY DEF CollectionInv
<1>2. ASSUME NEW w \in Requests, RequestStep(w) PROVE TypeOK' /\ CollectionInv'
  BY <1>1, <1>2, RequestTypes, RequestHands
<1>3. CASE WorldStep
  BY <1>1, <1>3, WorldTypes, WorldHands
<1>4. CASE UNCHANGED vars
  <2>1. TypeOK'
    BY <1>4 DEF vars, payment, attempts, world, chain, lifecycle, TypeOK
  <2>2. RowInv'
    BY <1>4, RowsStill DEF CollectionInv, RowVars, vars, payment, attempts, world, chain
  <2>3. InHand'
    BY <1>1, <1>4 DEF InHand, HandOf, vars, attempts, world, chain
  <2> QED BY <2>1, <2>2, <2>3 DEF CollectionInv
<1> QED BY <1>2, <1>3, <1>4, Steps

-----------------------------------------------------------------------------
(* Theorems that hold in every scenario *)

(* Rows, requests and the chain have their types: in particular no due     *)
(* date leaves the schedule (finalizeRecurringPaymentCollection).          *)
THEOREM Typed == Spec => []TypeOK
<1>1. TypeOK /\ CollectionInv /\ [Next]_vars => (TypeOK /\ CollectionInv)'
  BY CollectionNext
<1> QED BY <1>1, TypesInit, CollectionInit, PTL DEF Spec

LEMMA Collections == Spec => [](TypeOK /\ CollectionInv)
<1>1. TypeOK /\ CollectionInv /\ [Next]_vars => (TypeOK /\ CollectionInv)'
  BY CollectionNext
<1> QED BY <1>1, TypesInit, CollectionInit, PTL DEF Spec

(* However many requests collect, recover, cancel and stand still, the     *)
(* schedule moves past a period only when its charge is on chain, and the  *)
(* subscription does not lag (finalizeRecurringPaymentCollection).         *)
THEOREM AdvancesCharged == Spec => []AdvancedWasCharged
<1>1. TypeOK /\ CollectionInv => AdvancedWasCharged
  BY DEF CollectionInv, RowInv
<1> QED BY <1>1, Collections, PTL

(* An attempt is confirmed only with its transfer and by the chain, on the *)
(* branch that was about to fail it too                                    *)
(* (markRecurringPaymentCollectionFailedAtomically).                       *)
THEOREM ConfirmedLanded == Spec => []ConfirmedAttemptLanded
<1>1. TypeOK /\ CollectionInv => ConfirmedAttemptLanded
  BY DEF CollectionInv, RowInv
<1> QED BY <1>1, Collections, PTL

(* No request, pass or crash moves a due date back or takes a confirmed     *)
(* attempt back (finalizeRecurringPaymentCollection and                    *)
(* markRecurringPaymentCollectionFailedAtomically).                        *)
THEOREM OnlyAdvance == Spec => CollectionsOnlyAdvance
<1>1. TypeOK /\ CollectionInv /\ [Next]_vars =>
        [/\ due' >= due /\ subDue' >= subDue
         /\ \A a \in Attempts : attempt[a] = "confirmed" => attempt'[a] = "confirmed"]_vars
  <2> SUFFICES ASSUME TypeOK, CollectionInv, Next
               PROVE  /\ due' >= due /\ subDue' >= subDue
                      /\ \A a \in Attempts : attempt[a] = "confirmed" => attempt'[a] = "confirmed"
    OBVIOUS
  <2>1. RowsAdvance
    BY Steps, RequestHands, WorldHands DEF Discreet
  <2>2. PaymentType
    BY TypeParts
  <2> QED BY <2>1, <2>2 DEF RowsAdvance, PaymentType
<1> QED BY <1>1, Collections, PTL DEF Spec, CollectionsOnlyAdvance

-----------------------------------------------------------------------------
(* One charge per period *)

LEMMA SigningStep ==
  ASSUME TypeOK, CollectionInv, Signing, NEW w \in Requests, Moves(w), Discreet(w)
  PROVE  Signing'
<1>0. WorkType /\ InHand
  BY TypeParts DEF CollectionInv
<1>1. \A a \in Attempts : started'[a] => signed'[a]
  BY DEF Signing, Discreet
<1>2. ASSUME NEW v \in Requests, work'[v].pc = "start" PROVE signed'[work'[v].a]
  <2>1. CASE v = w
    BY <1>2, <2>1 DEF Discreet
  <2>2. CASE v # w
    <3>1. work'[v] = work[v]
      BY <1>0, <2>2 DEF Moves, WorkType
    <3>2. work[v].a \in Attempts
      BY <1>0, <1>2, <3>1 DEF InHand, HandOf, AttemptSteps, CollectSteps
    <3> QED BY <1>2, <3>1, <3>2 DEF Signing, Discreet
  <2> QED BY <2>1, <2>2
<1> QED BY <1>1, <1>2 DEF Signing

LEMMA OthersStay ==
  ASSUME TypeOK, NEW w \in Requests, Moves(w)
  PROVE  \A v \in Requests : v # w => work'[v] = work[v]
BY TypeParts DEF Moves, WorkType

LEMMA DeadStays ==
  ASSUME TypeOK, NEW w \in Requests, Moves(w), Discreet(w), NEW a \in Attempts, Dead(a)
  PROVE  Dead(a)'
<1>1. CASE landed[a] = "err" \/ forked[a]
  BY <1>1 DEF Discreet, Dead
<1>2. CASE /\ ~sent[a] /\ attempt[a] # "none"
           /\ \A v \in Requests : work[v].pc \in MaySend => work[v].a # a
  <2>1. ~sent'[a]
    BY <1>2 DEF Discreet, MaySend
  <2>2. attempt'[a] # "none"
    BY <1>2 DEF Discreet, RowsAdvance
  <2>3. ASSUME NEW v \in Requests, work'[v].pc \in MaySend PROVE work'[v].a # a
    <3>1. CASE v = w
      BY <1>2, <2>3, <3>1 DEF Discreet
    <3>2. CASE v # w
      BY <1>2, <2>3, <3>2, OthersStay
    <3> QED BY <3>1, <3>2
  <2> QED BY <2>1, <2>2, <2>3 DEF Dead
<1> QED BY <1>1, <1>2 DEF Dead

LEMMA AbandonedStays ==
  ASSUME TypeOK, NEW w \in Requests, Moves(w), Discreet(w), NEW a \in Attempts, Abandoned(a)
  PROVE  Abandoned(a)'
<1>1. attempt'[a] # "none"
  BY DEF Discreet, RowsAdvance, Abandoned
<1>2. ASSUME NEW v \in Requests, work'[v].own PROVE work'[v].a # a
  <2>1. CASE v = w
    BY <1>2, <2>1 DEF Discreet, Abandoned
  <2>2. CASE v # w
    BY <1>2, <2>2, OthersStay DEF Abandoned
  <2> QED BY <2>1, <2>2
<1> QED BY <1>1, <1>2 DEF Abandoned

LEMMA AbandonedIsDead ==
  ASSUME CollectionInv, NEW a \in Attempts, Abandoned(a), ~sent[a]
  PROVE  Dead(a)
BY DEF CollectionInv, InHand, HandOf, Abandoned, Dead

(* A collector that gives up before it has sent anything. *)
LEMMA QuitterIsDead ==
  ASSUME TypeOK, CollectionInv, OneCollector, NEW w \in Requests, Moves(w), Discreet(w), work[w].own,
         ~sent'[work[w].a], work'[w].pc \notin MaySend
  PROVE  \A a \in Attempts : a = work[w].a => Dead(a)'
<1>0. HandOf(w) /\ \A v \in Requests : HandOf(v)
  BY DEF CollectionInv, InHand
<1>1. work[w].a \in Attempts /\ attempt'[work[w].a] # "none"
  BY <1>0 DEF HandOf, AttemptSteps, Discreet, RowsAdvance
<1>2. ASSUME NEW v \in Requests, work'[v].pc \in MaySend PROVE work'[v].a # work[w].a
  <2>1. v # w /\ work'[v] = work[v]
    BY <1>2, OthersStay
  <2> QED BY <1>0, <1>2, <2>1 DEF OneCollector, HandOf
<1> QED BY <1>1, <1>2 DEF Dead

LEMMA GetCollectionAttemptByDueCare ==
  ASSUME TypeOK, CollectionInv, Signing, OneCollector, Losses, NEW w \in Requests, CareOf(w),
         GetCollectionAttemptByDue(w), Moves(w), Discreet(w)
  PROVE  CareOf(w)'
<1>0. RowType /\ WorkType /\ HandOf(w) /\ RowInv
  BY TypeParts DEF CollectionInv, InHand
<1>p. work[w].pc = "recover"
  BY Zenon DEF GetCollectionAttemptByDue, At
<1>1. CASE Rested(w) \/ Recovered(w)
  BY <1>1 DEF CareOf, Rested, Recovered, MaySend
<1>2. ASSUME NEW a \in Attempts, work'[w].a = a, work'[w].pc = "transfer",
             work'[w].stale => age[a] = 2
      PROVE  CareOf(w)'
  <2>1. work'[w].stale => Abandoned(a)'
    BY <1>2, AbandonedStays DEF Losses
  <2> QED BY <1>2, <2>1 DEF CareOf, MaySend, Abandoned
<1>3. ASSUME NEW a \in Attempts, work'[w].a = a, work'[w].pc = "fail", age[a] = 2,
             transfer[a] = "none"
      PROVE  CareOf(w)'
  <2>1. Abandoned(a) /\ ~sent[a]
    BY <1>0, <1>3 DEF Losses, RowInv, Marks
  <2>2. Dead(a)'
    BY <2>1, AbandonedIsDead, DeadStays
  <2> QED BY <1>3, <2>2 DEF CareOf, MaySend, Dead
<1> QED BY <1>0, <1>1, <1>2, <1>3, FindsView, Zenon DEF ActiveAttempts

LEMMA GetTransferByIdCare ==
  ASSUME TypeOK, CollectionInv, Signing, OneCollector, Losses, NEW w \in Requests, CareOf(w),
         GetTransferById(w), Moves(w), Discreet(w)
  PROVE  CareOf(w)'
<1>0. RowType /\ WorkType /\ HandOf(w) /\ RowInv
  BY TypeParts DEF CollectionInv, InHand
<1>p. work[w].pc = "transfer"
  BY Zenon DEF GetTransferById, At
<1>1. \/ Rested(w) \/ (Same(w) /\ work'[w].pc = "prove")
      \/ /\ Same(w) /\ work'[w].pc = "fail" /\ work[w].stale
         /\ (~work[w].asig /\ ~signed[work[w].a]) \/ ~started[work[w].a]
  BY <1>0, GotoView, LeavesView, LearnsView, Zenon DEF GetTransferById
<1>2. ASSUME work'[w].pc = "fail" PROVE Dead(work[w].a) /\ work'[w].a = work[w].a
  <2>1. work[w].a \in Attempts /\ Abandoned(work[w].a) /\ work'[w].a = work[w].a
    BY <1>0, <1>p, <1>1, <1>2 DEF CareOf, HandOf, AttemptSteps, Rested, Same
  <2>2. ~sent[work[w].a]
    BY <1>0, <1>1, <1>2, <2>1 DEF RowInv, Marks, Signing, Rested
  <2> QED BY <2>1, <2>2, AbandonedIsDead
<1>3. work'[w].pc = "fail" => \A a \in Attempts : a = work'[w].a => Dead(a)'
  BY <1>2, DeadStays
<1>4. work'[w].pc = "fail" => work'[w].a \in Attempts
  BY <1>0, <1>p, <1>2 DEF HandOf, AttemptSteps
<1> QED BY <1>1, <1>3, <1>4 DEF CareOf, Dead, Same, Rested, MaySend

LEMMA ProveCollectionCare ==
  ASSUME TypeOK, CollectionInv, Signing, OneCollector, Losses, NEW w \in Requests, CareOf(w),
         ProveCollection(w), Moves(w), Discreet(w)
  PROVE  CareOf(w)'
<1>0. RowType /\ WorkType /\ HandOf(w) /\ RowInv
  BY TypeParts DEF CollectionInv, InHand
<1>p. work[w].pc = "prove"
  BY Zenon DEF ProveCollection, At
<1>1. /\ Same(w) /\ work'[w].pc \in {"fail", "finalize", "journal"}
      /\ work'[w].pc = "fail" => landed[work[w].a] = "err"
  BY <1>0, GotoView DEF ProveCollection
<1> QED BY <1>1 DEF CareOf, Dead, Same, MaySend, Discreet

LEMMA ConfirmCollectionCare ==
  ASSUME TypeOK, CollectionInv, Signing, OneCollector, Losses, NEW w \in Requests, CareOf(w),
         ConfirmCollection(w), Moves(w), Discreet(w)
  PROVE  CareOf(w)'
<1>0. RowType /\ WorkType /\ HandOf(w) /\ RowInv
  BY TypeParts DEF CollectionInv, InHand
<1>p. work[w].pc = "confirm"
  BY Zenon DEF ConfirmCollection, At
<1>1. /\ Same(w) /\ work'[w].pc \in {"fail", "finalize", "journal"}
      /\ work'[w].pc = "fail" => landed[work[w].a] = "err"
  BY <1>0, GotoView DEF ConfirmCollection
<1> QED BY <1>1 DEF CareOf, Dead, Same, MaySend, Discreet

LEMMA FailCollectionCare ==
  ASSUME TypeOK, CollectionInv, Signing, OneCollector, Losses, NEW w \in Requests, CareOf(w),
         FailCollection(w), Moves(w), Discreet(w)
  PROVE  CareOf(w)'
<1>0. RowType /\ WorkType /\ HandOf(w) /\ RowInv
  BY TypeParts DEF CollectionInv, InHand
<1>p. work[w].pc = "fail"
  BY Zenon DEF FailCollection, At
<1>1. Rested(w) \/ Recovered(w)
  BY <1>0, LeavesView, NothingView DEF FailCollection
<1> QED BY <1>1 DEF CareOf, Same, Rested, Recovered, MaySend

LEMMA JournalSignatureCare ==
  ASSUME TypeOK, CollectionInv, Signing, OneCollector, Losses, NEW w \in Requests, CareOf(w),
         JournalSignature(w), Moves(w), Discreet(w)
  PROVE  CareOf(w)'
<1>0. RowType /\ WorkType /\ HandOf(w) /\ RowInv
  BY TypeParts DEF CollectionInv, InHand
<1>p. work[w].pc = "journal"
  BY Zenon DEF JournalSignature, At
<1>1. Rested(w)
  BY <1>0, LeavesView DEF JournalSignature
<1> QED BY <1>1 DEF CareOf, Same, Rested, Recovered, MaySend

LEMMA RecordSignatureCare ==
  ASSUME TypeOK, CollectionInv, Signing, OneCollector, Losses, NEW w \in Requests, CareOf(w),
         RecordSignature(w), Moves(w), Discreet(w)
  PROVE  CareOf(w)'
<1>0. RowType /\ WorkType /\ HandOf(w) /\ RowInv
  BY TypeParts DEF CollectionInv, InHand
<1>p. work[w].pc = "record"
  BY Zenon DEF RecordSignature, At
<1>1. Same(w) /\ work'[w].pc \in {"confirm", "journal"}
  BY <1>0, GotoView, LearnsView, Zenon DEF RecordSignature
<1> QED BY <1>1 DEF CareOf, Same, Rested, Recovered, MaySend

LEMMA FinalizeCollectionCare ==
  ASSUME TypeOK, CollectionInv, Signing, OneCollector, Losses, NEW w \in Requests, CareOf(w),
         FinalizeCollection(w), Moves(w), Discreet(w)
  PROVE  CareOf(w)'
<1>0. RowType /\ WorkType /\ HandOf(w) /\ RowInv
  BY TypeParts DEF CollectionInv, InHand
<1>p. work[w].pc = "finalize"
  BY Zenon DEF FinalizeCollection, At
<1>1. \/ Leaves(w) \/ Goto(w, "journal") \/ Goto(w, "claim")
  BY Zenon DEF FinalizeCollection
<1>2. work'[w].pc \in {"idle", "journal", "claim"}
  BY <1>0, <1>1, GotoView, LeavesView DEF Rested
<1> QED BY <1>2 DEF CareOf, MaySend

LEMMA CreateCollectionAttemptCare ==
  ASSUME TypeOK, CollectionInv, Signing, OneCollector, Losses, NEW w \in Requests, CareOf(w),
         CreateCollectionAttempt(w), Moves(w), Discreet(w)
  PROVE  CareOf(w)'
<1>0. RowType /\ WorkType /\ HandOf(w) /\ RowInv
  BY TypeParts DEF CollectionInv, InHand
<1>p. work[w].pc = "create"
  BY Zenon DEF CreateCollectionAttempt, At
<1>1. CASE Leaves(w)
  BY <1>0, <1>1, LeavesView DEF CareOf, Rested, MaySend
<1>2. CASE Becomes(w, [work[w] EXCEPT !.pc = "recover", !.again = TRUE])
  <2>1. work'[w].pc = "recover"
    BY <1>0, <1>2, AgainView, Zenon
  <2> QED BY <2>1 DEF CareOf, MaySend
<1>3. ASSUME NEW a \in Attempts, attempt[a] = "none",
             Becomes(w, [work[w] EXCEPT !.pc = "policy", !.a = a, !.own = TRUE])
      PROVE  CareOf(w)'
  <2>1. work'[w].pc = "policy" /\ work'[w].a = a
    BY <1>0, <1>3, CreatesView, Zenon
  <2>2. ~sent'[a] /\ ~started'[a]
    BY <1>0, <1>3, <1>p DEF Discreet, RowInv, Fresh
  <2> QED BY <2>1, <2>2 DEF CareOf, MaySend
<1> QED BY <1>1, <1>2, <1>3, Zenon DEF CreateCollectionAttempt

LEMMA EnforcePolicyCare ==
  ASSUME TypeOK, CollectionInv, Signing, OneCollector, Losses, NEW w \in Requests, CareOf(w),
         EnforcePolicy(w), Moves(w), Discreet(w)
  PROVE  CareOf(w)'
<1>0. RowType /\ WorkType /\ HandOf(w) /\ RowInv
  BY TypeParts DEF CollectionInv, InHand
<1>p. work[w].pc = "policy"
  BY Zenon DEF EnforcePolicy, At
<1>1. Same(w) /\ work'[w].pc \in {"link", "fail"}
  BY <1>0, GotoView, FailsView, Zenon DEF EnforcePolicy
<1>2. UNCHANGED <<started, sent>>
  BY Zenon DEF EnforcePolicy, attempts, world, chain
<1>3. work[w].own /\ work[w].a \in Attempts /\ ~sent[work[w].a] /\ ~started[work[w].a]
  BY <1>0, <1>p DEF HandOf, CareOf, MaySend, AttemptSteps, CollectSteps
<1>4. work'[w].pc = "fail" => \A a \in Attempts : a = work[w].a => Dead(a)'
  BY <1>2, <1>3, QuitterIsDead DEF MaySend
<1> QED BY <1>1, <1>2, <1>3, <1>4 DEF CareOf, Dead, Same, MaySend

LEMMA LinkTransferCare ==
  ASSUME TypeOK, CollectionInv, Signing, OneCollector, Losses, NEW w \in Requests, CareOf(w),
         LinkTransfer(w), Moves(w), Discreet(w)
  PROVE  CareOf(w)'
<1>0. RowType /\ WorkType /\ HandOf(w) /\ RowInv
  BY TypeParts DEF CollectionInv, InHand
<1>p. work[w].pc = "link"
  BY Zenon DEF LinkTransfer, At
<1>1. Same(w) /\ work'[w].pc \in {"destination", "fail"}
  BY <1>0, FailsView, LinksView, Zenon DEF LinkTransfer
<1>2. UNCHANGED <<started, sent>>
  BY Zenon DEF LinkTransfer, attempts, world, chain
<1>3. work[w].own /\ work[w].a \in Attempts /\ ~sent[work[w].a] /\ ~started[work[w].a]
  BY <1>0, <1>p DEF HandOf, CareOf, MaySend, AttemptSteps, CollectSteps
<1>4. work'[w].pc = "fail" => \A a \in Attempts : a = work[w].a => Dead(a)'
  BY <1>2, <1>3, QuitterIsDead DEF MaySend
<1> QED BY <1>1, <1>2, <1>3, <1>4 DEF CareOf, Dead, Same, MaySend

LEMMA UpdateDestinationTokenAccountCare ==
  ASSUME TypeOK, CollectionInv, Signing, OneCollector, Losses, NEW w \in Requests, CareOf(w),
         UpdateDestinationTokenAccount(w), Moves(w), Discreet(w)
  PROVE  CareOf(w)'
<1>0. RowType /\ WorkType /\ HandOf(w) /\ RowInv
  BY TypeParts DEF CollectionInv, InHand
<1>p. work[w].pc = "destination"
  BY Zenon DEF UpdateDestinationTokenAccount, At
<1>1. Same(w) /\ work'[w].pc \in {"sign", "fail"}
  BY <1>0, GotoView DEF UpdateDestinationTokenAccount
<1>2. UNCHANGED <<started, sent>>
  BY Zenon DEF UpdateDestinationTokenAccount, attempts, world, chain
<1>3. work[w].own /\ work[w].a \in Attempts /\ ~sent[work[w].a] /\ ~started[work[w].a]
  BY <1>0, <1>p DEF HandOf, CareOf, MaySend, AttemptSteps, CollectSteps
<1>4. work'[w].pc = "fail" => \A a \in Attempts : a = work[w].a => Dead(a)'
  BY <1>2, <1>3, QuitterIsDead DEF MaySend
<1> QED BY <1>1, <1>2, <1>3, <1>4 DEF CareOf, Dead, Same, MaySend

LEMMA PersistSignedCare ==
  ASSUME TypeOK, CollectionInv, Signing, OneCollector, Losses, NEW w \in Requests, CareOf(w),
         PersistSigned(w), Moves(w), Discreet(w)
  PROVE  CareOf(w)'
<1>0. RowType /\ WorkType /\ HandOf(w) /\ RowInv
  BY TypeParts DEF CollectionInv, InHand
<1>p. work[w].pc = "sign"
  BY Zenon DEF PersistSigned, At
<1>1. Same(w) /\ work'[w].pc \in {"start", "fail"}
  BY <1>0, GotoView DEF PersistSigned
<1>2. UNCHANGED <<started, sent>>
  BY Zenon DEF PersistSigned, attempts, world, chain
<1>3. work[w].own /\ work[w].a \in Attempts /\ ~sent[work[w].a] /\ ~started[work[w].a]
  BY <1>0, <1>p DEF HandOf, CareOf, MaySend, AttemptSteps, CollectSteps
<1>4. work'[w].pc = "fail" => \A a \in Attempts : a = work[w].a => Dead(a)'
  BY <1>2, <1>3, QuitterIsDead DEF MaySend
<1> QED BY <1>1, <1>2, <1>3, <1>4 DEF CareOf, Dead, Same, MaySend

LEMMA MarkStartedCare ==
  ASSUME TypeOK, CollectionInv, Signing, OneCollector, Losses, NEW w \in Requests, CareOf(w),
         MarkStarted(w), Moves(w), Discreet(w)
  PROVE  CareOf(w)'
<1>0. RowType /\ WorkType /\ HandOf(w) /\ RowInv
  BY TypeParts DEF CollectionInv, InHand
<1>p. work[w].pc = "start"
  BY Zenon DEF MarkStarted, At
<1>1. Same(w) /\ work'[w].pc \in {"send", "journal", "fail"}
  BY <1>0, GotoView DEF MarkStarted
<1>2. UNCHANGED sent
  BY Zenon DEF MarkStarted, world, chain
<1>3. work[w].own /\ work[w].a \in Attempts /\ ~sent[work[w].a]
  BY <1>0, <1>p DEF HandOf, CareOf, MaySend, AttemptSteps, CollectSteps
<1>4. work'[w].pc = "fail" => \A a \in Attempts : a = work[w].a => Dead(a)'
  BY <1>2, <1>3, QuitterIsDead DEF MaySend
<1> QED BY <1>1, <1>2, <1>3, <1>4 DEF CareOf, Dead, Same, MaySend

LEMMA SendTransactionCare ==
  ASSUME TypeOK, CollectionInv, Signing, OneCollector, Losses, NEW w \in Requests, CareOf(w),
         SendTransaction(w), Moves(w), Discreet(w)
  PROVE  CareOf(w)'
<1>0. RowType /\ WorkType /\ HandOf(w) /\ RowInv
  BY TypeParts DEF CollectionInv, InHand
<1>p. work[w].pc = "send"
  BY Zenon DEF SendTransaction, At
<1>1. /\ Same(w) /\ work'[w].pc \in {"record", "journal", "fail"}
      /\ work'[w].pc = "fail" => sent' = sent
  BY <1>0, GotoView DEF SendTransaction
<1>2. work[w].own /\ work[w].a \in Attempts /\ ~sent[work[w].a]
  BY <1>0, <1>p DEF HandOf, CareOf, MaySend, AttemptSteps, CollectSteps
<1>3. work'[w].pc = "fail" => \A a \in Attempts : a = work[w].a => Dead(a)'
  BY <1>1, <1>2, QuitterIsDead DEF MaySend
<1> QED BY <1>1, <1>2, <1>3 DEF CareOf, Dead, Same, MaySend

LEMMA AsideCare ==
  ASSUME NEW w \in Requests, Aside(w)
  PROVE  CareOf(w)'
BY DEF Aside, CareOf, AttemptSteps, CollectSteps, MaySend

LEMMA RequestCare ==
  ASSUME TypeOK, CollectionInv, Signing, OneCollector, Losses, NEW w \in Requests, CareOf(w),
         RequestStep(w), Moves(w), Discreet(w)
  PROVE  CareOf(w)'
<1>0. InHand
  BY DEF CollectionInv
<1>1. CASE RecoverStep(w)
  BY <1>1, GetCollectionAttemptByDueCare, GetTransferByIdCare, ProveCollectionCare DEF RecoverStep
<1>2. CASE CollectStep(w)
  BY <1>2, FailCollectionCare, CreateCollectionAttemptCare, EnforcePolicyCare,
     LinkTransferCare, UpdateDestinationTokenAccountCare, PersistSignedCare,
     MarkStartedCare, SendTransactionCare, RecordSignatureCare, ConfirmCollectionCare,
     JournalSignatureCare, FinalizeCollectionCare DEF CollectStep
<1>3. CASE LifecycleStep(w)
  BY <1>0, <1>3, LifecycleAside, AsideCare
<1>4. CASE Crash(w)
  BY <1>4, CrashAside, AsideCare
<1>5. CASE RequestCollection(w) \/ ListRecoverable(w) \/ ListDue(w)
  <2>1. Reads(w) /\ UNCHANGED <<payment, attempts, world, lifecycle>>
    BY <1>5, Zenon DEF RequestCollection, ListRecoverable, ListDue
  <2> QED BY <2>1, ReadsAside, AsideCare
<1>6. ASSUME NEW op \in scenario.operations, RequestLifecycle(w, op)
      PROVE  CareOf(w)'
  BY <1>6, RequestLifecycleAside, AsideCare
<1> QED BY <1>1, <1>2, <1>3, <1>4, <1>5, <1>6 DEF RequestStep

LEMMA RequestCharges ==
  ASSUME TypeOK, CollectionInv, Signing, OneCollector, Losses, \A v \in Requests : CareOf(v),
         NEW w \in Requests, RequestStep(w)
  PROVE  Signing' /\ OneCollector' /\ Losses' /\ \A v \in Requests : CareOf(v)'
<1>0. \A v \in Requests : HandOf(v)
  BY DEF CollectionInv, InHand
<1>1. Moves(w) /\ Discreet(w)
  BY RequestTypes, RequestHands DEF CollectionInv
<1>2. OneCollector'
  <2> SUFFICES ASSUME NEW u \in Requests, NEW v \in Requests, u # v, work'[u].own, work'[v].own
               PROVE  work'[u].a # work'[v].a
    BY DEF OneCollector
  <2>1. ASSUME NEW x \in Requests, x # w, work'[x].own, work'[w].own PROVE work'[x].a # work'[w].a
    <3>1. work'[x] = work[x] /\ attempt[work[x].a] # "none"
      BY <1>0, <1>1, <2>1, OthersStay DEF HandOf, AttemptSteps
    <3> QED BY <1>1, <2>1, <3>1 DEF Discreet, OneCollector
  <2>2. CASE u # w /\ v # w
    BY <1>1, <2>2, OthersStay DEF OneCollector
  <2> QED BY <2>1, <2>2
<1>3. Losses'
  <2> SUFFICES ASSUME NEW a \in Attempts
               PROVE  /\ age'[a] > 0 => Abandoned(a)'
                      /\ attempt'[a] = "failed" => Dead(a)'
    BY DEF Losses
  <2>1. age'[a] > 0 => Abandoned(a)'
    BY <1>1, AbandonedStays DEF Discreet, Losses
  <2>2. attempt'[a] = "failed" => Dead(a)
    BY <1>1 DEF Discreet, Losses, CareOf
  <2> QED BY <1>1, <2>1, <2>2, DeadStays
<1>4. ASSUME NEW v \in Requests, v # w PROVE CareOf(v)'
  <2>0. work'[v] = work[v] /\ CareOf(v) /\ HandOf(v) /\ HandOf(w)
    BY <1>0, <1>1, <1>4, OthersStay
  <2>1. work[v].pc \in MaySend =>
          ~sent'[work[v].a] /\ (work[v].pc # "send" => ~started'[work[v].a])
    <3> SUFFICES ASSUME work[v].pc \in MaySend
                 PROVE  ~sent'[work[v].a] /\ (work[v].pc # "send" => ~started'[work[v].a])
      OBVIOUS
    <3>1. work[v].a \in Attempts /\ work[v].own
      BY <2>0 DEF HandOf, AttemptSteps, MaySend, CollectSteps
    <3>2. work[w].pc \in {"start", "send"} => work[w].a # work[v].a
      BY <1>4, <2>0, <3>1 DEF OneCollector, HandOf, MaySend
    <3> QED BY <1>1, <2>0, <3>1, <3>2 DEF Discreet, CareOf
  <2>2. work[v].pc = "transfer" /\ work[v].stale => \A a \in Attempts : a = work[v].a => Abandoned(a)'
    BY <1>1, <2>0, AbandonedStays DEF CareOf
  <2>3. work[v].pc = "fail" => \A a \in Attempts : a = work[v].a => Dead(a)'
    BY <1>1, <2>0, DeadStays DEF CareOf
  <2>4. work[v].pc \in {"transfer", "fail"} => work[v].a \in Attempts
    BY <2>0 DEF HandOf, AttemptSteps, CollectSteps
  <2> QED BY <2>0, <2>1, <2>2, <2>3, <2>4 DEF CareOf, Dead, Abandoned
<1>5. CareOf(w)'
  BY <1>1, RequestCare
<1> QED BY <1>1, <1>2, <1>3, <1>4, <1>5, SigningStep

LEMMA WorldCharges ==
  ASSUME TypeOK, CollectionInv, Signing, OneCollector, Losses, \A v \in Requests : CareOf(v),
         ~scenario.stalls, WorldStep
  PROVE  Signing' /\ OneCollector' /\ Losses' /\ \A v \in Requests : CareOf(v)'
<1>0. RowType /\ WorkType /\ \A v \in Requests : HandOf(v)
  BY TypeParts DEF CollectionInv, InHand
<1>1. RowsAdvance /\ work' = work /\ UNCHANGED <<attempt, signed, started, sent>>
  BY WorldHands
<1>2. Signing' /\ OneCollector'
  BY <1>1 DEF Signing, OneCollector
<1>3. \A a \in Attempts : (Dead(a) => Dead(a)') /\ (Abandoned(a) => Abandoned(a)')
  BY <1>1 DEF RowsAdvance, Dead, Abandoned
<1>4. \A a \in Attempts : age'[a] > 0 => age[a] > 0 \/ Abandoned(a)
  <2>1. ASSUME NEW b \in Attempts, AttemptAges(b), NEW a \in Attempts, age'[a] > 0
        PROVE  age[a] > 0 \/ Abandoned(a)
    BY <1>0, <2>1 DEF AttemptAges, RowType, Abandoned
  <2>2. CASE UNCHANGED age
    BY <2>2
  <2>3. \/ UNCHANGED age \/ \E b \in Attempts : AttemptAges(b)
    BY Zenon DEF WorldStep, TrackTransfer, Lands, Expires, ForkDropped, LandsElsewhere,
       DueDatePasses, PaymentAges, attempts
  <2> QED BY <2>1, <2>2, <2>3
<1>5. Losses'
  BY <1>1, <1>3, <1>4 DEF Losses
<1>6. ASSUME NEW v \in Requests PROVE CareOf(v)'
  <2>1. work[v].pc \in {"transfer", "fail"} => work[v].a \in Attempts
    BY <1>0 DEF HandOf, AttemptSteps, CollectSteps
  <2>2. CareOf(v)
    OBVIOUS
  <2>3. work[v].pc = "transfer" /\ work[v].stale => \A a \in Attempts : a = work[v].a => Abandoned(a)'
    BY <1>3, <2>2 DEF CareOf
  <2>4. work[v].pc = "fail" => \A a \in Attempts : a = work[v].a => Dead(a)'
    BY <1>3, <2>2 DEF CareOf
  <2> QED BY <1>1, <2>1, <2>2, <2>3, <2>4 DEF CareOf, Dead, Abandoned
<1> QED BY <1>2, <1>5, <1>6

LEMMA ScenarioStays ==
  ASSUME TypeOK, CollectionInv, [Next]_vars
  PROVE  scenario' = scenario
<1>1. ASSUME NEW w \in Requests, RequestStep(w) PROVE scenario' = scenario
  <2>1. CASE RecoverStep(w)
    BY <2>1, Zenon DEF RecoverStep, GetCollectionAttemptByDue, GetTransferById, ProveCollection,
       world
  <2>2. CASE CollectStep(w)
    BY <2>2, Zenon DEF CollectStep, FailCollection, CreateCollectionAttempt, EnforcePolicy,
       LinkTransfer, UpdateDestinationTokenAccount, PersistSigned, MarkStarted, SendTransaction,
       RecordSignature, ConfirmCollection, JournalSignature, FinalizeCollection, world
  <2>3. CASE LifecycleStep(w)
    BY <2>3, Zenon DEF LifecycleStep, ClaimLifecycle, GetOrCreateLifecycleAttempt,
       SubmitLifecycle, RecordLifecycleSignature, ConfirmLifecycle, FinalizeLifecycle,
       FailLifecycleRow, ResetLifecycleClaim, world
  <2>4. CASE \/ RequestCollection(w) \/ ListRecoverable(w) \/ ListDue(w) \/ Crash(w)
             \/ \E op \in scenario.operations : RequestLifecycle(w, op)
    BY <2>4, Zenon DEF RequestCollection, ListRecoverable, ListDue, Crash, RequestLifecycle, world
  <2> QED BY <1>1, <2>1, <2>2, <2>3, <2>4 DEF RequestStep
<1>2. CASE UNCHANGED vars
  BY <1>2 DEF vars, world
<1> QED BY <1>1, <1>2, Steps, WorldHands

LEMMA ChargeInit == Init => ChargeInv
BY DEF Init, ChargeInv, Signing, OneCollector, Losses, CareOf, Idle, MaySend

LEMMA ChargeNext ==
  ASSUME TypeOK, CollectionInv, ChargeInv, [Next]_vars
  PROVE  ChargeInv'
<1>1. scenario' = scenario
  BY ScenarioStays
<1> SUFFICES ASSUME ~scenario.stalls
             PROVE  (Signing /\ OneCollector /\ Losses /\ \A w \in Requests : CareOf(w))'
  BY <1>1 DEF ChargeInv
<1>2. Signing /\ OneCollector /\ Losses /\ \A w \in Requests : CareOf(w)
  BY DEF ChargeInv
<1>3. ASSUME NEW w \in Requests, RequestStep(w)
      PROVE  (Signing /\ OneCollector /\ Losses /\ \A v \in Requests : CareOf(v))'
  BY <1>2, <1>3, RequestCharges
<1>4. CASE WorldStep
  BY <1>2, <1>4, WorldCharges
<1>5. CASE UNCHANGED vars
  <2>1. UNCHANGED <<attempt, age, signed, started, sent, landed, forked, work>>
    BY <1>5 DEF vars, attempts, world, chain
  <2> QED BY <1>2, <2>1 DEF Signing, OneCollector, Losses, CareOf, Dead, Abandoned
<1> QED BY <1>3, <1>4, <1>5, Steps

(* Two attempts of a period that are both on chain are both active, which  *)
(* the unique index forbids: a failed one was never sent, or failed there, *)
(* or on a fork.                                                           *)
LEMMA ChargedOnce ==
  ASSUME TypeOK, CollectionInv, ChargeInv
  PROVE  OneChargePerPeriod
<1> SUFFICES ASSUME ~scenario.stalls, NEW a \in Attempts, NEW b \in Attempts, a # b,
                    landed[a] = "ok", landed[b] = "ok", ~forked[a], ~forked[b]
             PROVE  adue[a] # adue[b]
  BY DEF OneChargePerPeriod
<1>1. RowInv /\ Losses
  BY DEF CollectionInv, ChargeInv
<1>2. sent[a] /\ sent[b]
  BY <1>1 DEF RowInv, Marks
<1>3. attempt[a] \notin {"none", "failed"} /\ attempt[b] \notin {"none", "failed"}
  BY <1>1, <1>2 DEF RowInv, Fresh, Losses, Dead
<1>4. attempt[a] \in {"processing", "confirmed"} /\ attempt[b] \in {"processing", "confirmed"}
  BY <1>3, TypeParts DEF RowType
<1> QED BY <1>1, <1>4 DEF RowInv, OneActive

(* However many requests and cron passes collect, recover and retry a due  *)
(* period, and wherever they stop, it is charged at most once, as long as  *)
(* none stands still until it is taken for dead, and apart from charges    *)
(* whose error was seen on a fork that is gone (collectRecurringPayment,   *)
(* recoverRecurringPaymentCollection, createCollectionAttempt).            *)
THEOREM ChargesOnce == Spec => []OneChargePerPeriod
<1>1. TypeOK /\ CollectionInv /\ ChargeInv /\ [Next]_vars => ChargeInv'
  BY ChargeNext
<1>2. TypeOK /\ CollectionInv /\ ChargeInv => OneChargePerPeriod
  BY ChargedOnce
<1> QED BY <1>1, <1>2, ChargeInit, Collections, PTL DEF Spec

-----------------------------------------------------------------------------
(* Canceled payments *)

(* The step of a request that has and takes no claim. *)
Uninvolved(w) ==
  /\ UNCHANGED <<status, onchain, life, orphaned>> /\ (old' => old)
  /\ work[w].pc \notin Claimed /\ work'[w].pc \notin Claimed

LEMMA UninvolvedClaims ==
  ASSUME TypeOK, Claims, NEW w \in Requests, Moves(w), Uninvolved(w)
  PROVE  Claims'
<1>0. PaymentType /\ \A v \in Requests : v # w => work'[v] = work[v]
  BY OthersStay, TypeParts
<1>1. OneClaim'
  BY <1>0 DEF Claims, OneClaim, Uninvolved
<1>2. ASSUME NEW v \in Requests PROVE ClaimOf(v)'
  <2>1. CASE v = w
    BY <2>1 DEF ClaimOf, Uninvolved
  <2>2. CASE v # w
    BY <1>0, <2>2 DEF Claims, ClaimOf, Reached, Uninvolved
  <2> QED BY <2>1, <2>2
<1>3. \A op \in {"cancel", "resume"} : RowOf(op)'
  BY DEF Claims, RowOf, Reached, Uninvolved
<1>4. Undone'
  <2>1. ASSUME NEW v \in Requests, work[v].pc = "recordSignature"
        PROVE  work'[v] = work[v]
    BY <1>0, <2>1 DEF Uninvolved, Claimed, LifecycleSteps
  <2> QED BY <2>1 DEF Claims, Undone, Reached, Uninvolved
<1> QED BY <1>1, <1>2, <1>3, <1>4 DEF Claims

(* Other requests hold no claim beside the one that does. *)
LEMMA Alone ==
  ASSUME Claims, NEW w \in Requests, work[w].pc \in Claimed
  PROVE  /\ \A v \in Requests : v # w => work[v].pc \notin Claimed
         /\ \A v \in Requests : work[v].pc = "recordSignature" => v = w
BY DEF Claims, OneClaim, Claimed, LifecycleSteps

LEMMA HolderClaims ==
  ASSUME TypeOK, NEW w \in Requests, Moves(w),
         \A v \in Requests : v # w => work[v].pc \notin Claimed,
         ClaimOf(w)', Undone', \A op \in {"cancel", "resume"} : RowOf(op)'
  PROVE  Claims'
<1>1. \A v \in Requests : v # w => work'[v].pc \notin Claimed
  BY OthersStay
<1>2. OneClaim'
  BY <1>1 DEF OneClaim
<1>3. \A v \in Requests : ClaimOf(v)'
  BY <1>1 DEF ClaimOf
<1> QED BY <1>2, <1>3 DEF Claims

LEMMA Operation ==
  ASSUME TypeOK, CollectionInv, NEW w \in Requests, work[w].pc \in LifecycleSteps
  PROVE  work[w].kind \in {"cancel", "resume"}
<1>1. WorkType /\ HandOf(w)
  BY TypeParts DEF CollectionInv, InHand
<1> QED BY <1>1 DEF HandOf, WorkType, WorkRecords, Kinds

LEMMA ClaimLifecycleClaims ==
  ASSUME TypeOK, CollectionInv, Claims, NEW w \in Requests, ClaimLifecycle(w), Moves(w)
  PROVE  Claims'
<1>0. PaymentType /\ LifeType /\ WorkType
  BY TypeParts
<1>p. work[w].pc = "claim" /\ work[w].pc \notin Claimed
  BY DEF ClaimLifecycle, At, Claimed
<1>k. work[w].kind \in {"cancel", "resume"}
  BY <1>p, Operation DEF LifecycleSteps
<1>e. UNCHANGED <<onchain, life, orphaned>>
  BY Zenon DEF ClaimLifecycle, world, chain, lifecycle
<1>1. CASE Leaves(w) /\ UNCHANGED <<status, old>>
  BY <1>0, <1>e, <1>p, <1>1, LeavesView, UninvolvedClaims
     DEF Uninvolved, Rested, Claimed, LifecycleSteps
<1>2. CASE /\ status = Claimable(work[w].kind) \/ (status = Processing(work[w].kind) /\ old)
           /\ status' = Processing(work[w].kind) /\ old' = FALSE /\ Goto(w, "row")
  <2>1. \A v \in Requests : work[v].pc \notin Claimed
    BY <1>0, <1>k, <1>2 DEF Claims, ClaimOf, Claimable, Processing
  <2>2. Same(w) /\ work'[w].pc = "row"
    BY <1>0, <1>2, GotoView
  <2>3. ClaimOf(w)'
    BY <1>2, <2>2 DEF ClaimOf, Same
  <2>4. \A op \in {"cancel", "resume"} : RowOf(op)'
    BY <1>0, <1>k, <1>e, <1>2 DEF Claims, RowOf, Reached, Claimable, Processing
  <2>5. \A v \in Requests : work[v].pc # "recordSignature"
    BY <2>1 DEF Claimed, LifecycleSteps
  <2>6. Undone'
    BY <1>0, <1>k, <1>e, <1>2, <2>5 DEF Claims, Undone, Reached, Claimable, Processing
  <2> QED BY <2>1, <2>3, <2>4, <2>6, HolderClaims
<1> QED BY <1>1, <1>2, Zenon DEF ClaimLifecycle

LEMMA GetOrCreateLifecycleAttemptClaims ==
  ASSUME TypeOK, CollectionInv, Claims, NEW w \in Requests, GetOrCreateLifecycleAttempt(w), Moves(w)
  PROVE  Claims'
<1>0. /\ PaymentType /\ LifeType /\ WorkType /\ ClaimOf(w) /\ Undone
      /\ \A op \in {"cancel", "resume"} : RowOf(op)
  BY TypeParts DEF Claims
<1>p. work[w].pc = "row" /\ work[w].pc \in Claimed
  BY DEF GetOrCreateLifecycleAttempt, At, Claimed, LifecycleSteps
<1>k. work[w].kind \in {"cancel", "resume"} /\ status = Processing(work[w].kind)
  BY <1>0, <1>p, Operation DEF ClaimOf, LifecycleSteps
<1>a. /\ \A v \in Requests : v # w => work[v].pc \notin Claimed
      /\ \A v \in Requests : work[v].pc = "recordSignature" => v = w
  BY <1>p, Alone
<1>e. UNCHANGED <<status, old, onchain, orphaned>>
  BY Zenon DEF GetOrCreateLifecycleAttempt, payment, world, chain
<1>c. \/ /\ life[work[w].kind].processing /\ life' = life
         /\ Same(w) /\ work'[w].row = life[work[w].kind].n /\ work'[w].sig = life[work[w].kind].sig
         /\ \/ work'[w].pc = "submit" /\ life[work[w].kind].sig = "none"
            \/ work'[w].pc = "confirmSignature"
      \/ /\ ~life[work[w].kind].processing
         /\ life' = [life EXCEPT ![work[w].kind] = [n |-> @.n + 1, processing |-> TRUE, sig |-> "none"]]
         /\ Same(w) /\ work'[w].pc = "submit" /\ work'[w].row = life[work[w].kind].n + 1
      \/ /\ ~life[work[w].kind].processing /\ life' = life
         /\ Same(w) /\ work'[w].pc = "unclaim"
  <2>1. CASE life[work[w].kind].processing
    <3> DEFINE pc == IF life[work[w].kind].sig = "none" THEN "submit" ELSE "confirmSignature"
    <3>1. /\ \E n, t, q : /\ n = life[work[w].kind].n /\ t = life[work[w].kind].sig /\ q = pc
                          /\ Becomes(w, [work[w] EXCEPT !.row = n, !.sig = t, !.pc = q])
          /\ life' = life
      BY <2>1, Zenon DEF GetOrCreateLifecycleAttempt
    <3> HIDE DEF pc
    <3>2. /\ Same(w) /\ work'[w].row = life[work[w].kind].n
          /\ work'[w].sig = life[work[w].kind].sig /\ work'[w].pc = pc
      BY <1>0, <3>1, ResumesView, Zenon
    <3> QED BY <2>1, <3>1, <3>2 DEF pc
  <2>2. ASSUME NEW n, Becomes(w, [work[w] EXCEPT !.pc = "submit", !.row = n])
        PROVE  Same(w) /\ work'[w].pc = "submit" /\ work'[w].row = n
    BY <1>0, <2>2, RowView, Zenon
  <2>3. Goto(w, "unclaim") => Same(w) /\ work'[w].pc = "unclaim"
    BY <1>0, GotoView, Zenon
  <2>4. CASE ~life[work[w].kind].processing
    BY <2>2, <2>3, <2>4, Zenon DEF GetOrCreateLifecycleAttempt
  <2> QED BY <2>1, <2>4
<1>1. ClaimOf(w)'
  BY <1>0, <1>p, <1>k, <1>e, <1>c DEF ClaimOf, RowOf, Reached, Same, LifeType, LifeRecords
<1>2. Undone'
  BY <1>0, <1>p, <1>k, <1>a, <1>e, <1>c DEF Undone, Reached, Processing, LifeType, LifeRecords
<1>3. \A op \in {"cancel", "resume"} : RowOf(op)'
  BY <1>0, <1>k, <1>e, <1>c DEF RowOf, Reached, Processing, LifeType, LifeRecords
<1> QED BY <1>a, <1>1, <1>2, <1>3, HolderClaims

LEMMA SubmitLifecycleClaims ==
  ASSUME TypeOK, CollectionInv, Claims, NEW w \in Requests, SubmitLifecycle(w), Moves(w)
  PROVE  Claims'
<1>0. /\ PaymentType /\ LifeType /\ WorkType /\ ClaimOf(w) /\ Undone
      /\ \A op \in {"cancel", "resume"} : RowOf(op)
  BY TypeParts DEF Claims
<1>p. work[w].pc = "submit" /\ work[w].pc \in Claimed
  BY DEF SubmitLifecycle, At, Claimed, LifecycleSteps
<1>k. work[w].kind \in {"cancel", "resume"} /\ status = Processing(work[w].kind)
  BY <1>0, <1>p, Operation DEF ClaimOf, LifecycleSteps
<1>a. /\ \A v \in Requests : v # w => work[v].pc \notin Claimed
      /\ \A v \in Requests : work[v].pc = "recordSignature" => v = w
  BY <1>p, Alone
<1>e. UNCHANGED <<status, old, life>>
  BY Zenon DEF SubmitLifecycle, payment
<1>c. /\ Same(w) /\ work'[w].row = work[w].row
      /\ \/ work'[w].pc = "failRow" /\ UNCHANGED <<onchain, orphaned>>
         \/ /\ work'[w].pc = "failRow" /\ onchain' = Final(work[w].kind)
            /\ orphaned' = (orphaned \/ work[w].kind = "resume")
         \/ /\ work'[w].pc = "recordSignature" /\ orphaned' = orphaned
            /\ onchain' = IF work'[w].sig = "ok" THEN Final(work[w].kind) ELSE onchain
  <2>1. ASSUME NEW t, Becomes(w, [work[w] EXCEPT !.pc = "recordSignature", !.sig = t])
        PROVE  /\ Same(w) /\ work'[w].row = work[w].row
               /\ work'[w].pc = "recordSignature" /\ work'[w].sig = t
    BY <1>0, <2>1, SubmitsView, Zenon
  <2>2. Goto(w, "failRow") => Same(w) /\ work'[w].row = work[w].row /\ work'[w].pc = "failRow"
    BY <1>0, GotoView, Zenon
  <2> QED BY <2>1, <2>2, Zenon DEF SubmitLifecycle
<1>1. ClaimOf(w)'
  BY <1>0, <1>p, <1>k, <1>e, <1>c DEF ClaimOf, Reached, Same
<1>2. Undone'
  <2>1. CASE work[w].kind = "cancel"
    BY <1>k, <1>e, <2>1 DEF Undone, Processing
  <2>2. CASE work[w].kind = "resume"
    <3>1. \/ Reached("cancel")
          \/ life["resume"].processing /\ life["resume"].sig = "ok"
      BY <1>0, <1>p, <1>k, <1>a, <2>2 DEF Undone, Processing
    <3>2. status' = "resuming"
      BY <1>k, <1>e, <2>2 DEF Processing
    <3>3. CASE work'[w].pc = "recordSignature" /\ work'[w].sig = "ok"
      BY <3>2, <3>3 DEF Undone
    <3>4. CASE UNCHANGED <<onchain, orphaned>>
      BY <1>e, <3>1, <3>2, <3>4 DEF Undone, Reached
    <3>5. CASE orphaned'
      BY <3>2, <3>5 DEF Undone, Reached
    <3> QED BY <1>c, <2>2, <3>3, <3>4, <3>5
  <2> QED BY <1>k, <2>1, <2>2
<1>3. \A op \in {"cancel", "resume"} : RowOf(op)'
  BY <1>0, <1>p, <1>k, <1>e, <1>c DEF RowOf, ClaimOf, Reached, Processing
<1> QED BY <1>a, <1>1, <1>2, <1>3, HolderClaims

LEMMA RecordLifecycleSignatureClaims ==
  ASSUME TypeOK, CollectionInv, Claims, NEW w \in Requests, RecordLifecycleSignature(w), Moves(w)
  PROVE  Claims'
<1>0. /\ PaymentType /\ LifeType /\ WorkType /\ ClaimOf(w) /\ Undone
      /\ \A op \in {"cancel", "resume"} : RowOf(op)
  BY TypeParts DEF Claims
<1>p. work[w].pc = "recordSignature" /\ work[w].pc \in Claimed
  BY DEF RecordLifecycleSignature, At, Claimed, LifecycleSteps
<1>k. work[w].kind \in {"cancel", "resume"} /\ status = Processing(work[w].kind)
  BY <1>0, <1>p, Operation DEF ClaimOf, LifecycleSteps
<1>a. /\ \A v \in Requests : v # w => work[v].pc \notin Claimed
      /\ \A v \in Requests : work[v].pc = "recordSignature" => v = w
  BY <1>p, Alone
<1>e. UNCHANGED <<status, old, onchain>>
  BY Zenon DEF RecordLifecycleSignature, payment, world, chain
<1>r. work[w].row = life[work[w].kind].n /\ life[work[w].kind].processing
      /\ life[work[w].kind].sig = "none"
  BY <1>0, <1>p DEF ClaimOf
<1>c. /\ \/ /\ life' = [life EXCEPT ![work[w].kind].sig =
                          IF life[work[w].kind].n = work[w].row THEN work[w].sig ELSE @]
            /\ orphaned' = orphaned
         \/ /\ life' = life
            /\ orphaned' = (orphaned \/ (work[w].kind = "resume" /\ work[w].sig = "ok"))
      /\ \/ Rested(w)
         \/ /\ Same(w) /\ work'[w].pc = "confirmSignature"
            /\ work'[w].row = work[w].row /\ work'[w].sig = work[w].sig
  BY <1>0, GotoView, LeavesView, Zenon DEF RecordLifecycleSignature
<1>1. ClaimOf(w)'
  BY <1>0, <1>p, <1>k, <1>e, <1>r, <1>c
     DEF ClaimOf, Reached, Same, Rested, Claimed, LifecycleSteps, LifeType, LifeRecords
<1>2. Undone'
  BY <1>0, <1>p, <1>k, <1>a, <1>e, <1>r, <1>c DEF Undone, Reached, Processing, LifeType, LifeRecords
<1>3. \A op \in {"cancel", "resume"} : RowOf(op)'
  BY <1>0, <1>p, <1>k, <1>e, <1>r, <1>c
     DEF RowOf, ClaimOf, Reached, Processing, LifeType, LifeRecords
<1> QED BY <1>a, <1>1, <1>2, <1>3, HolderClaims

LEMMA ConfirmLifecycleClaims ==
  ASSUME TypeOK, CollectionInv, Claims, NEW w \in Requests, ConfirmLifecycle(w), Moves(w)
  PROVE  Claims'
<1>0. /\ PaymentType /\ LifeType /\ WorkType /\ ClaimOf(w) /\ Undone
      /\ \A op \in {"cancel", "resume"} : RowOf(op)
  BY TypeParts DEF Claims
<1>p. work[w].pc = "confirmSignature" /\ work[w].pc \in Claimed
  BY DEF ConfirmLifecycle, At, Claimed, LifecycleSteps
<1>k. work[w].kind \in {"cancel", "resume"} /\ status = Processing(work[w].kind)
  BY <1>0, <1>p, Operation DEF ClaimOf, LifecycleSteps
<1>a. /\ \A v \in Requests : v # w => work[v].pc \notin Claimed
      /\ \A v \in Requests : work[v].pc = "recordSignature" => v = w
  BY <1>p, Alone
<1>e. UNCHANGED <<status, old, onchain, life, orphaned>>
  BY Zenon DEF ConfirmLifecycle, payment, world, chain, lifecycle
<1>c. \/ Rested(w)
      \/ /\ Same(w) /\ work'[w].row = work[w].row /\ work'[w].sig = work[w].sig
         /\ \/ work[w].sig = "err" /\ work'[w].pc = "failRow"
            \/ work[w].sig = "ok" /\ work'[w].pc = "finish"
  BY <1>0, GotoView, LeavesView, Zenon DEF ConfirmLifecycle
<1>1. ClaimOf(w)'
  BY <1>0, <1>p, <1>e, <1>c DEF ClaimOf, Reached, Same, Rested, Claimed, LifecycleSteps
<1>2. Undone'
  BY <1>0, <1>p, <1>a, <1>e DEF Undone, Reached
<1>3. \A op \in {"cancel", "resume"} : RowOf(op)'
  BY <1>0, <1>e DEF RowOf, Reached
<1> QED BY <1>a, <1>1, <1>2, <1>3, HolderClaims

LEMMA FinalizeLifecycleClaims ==
  ASSUME TypeOK, CollectionInv, Claims, NEW w \in Requests, FinalizeLifecycle(w), Moves(w)
  PROVE  Claims'
<1>0. /\ PaymentType /\ LifeType /\ WorkType /\ ClaimOf(w) /\ Undone
      /\ \A op \in {"cancel", "resume"} : RowOf(op)
  BY TypeParts DEF Claims
<1>p. work[w].pc = "finish" /\ work[w].pc \in Claimed
  BY DEF FinalizeLifecycle, At, Claimed, LifecycleSteps
<1>k. work[w].kind \in {"cancel", "resume"} /\ status = Processing(work[w].kind)
  BY <1>0, <1>p, Operation DEF ClaimOf, LifecycleSteps
<1>a. /\ \A v \in Requests : v # w => work[v].pc \notin Claimed
      /\ \A v \in Requests : work[v].pc = "recordSignature" => v = w
  BY <1>p, Alone
<1>e. UNCHANGED <<onchain, orphaned>> /\ Rested(w)
  BY <1>0, LeavesView, Zenon DEF FinalizeLifecycle, world, chain
<1>c. /\ status' = Final(work[w].kind)
      /\ life' = [life EXCEPT ![work[w].kind].processing = @ /\ life[work[w].kind].n # work[w].row]
  BY <1>k, Zenon DEF FinalizeLifecycle
<1>r. work[w].row = life[work[w].kind].n /\ Reached(work[w].kind)
  BY <1>0, <1>p DEF ClaimOf
<1>1. ClaimOf(w)'
  BY <1>e DEF ClaimOf, Rested, Claimed, LifecycleSteps
<1>2. Undone'
  BY <1>k, <1>e, <1>c, <1>r DEF Undone, Reached, Final
<1>3. \A op \in {"cancel", "resume"} : RowOf(op)'
  BY <1>0, <1>k, <1>c, <1>r DEF RowOf, Processing, LifeType, LifeRecords
<1> QED BY <1>a, <1>1, <1>2, <1>3, HolderClaims

LEMMA FailLifecycleRowClaims ==
  ASSUME TypeOK, CollectionInv, Claims, NEW w \in Requests, FailLifecycleRow(w), Moves(w)
  PROVE  Claims'
<1>0. /\ PaymentType /\ LifeType /\ WorkType /\ ClaimOf(w) /\ Undone
      /\ \A op \in {"cancel", "resume"} : RowOf(op)
  BY TypeParts DEF Claims
<1>p. work[w].pc = "failRow" /\ work[w].pc \in Claimed
  BY DEF FailLifecycleRow, At, Claimed, LifecycleSteps
<1>k. work[w].kind \in {"cancel", "resume"} /\ status = Processing(work[w].kind)
  BY <1>0, <1>p, Operation DEF ClaimOf, LifecycleSteps
<1>a. /\ \A v \in Requests : v # w => work[v].pc \notin Claimed
      /\ \A v \in Requests : work[v].pc = "recordSignature" => v = w
  BY <1>p, Alone
<1>e. UNCHANGED <<status, old, onchain, orphaned>> /\ Same(w) /\ work'[w].pc = "unclaim"
  BY <1>0, GotoView, Zenon DEF FailLifecycleRow, payment, world, chain
<1>c. life' = [life EXCEPT ![work[w].kind].processing = @ /\ life[work[w].kind].n # work[w].row]
  BY Zenon DEF FailLifecycleRow
<1>r. work[w].row = life[work[w].kind].n /\ life[work[w].kind].sig # "ok"
  BY <1>0, <1>p DEF ClaimOf
<1>1. ClaimOf(w)'
  BY <1>0, <1>p, <1>k, <1>e, <1>c, <1>r DEF ClaimOf, Same, LifeType, LifeRecords
<1>2. Undone'
  BY <1>0, <1>p, <1>k, <1>a, <1>e, <1>r DEF Undone, Reached, Processing
<1>3. \A op \in {"cancel", "resume"} : RowOf(op)'
  BY <1>0, <1>k, <1>e, <1>c, <1>r DEF RowOf, Reached, Processing, LifeType, LifeRecords
<1> QED BY <1>a, <1>1, <1>2, <1>3, HolderClaims

LEMMA ResetLifecycleClaimClaims ==
  ASSUME TypeOK, CollectionInv, Claims, NEW w \in Requests, ResetLifecycleClaim(w), Moves(w)
  PROVE  Claims'
<1>0. /\ PaymentType /\ LifeType /\ WorkType /\ ClaimOf(w) /\ Undone
      /\ \A op \in {"cancel", "resume"} : RowOf(op)
  BY TypeParts DEF Claims
<1>p. work[w].pc = "unclaim" /\ work[w].pc \in Claimed
  BY DEF ResetLifecycleClaim, At, Claimed, LifecycleSteps
<1>k. work[w].kind \in {"cancel", "resume"} /\ status = Processing(work[w].kind)
  BY <1>0, <1>p, Operation DEF ClaimOf, LifecycleSteps
<1>a. /\ \A v \in Requests : v # w => work[v].pc \notin Claimed
      /\ \A v \in Requests : work[v].pc = "recordSignature" => v = w
  BY <1>p, Alone
<1>e. UNCHANGED <<onchain, life, orphaned>> /\ Rested(w)
  BY <1>0, LeavesView, Zenon DEF ResetLifecycleClaim, world, chain, lifecycle
<1>c. status' = Claimable(work[w].kind)
  BY <1>k, Zenon DEF ResetLifecycleClaim
<1>r. ~life[work[w].kind].processing
  BY <1>0, <1>p DEF ClaimOf
<1>1. ClaimOf(w)'
  BY <1>e DEF ClaimOf, Rested, Claimed, LifecycleSteps
<1>2. Undone'
  BY <1>0, <1>p, <1>k, <1>a, <1>e, <1>c, <1>r DEF Undone, Reached, Processing, Claimable
<1>3. \A op \in {"cancel", "resume"} : RowOf(op)'
  BY <1>0, <1>k, <1>e, <1>r DEF RowOf, Processing
<1> QED BY <1>a, <1>1, <1>2, <1>3, HolderClaims

LEMMA CrashClaims ==
  ASSUME TypeOK, CollectionInv, Claims, NEW w \in Requests, Crash(w), Moves(w)
  PROVE  Claims'
<1>0. /\ PaymentType /\ WorkType /\ Undone /\ ClaimOf(w)
      /\ \A op \in {"cancel", "resume"} : RowOf(op)
  BY TypeParts DEF Claims
<1>1. work'[w].pc = "idle"
  BY CrashAside
<1>2. /\ UNCHANGED <<status, old, onchain, life>>
      /\ orphaned' = (orphaned \/ (/\ work[w].pc = "recordSignature" /\ work[w].sig = "ok"
                                   /\ work[w].kind = "resume"))
  BY Zenon DEF Crash, At, payment, world, chain
<1>3. CASE work[w].pc \in Claimed
  <2>1. /\ \A v \in Requests : v # w => work[v].pc \notin Claimed
        /\ \A v \in Requests : work[v].pc = "recordSignature" => v = w
    BY <1>3, Alone
  <2>2. ClaimOf(w)'
    BY <1>1 DEF ClaimOf, Claimed, LifecycleSteps
  <2>k. work[w].kind \in {"cancel", "resume"} /\ status = Processing(work[w].kind)
    BY <1>0, <1>3, Operation DEF ClaimOf, Claimed
  <2>3. Undone'
    BY <1>0, <1>2, <2>1, <2>k DEF Undone, Reached, Processing
  <2>4. \A op \in {"cancel", "resume"} : RowOf(op)'
    BY <1>0, <1>2 DEF RowOf, Reached
  <2> QED BY <2>1, <2>2, <2>3, <2>4, HolderClaims
<1>4. CASE work[w].pc \notin Claimed
  <2>1. work[w].pc # "recordSignature"
    BY <1>4 DEF Claimed, LifecycleSteps
  <2>2. orphaned' = orphaned
    BY <1>0, <1>2, <2>1 DEF PaymentType
  <2> QED BY <1>1, <1>2, <1>4, <2>2, UninvolvedClaims DEF Uninvolved, Claimed, LifecycleSteps
<1> QED BY <1>3, <1>4

LEMMA LifecycleClaims ==
  ASSUME TypeOK, CollectionInv, Claims, NEW w \in Requests, LifecycleStep(w)
  PROVE  Claims'
<1>1. Moves(w)
  BY LifecycleAside DEF CollectionInv
<1> QED BY <1>1, ClaimLifecycleClaims, GetOrCreateLifecycleAttemptClaims, SubmitLifecycleClaims,
           RecordLifecycleSignatureClaims, ConfirmLifecycleClaims, FinalizeLifecycleClaims,
           FailLifecycleRowClaims, ResetLifecycleClaimClaims DEF LifecycleStep

(* Collections and recoveries neither have nor take a claim. *)
LEMMA CollectionUninvolved ==
  ASSUME TypeOK, CollectionInv, NEW w \in Requests, RecoverStep(w) \/ CollectStep(w)
  PROVE  Uninvolved(w)
<1>0. WorkType /\ HandOf(w) /\ HandOf(w)'
  BY TypeParts, RequestHands DEF CollectionInv, InHand, RequestStep
<1>1. UNCHANGED <<status, onchain, life, orphaned>>
  <2>1. CASE RecoverStep(w)
    BY <2>1, Zenon DEF RecoverStep, GetCollectionAttemptByDue, GetTransferById, ProveCollection,
       payment, world, chain, lifecycle
  <2>2. CASE CollectStep(w)
    BY <2>2, Zenon DEF CollectStep, FailCollection, CreateCollectionAttempt, EnforcePolicy,
       LinkTransfer, UpdateDestinationTokenAccount, PersistSigned, MarkStarted, SendTransaction,
       RecordSignature, ConfirmCollection, JournalSignature, FinalizeCollection, payment, world,
       chain, lifecycle
  <2> QED BY <2>1, <2>2
<1>2. old' => old
  <2>1. CASE FinalizeCollection(w)
    BY <2>1, Zenon DEF FinalizeCollection
  <2>2. CASE RecoverStep(w)
    BY <2>2, Zenon DEF RecoverStep, GetCollectionAttemptByDue, GetTransferById, ProveCollection,
       payment
  <2>3. CASE CollectStep(w) /\ ~FinalizeCollection(w)
    BY <2>3, Zenon DEF CollectStep, FailCollection, CreateCollectionAttempt, EnforcePolicy,
       LinkTransfer, UpdateDestinationTokenAccount, PersistSigned, MarkStarted, SendTransaction,
       RecordSignature, ConfirmCollection, JournalSignature, payment
  <2> QED BY <2>1, <2>2, <2>3
<1>3. work[w].pc \in CollectSteps \cup RecoverySteps \cup {"create"}
  <2>1. CASE RecoverStep(w)
    <3>1. \/ work[w].pc = "recover" \/ work[w].pc = "transfer" \/ work[w].pc = "prove"
      BY <2>1, Zenon DEF RecoverStep, GetCollectionAttemptByDue, GetTransferById,
         ProveCollection, At
    <3> QED BY <3>1 DEF RecoverySteps
  <2>2. CASE CollectStep(w)
    <3>1. \/ work[w].pc = "fail" \/ work[w].pc = "create" \/ work[w].pc = "policy"
          \/ work[w].pc = "link" \/ work[w].pc = "destination" \/ work[w].pc = "sign"
          \/ work[w].pc = "start" \/ work[w].pc = "send" \/ work[w].pc = "record"
          \/ work[w].pc = "confirm" \/ work[w].pc = "journal" \/ work[w].pc = "finalize"
      BY <2>2, Zenon DEF CollectStep, FailCollection, CreateCollectionAttempt, EnforcePolicy,
         LinkTransfer, UpdateDestinationTokenAccount, PersistSigned, MarkStarted,
         SendTransaction, RecordSignature, ConfirmCollection, JournalSignature,
         FinalizeCollection, At
    <3> QED BY <3>1 DEF CollectSteps
  <2> QED BY <2>1, <2>2
<1>4. work'[w].pc \notin Claimed
  <2>1. \A pc : Goto(w, pc) => work'[w].pc = pc
    BY <1>0, GotoView, Zenon
  <2>2. Leaves(w) => work'[w].pc = "idle"
    BY <1>0, LeavesView, Zenon DEF Rested
  <2>3. \A pc, t : Becomes(w, [work[w] EXCEPT !.pc = pc, !.transfer = t]) => work'[w].pc = pc
    BY <1>0, LearnsView, Zenon
  <2>4. Becomes(w, [work[w] EXCEPT !.pc = "fail", !.linked = FALSE]) => work'[w].pc = "fail"
    BY <1>0, FailsView, Zenon
  <2>5. CASE RecoverStep(w)
    <3>1. GetCollectionAttemptByDue(w) => work'[w].pc \notin Claimed
      BY <1>0, FindsView DEF Rested, Recovered, Claimed, LifecycleSteps
    <3>2. GetTransferById(w) =>
            work'[w].pc = "fail" \/ work'[w].pc = "idle" \/ work'[w].pc = "prove"
      BY <2>1, <2>2, <2>3, Zenon DEF GetTransferById
    <3>3. ProveCollection(w) =>
            work'[w].pc = "fail" \/ work'[w].pc = "finalize" \/ work'[w].pc = "journal"
      BY <2>1, Zenon DEF ProveCollection
    <3> QED BY <2>5, <3>1, <3>2, <3>3 DEF RecoverStep, Claimed, LifecycleSteps
  <2>6. FailCollection(w) => work'[w].pc \notin Claimed
    <3>1. FailCollection(w) => Rested(w) \/ Recovered(w)
      BY <1>0, LeavesView, NothingView, Zenon DEF FailCollection
    <3> QED BY <3>1 DEF Rested, Recovered, Claimed, LifecycleSteps
  <2>7. CreateCollectionAttempt(w) =>
          work'[w].pc = "idle" \/ work'[w].pc = "recover" \/ work'[w].pc = "policy"
    <3>1. \A a : Becomes(w, [work[w] EXCEPT !.pc = "policy", !.a = a, !.own = TRUE])
                   => work'[w].pc = "policy"
      BY <1>0, CreatesView, Zenon
    <3>2. Becomes(w, [work[w] EXCEPT !.pc = "recover", !.again = TRUE]) => work'[w].pc = "recover"
      BY <1>0, AgainView, Zenon
    <3> QED BY <2>2, <3>1, <3>2, Zenon DEF CreateCollectionAttempt
  <2>8. EnforcePolicy(w) => work'[w].pc = "link" \/ work'[w].pc = "fail"
    BY <2>1, <2>4, Zenon DEF EnforcePolicy
  <2>9. LinkTransfer(w) => work'[w].pc = "destination" \/ work'[w].pc = "fail"
    BY <1>0, <2>4, LinksView, Zenon DEF LinkTransfer
  <2>10. UpdateDestinationTokenAccount(w) \/ PersistSigned(w) \/ MarkStarted(w) =>
           \/ work'[w].pc = "sign" \/ work'[w].pc = "start" \/ work'[w].pc = "send"
           \/ work'[w].pc = "fail" \/ work'[w].pc = "journal"
    BY <2>1, Zenon DEF UpdateDestinationTokenAccount, PersistSigned, MarkStarted
  <2>11. SendTransaction(w) \/ RecordSignature(w) \/ ConfirmCollection(w) \/ JournalSignature(w) =>
           \/ work'[w].pc = "record" \/ work'[w].pc = "journal" \/ work'[w].pc = "confirm"
           \/ work'[w].pc = "fail" \/ work'[w].pc = "finalize" \/ work'[w].pc = "idle"
    BY <2>1, <2>2, <2>3, Zenon DEF SendTransaction, RecordSignature, ConfirmCollection,
       JournalSignature
  <2>12. FinalizeCollection(w) =>
           work'[w].pc = "idle" \/ work'[w].pc = "journal" \/ work'[w].pc = "claim"
    BY <2>1, <2>2, Zenon DEF FinalizeCollection
  <2> QED BY <2>5, <2>6, <2>7, <2>8, <2>9, <2>10, <2>11, <2>12
             DEF CollectStep, Claimed, LifecycleSteps
<1> QED BY <1>1, <1>2, <1>3, <1>4 DEF Uninvolved, Claimed, CollectSteps, RecoverySteps,
           LifecycleSteps

LEMMA RequestClaims ==
  ASSUME TypeOK, CollectionInv, Claims, NEW w \in Requests, RequestStep(w)
  PROVE  Claims'
<1>1. Moves(w)
  BY RequestTypes DEF CollectionInv
<1>2. CASE RecoverStep(w) \/ CollectStep(w)
  BY <1>1, <1>2, CollectionUninvolved, UninvolvedClaims
<1>3. CASE RequestCollection(w) \/ ListRecoverable(w) \/ ListDue(w)
  <2>1. Reads(w) /\ work[w].pc = "idle" /\ UNCHANGED <<payment, attempts, world, lifecycle>>
    BY <1>3, Zenon DEF RequestCollection, ListRecoverable, ListDue, At
  <2>2. UNCHANGED <<status, old, onchain, life, orphaned>>
    BY <2>1, Zenon DEF payment, world, chain, lifecycle
  <2> QED BY <1>1, <2>1, <2>2, ReadsAside, UninvolvedClaims DEF Uninvolved, Claimed, LifecycleSteps
<1>4. ASSUME NEW op \in scenario.operations, RequestLifecycle(w, op) PROVE Claims'
  <2>1. work[w].pc = "idle" /\ UNCHANGED <<status, old, onchain, life, orphaned>>
    BY <1>4, Zenon DEF RequestLifecycle, At, payment, world, chain, lifecycle
  <2> QED BY <1>1, <1>4, <2>1, RequestLifecycleAside, UninvolvedClaims
             DEF Uninvolved, Claimed, LifecycleSteps
<1> QED BY <1>1, <1>2, <1>3, <1>4, LifecycleClaims, CrashClaims DEF RequestStep

LEMMA WorldClaims ==
  ASSUME TypeOK, CollectionInv, Claims, ~scenario.stalls, WorldStep
  PROVE  Claims'
<1>1. work' = work
  BY WorldHands
<1>2. UNCHANGED <<status, life>>
  BY Zenon DEF WorldStep, TrackTransfer, AttemptAges, Lands, Expires, ForkDropped, LandsElsewhere,
     DueDatePasses, PaymentAges, payment, world, chain, lifecycle
<1>3. old' = old \/ \A w \in Requests : work[w].pc \notin LifecycleSteps
  BY Zenon DEF WorldStep, TrackTransfer, AttemptAges, Lands, Expires, ForkDropped, LandsElsewhere,
     DueDatePasses, PaymentAges, payment
<1>4. \/ UNCHANGED <<onchain, orphaned>>
      \/ onchain' = Final("cancel")
      \/ orphaned' = TRUE
  <2>1. ASSUME LandsElsewhere("resume") PROVE orphaned' = TRUE
    BY <2>1 DEF LandsElsewhere
  <2>2. ASSUME LandsElsewhere("cancel") PROVE onchain' = Final("cancel")
    BY <2>2, Zenon DEF LandsElsewhere
  <2>3. CASE ~ \E op \in {"cancel", "resume"} : LandsElsewhere(op)
    BY <2>3, Zenon DEF WorldStep, TrackTransfer, AttemptAges, Lands, Expires, ForkDropped,
       DueDatePasses, PaymentAges, world, chain, lifecycle
  <2> QED BY <2>1, <2>2, <2>3
<1>5. \A op \in {"cancel", "resume"} : Reached(op) => Reached(op)'
  BY <1>4 DEF Reached
<1>6. \A w \in Requests : ClaimOf(w)'
  <2> SUFFICES ASSUME NEW w \in Requests, work[w].pc \in Claimed PROVE ClaimOf(w)'
    BY <1>1 DEF ClaimOf
  <2>1. work[w].kind \in {"cancel", "resume"} /\ ClaimOf(w) /\ old' = old
    BY <1>3, Operation DEF Claims, Claimed
  <2>2. Reached(work[w].kind) => Reached(work[w].kind)'
    BY <1>1, <1>5, <2>1 DEF Reached
  <2> QED BY <1>1, <1>2, <2>1, <2>2 DEF ClaimOf, Reached
<1>7. \A op \in {"cancel", "resume"} : RowOf(op)'
  BY <1>2, <1>5 DEF Claims, RowOf
<1>8. OneClaim' /\ Undone'
  BY <1>1, <1>2, <1>5 DEF Claims, OneClaim, Undone
<1> QED BY <1>6, <1>7, <1>8 DEF Claims

LEMMA LifeInit == Init => LifeInv
BY DEF Init, LifeInv, Claims, OneClaim, Undone, ClaimOf, RowOf, Idle, Claimed, LifecycleSteps

LEMMA LifeNext ==
  ASSUME TypeOK, CollectionInv, LifeInv, [Next]_vars
  PROVE  LifeInv'
<1>1. scenario' = scenario
  BY ScenarioStays
<1> SUFFICES ASSUME ~scenario.stalls PROVE Claims'
  BY <1>1 DEF LifeInv
<1>2. Claims
  BY DEF LifeInv
<1>3. CASE UNCHANGED vars
  <2>1. UNCHANGED <<status, old, onchain, life, orphaned, work>>
    BY <1>3 DEF vars, payment, world, chain, lifecycle
  <2> QED BY <1>2, <2>1 DEF Claims, OneClaim, Undone, ClaimOf, RowOf, Reached
<1> QED BY <1>2, <1>3, Steps, RequestClaims, WorldClaims

(* Whichever request, retry or cron pass finished the operation, a payment *)
(* and its subscription are canceled only with the subscription on chain,  *)
(* unless a resume landed of which its row has no signature or only the    *)
(* error of a fork that is gone, or a request stood still                  *)
(* (runRecurringPaymentLifecycle, finalizeRecurringPaymentLifecycle).      *)
THEOREM CanceledOnChain == Spec => []CanceledIsOnChain
<1>1. TypeOK /\ CollectionInv /\ LifeInv /\ [Next]_vars => LifeInv'
  BY LifeNext
<1>2. CollectionInv /\ LifeInv => CanceledIsOnChain
  BY DEF CollectionInv, RowInv, Together, LifeInv, Claims, Undone, Reached, Final, CanceledIsOnChain
<1> QED BY <1>1, <1>2, LifeInit, Collections, PTL DEF Spec

=============================================================================
