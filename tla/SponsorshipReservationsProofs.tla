-------------------- MODULE SponsorshipReservationsProofs --------------------
(***************************************************************************)
(* The inductive invariant of the reservations, the safety theorems that   *)
(* follow from it, and the refinement of the abstract ledger, for any sets *)
(* of ids, messages, requests and passes and any bound on attempts.        *)
(***************************************************************************)
EXTENDS SponsorshipReservationsSteps

(* Charged, and every owner knows that the transaction may be out. *)
Sealed(i) ==
  Charged(i) /\ \A c \in Callers : Owning(c) /\ call[c].id = i => Safe(c)

Unowned(i) == \A c \in Callers : Owning(c) => call[c].id # i

Signatures ==
  \A i \in Ids : row[i].sig \in {NoSig, MessageOf[i]} /\ (row[i].stx => row[i].sig # NoSig)

(* A recorded signature of a sign or a send belongs to a charged row       *)
(* without an owner.  (An owned submission records its signature before it *)
(* is started.)                                                            *)
Recorded ==
  \A i \in Ids : row[i].sig # NoSig /\ "owned" \notin OpsOf[i] => Charged(i) /\ Unowned(i)

SignedElsewhere(m) == \E j \in Ids : row[j].sig = m /\ "owned" \notin OpsOf[j]

(* A duplicate signature is on record in a row of another sign or send. *)
Duplicates ==
  \A c \in Callers : call[c].pc # "idle" /\ call[c].dup => SignedElsewhere(MessageOf[call[c].id])

(* ExposedIsCharged, strengthened: no owner of the paying row may give it  *)
(* back.                                                                   *)
Covered == \A m \in exposed : \E i \in Ids : MessageOf[i] = m /\ Sealed(i)

(* The attempt is over in Postgres. *)
Closed(i, a) == row[i].attempt > a \/ At(i, a, {"committed", "released"})

RefundsAreClosed ==
  \A c \in Callers : call[c].pc \in {"refund", "mark"} => Closed(call[c].id, call[c].attempt)

(* Passes that settle Redis do so for a closed attempt, however old the    *)
(* listing.                                                                *)
JobsAreClosed ==
  \A k \in Jobs : /\ job[k].pc # "idle" => job[k].id \in Ids
                  /\ job[k].pc \in {"settle", "mark"} => Closed(job[k].id, job[k].attempt)

(* The inductive invariant. *)
IInv ==
  /\ Typed /\ JobsTyped /\ Busy /\ AbsentIsNew
  /\ SoleOwner /\ OwnerIsCurrent
  /\ Signatures /\ Recorded /\ Duplicates /\ Covered
  /\ RefundsAreClosed /\ JobsAreClosed /\ SettledAfterTerminal

(* The row after an attempt was opened or given back. *)
LEMMA RowAfter ==
  ASSUME Typed, NEW c \in Callers, NEW i \in Ids
  PROVE  /\ Takes(c, i) => /\ row'[i].status = "reserved" /\ row'[i].attempt = call[c].attempt
                           /\ row'[i].sig = NoSig /\ row'[i].stx = FALSE
         /\ GivesBack(c, i) => /\ row'[i].status = "released" /\ row'[i].attempt = row[i].attempt
                               /\ SameSig(i)
<1>1. ASSUME Takes(c, i)
      PROVE  /\ row'[i].status = "reserved" /\ row'[i].attempt = call[c].attempt
             /\ row'[i].sig = NoSig /\ row'[i].stx = FALSE
  <2>1. row'[i] = Reserved(call[c].attempt)
    BY <1>1 DEF Takes, Typed, RowsTyped
  <2>2. QED BY <2>1 DEF Reserved, Absent
<1>2. ASSUME GivesBack(c, i)
      PROVE  row'[i].status = "released" /\ row'[i].attempt = row[i].attempt /\ SameSig(i)
  <2>1. row'[i] = WithStatus(i, "released")
    BY <1>2 DEF GivesBack, Typed, RowsTyped
  <2>2. "released" \in Statuses
    BY DEF Statuses
  <2>3. QED BY <2>1, <2>2, RowFields DEF SameSig, Typed
<1>3. QED BY <1>1, <1>2

(* A step of request c on its reservation i. *)
Moves(c, i) == call[c].id = i /\ call[c].pc # "idle" /\ Typed' /\ StepOf(c, i)

(* A step of one request leaves the other requests and the other rows alone. *)
LEMMA BystandersStay ==
  ASSUME IInv, NEW c \in Callers, NEW i \in Ids, Moves(c, i)
  PROVE  /\ \A d \in Callers \ {c} : /\ call'[d] = call[d]
                                     /\ Owning(d)' <=> Owning(d)
                                     /\ Safe(d)' <=> Safe(d)
         /\ \A j \in Ids \ {i} : row'[j] = row[j] /\ (Charged(j)' <=> Charged(j))
         /\ Owning(c)' => call'[c].id = i /\ call'[c].attempt = call[c].attempt
<1>1. \A d \in Callers \ {c} : call'[d] = call[d]
  BY DEF Moves, StepOf, Others
<1>2. \A d \in Callers \ {c} : (Owning(d)' <=> Owning(d)) /\ (Safe(d)' <=> Safe(d))
  BY <1>1 DEF Owning, Safe
<1>3. \A j \in Ids \ {i} : row'[j] = row[j] /\ (Charged(j)' <=> Charged(j))
  BY DEF Moves, StepOf, Charged
<1>4. Owning(c)' => call'[c].pc # "idle"
  BY DEF Owning
<1>5. Owning(c)' => call'[c].id = i /\ call'[c].attempt = call[c].attempt
  BY <1>4 DEF Moves, StepOf, SameCall
<1>6. QED BY <1>1, <1>2, <1>3, <1>5

(* Requests keep working on an attempt of a reservation. *)
LEMMA CallerKeepsBusy ==
  ASSUME IInv, NEW c \in Callers, NEW i \in Ids, Moves(c, i)
  PROVE  Busy' /\ AbsentIsNew'
<1>1. ASSUME NEW d \in Callers, call'[d].pc # "idle"
      PROVE  /\ call'[d].id \in Ids /\ call'[d].attempt \in Attempts
             /\ call'[d].op \in OpsOf[call'[d].id]
             /\ call'[d].pc = "create" => call'[d].attempt = 1
  <2>1. CASE d # c
    BY <1>1, <2>1, BystandersStay DEF IInv, Busy
  <2>2. CASE d = c
    BY <1>1, <2>2 DEF IInv, Busy, Moves, StepOf, SameCall
  <2>3. QED BY <2>1, <2>2
<1>2. ASSUME NEW j \in Ids, row'[j].status = "absent"
      PROVE  row'[j].attempt = 0
  <2>1. CASE j # i
    BY <1>2, <2>1, BystandersStay DEF IInv, AbsentIsNew
  <2>2. CASE j = i /\ (Kept(i) \/ row' = row)
    BY <1>2, <2>2 DEF IInv, AbsentIsNew, Kept, Statuses, Live
  <2>3. CASE j = i /\ (Takes(c, i) \/ GivesBack(c, i))
    BY <1>2, <2>3, RowAfter DEF IInv
  <2>4. QED BY <2>1, <2>2, <2>3 DEF Moves, StepOf, Keeps, Yields
<1>3. QED BY <1>1, <1>2 DEF Busy, AbsentIsNew

(* A row is opened only where nobody owns it, and given back only by its   *)
(* one owner, so no step of a request makes a second owner or overtakes    *)
(* one.                                                                    *)
LEMMA CallerKeepsOwners ==
  ASSUME IInv, NEW c \in Callers, NEW i \in Ids, Moves(c, i)
  PROVE  SoleOwner' /\ OwnerIsCurrent'
<1>1. Takes(c, i) => Unowned(i)
  BY DEF Takes, Unowned, IInv, OwnerIsCurrent, Charged
<1>2. Takes(c, i) \/ (Owning(c)' => Owning(c))
  BY DEF Moves, StepOf, Keeps, GivesBack, Yields
<1>3. ASSUME NEW d \in Callers \ {c}, Owning(c)', Owning(d), call[d].id = i PROVE FALSE
  <2>1. Owning(c) /\ call[c].id = i
    BY <1>1, <1>2, <1>3 DEF Unowned, Moves
  <2>2. QED BY <1>3, <2>1 DEF IInv, SoleOwner
<1>4. ASSUME NEW d \in Callers, NEW e \in Callers, Owning(d)', Owning(e)',
             call'[d].id = call'[e].id
      PROVE  d = e
  <2>1. CASE d # c /\ e # c
    BY <1>4, <2>1, BystandersStay DEF IInv, SoleOwner
  <2>2. CASE d # c /\ e = c
    BY <1>3, <1>4, <2>2, BystandersStay
  <2>3. CASE d = c /\ e # c
    BY <1>3, <1>4, <2>3, BystandersStay
  <2>4. QED BY <2>1, <2>2, <2>3
<1>5. ASSUME NEW d \in Callers, Owning(d)'
      PROVE  row'[call'[d].id].attempt = call'[d].attempt
             /\ row'[call'[d].id].status \notin {"absent", "released"}
  <2>1. CASE d # c /\ call[d].id # i
    <3>1. Owning(d) /\ call'[d] = call[d] /\ call[d].id \in Ids \ {i}
      BY <1>5, <2>1, BystandersStay DEF IInv, Busy, Owning
    <3>2. QED BY <3>1, BystandersStay DEF IInv, OwnerIsCurrent
  <2>2. CASE d # c /\ call[d].id = i
    <3>1. Owning(d) /\ call'[d] = call[d]
      BY <1>5, <2>2, BystandersStay
    <3>2. ~Takes(c, i)
      BY <1>1, <2>2, <3>1 DEF Unowned
    <3>3. ~GivesBack(c, i)
      BY <2>2, <3>1 DEF GivesBack, IInv, SoleOwner, Moves
    <3>4. row[i].attempt = call[d].attempt /\ row[i].status \notin {"absent", "released"}
      BY <2>2, <3>1 DEF IInv, OwnerIsCurrent
    <3>5. Kept(i) \/ row' = row
      BY <3>2, <3>3 DEF Moves, StepOf, Keeps, Yields
    <3>6. QED BY <2>2, <3>1, <3>4, <3>5 DEF Kept, Statuses, Live
  <2>3. CASE d = c
    <3>1. call'[c].id = i /\ call'[c].attempt = call[c].attempt
      BY <1>5, <2>3, BystandersStay
    <3>2. CASE Takes(c, i)
      BY <2>3, <3>1, <3>2, RowAfter DEF IInv
    <3>3. CASE ~Takes(c, i)
      <4>1. Owning(c) /\ ~GivesBack(c, i)
        BY <1>2, <1>5, <2>3, <3>3 DEF GivesBack
      <4>2. row[i].attempt = call[c].attempt /\ row[i].status \notin {"absent", "released"}
        BY <4>1 DEF IInv, OwnerIsCurrent, Moves
      <4>3. Kept(i) \/ row' = row
        BY <4>1, <3>3 DEF Moves, StepOf, Keeps, Yields
      <4>4. QED BY <2>3, <3>1, <4>2, <4>3 DEF Kept, Statuses, Live
    <3>4. QED BY <3>2, <3>3
  <2>4. QED BY <2>1, <2>2, <2>3
<1>6. QED BY <1>4, <1>5 DEF SoleOwner, OwnerIsCurrent
-----------------------------------------------------------------------------
(* A row only ever records the signature of its own message. *)
LEMMA CallerKeepsSignatures ==
  ASSUME IInv, NEW c \in Callers, NEW i \in Ids, Moves(c, i)
  PROVE  Signatures'
<1>1. MessageOf[i] # NoSig
  BY ReservationAssumption
<1>2. ASSUME NEW j \in Ids
      PROVE  row'[j].sig \in {NoSig, MessageOf[j]} /\ (row'[j].stx => row'[j].sig # NoSig)
  <2>1. CASE j # i \/ SameSig(j) \/ row' = row
    BY <2>1, BystandersStay DEF SameSig, IInv, Signatures
  <2>2. CASE j = i /\ row'[i].sig = MessageOf[i]
    BY <1>1, <2>2
  <2>3. CASE j = i /\ (Takes(c, i) \/ GivesBack(c, i))
    BY <2>1, <2>3, RowAfter DEF IInv
  <2>4. QED BY <2>1, <2>2, <2>3 DEF Moves, StepOf, Keeps, Yields
<1>3. QED BY <1>2 DEF Signatures

(* A recorded signature of a sign or a send stays, with its charge and     *)
(* without an owner.                                                       *)
LEMMA CallerKeepsRecorded ==
  ASSUME IInv, NEW c \in Callers, NEW i \in Ids, Moves(c, i)
  PROVE  /\ Recorded'
         /\ \A j \in Ids : row[j].sig # NoSig /\ "owned" \notin OpsOf[j] => row'[j].sig = row[j].sig
<1>1. ASSUME row[i].sig # NoSig, "owned" \notin OpsOf[i]
      PROVE  Kept(i) /\ row'[i].sig = row[i].sig /\ ~Owning(c) /\ ~Owning(c)'
  <2>1. Charged(i) /\ Unowned(i) /\ ~Owning(c)
    BY <1>1 DEF IInv, Recorded, Unowned, Moves
  <2>2. Keeps(c, i)
    BY <2>1 DEF Moves, StepOf, Takes, GivesBack, Yields
  <2>3. QED BY <2>1, <2>2 DEF Keeps, SameSig
<1>2. ASSUME NEW j \in Ids, row'[j].sig # NoSig, "owned" \notin OpsOf[j]
      PROVE  Charged(j)' /\ Unowned(j)'
  <2>1. CASE j # i
    <3>1. Charged(j) /\ Unowned(j)
      BY <1>2, <2>1, BystandersStay DEF IInv, Recorded
    <3>2. ASSUME NEW d \in Callers, Owning(d)' PROVE call'[d].id # j
      BY <2>1, <3>1, <3>2, BystandersStay DEF Unowned
    <3>3. QED BY <2>1, <3>1, <3>2, BystandersStay DEF Unowned
  <2>2. CASE j = i /\ row[i].sig # NoSig
    <3>1. Charged(i) /\ Unowned(i) /\ Kept(i) /\ ~Owning(c)'
      BY <1>1, <1>2, <2>2 DEF IInv, Recorded
    <3>2. Charged(i)'
      BY <3>1 DEF Charged, Kept, Statuses, Live
    <3>3. ASSUME NEW d \in Callers, Owning(d)' PROVE call'[d].id # i
      BY <3>1, <3>3, BystandersStay DEF Unowned
    <3>4. QED BY <2>2, <3>2, <3>3 DEF Unowned
  <2>3. CASE j = i /\ row[i].sig = NoSig
    <3>1. Keeps(c, i) /\ ~SameSig(i)
      BY <1>2, <2>3, RowAfter DEF IInv, Moves, StepOf, Yields, SameSig
    <3>2. Kept(i) /\ Owning(c) /\ (call[c].op = "owned" \/ ~Owning(c)')
      BY <3>1 DEF Keeps
    <3>3. call[c].op \in OpsOf[i]
      BY DEF IInv, Busy, Moves
    <3>4. ~Owning(c)'
      BY <1>2, <2>3, <3>2, <3>3
    <3>5. Charged(i)'
      BY <3>2 DEF IInv, OwnerIsCurrent, Moves, Charged, Kept, Statuses, Live
    <3>6. ASSUME NEW d \in Callers, Owning(d)' PROVE call'[d].id # i
      BY <3>2, <3>4, <3>6, BystandersStay DEF IInv, SoleOwner, Moves
    <3>7. QED BY <2>3, <3>5, <3>6 DEF Unowned
  <2>4. QED BY <2>1, <2>2, <2>3
<1>3. ASSUME NEW j \in Ids, row[j].sig # NoSig, "owned" \notin OpsOf[j]
      PROVE  row'[j].sig = row[j].sig
  BY <1>1, <1>3, BystandersStay
<1>4. QED BY <1>2, <1>3 DEF Recorded

(* A signature the unique index finds taken was recorded by a sign or a    *)
(* send.                                                                   *)
LEMMA TakenIsPaid ==
  ASSUME IInv, NEW i \in Ids, SignatureTaken(i), NEW op \in OpsOf[i], op # "owned"
  PROVE  SignedElsewhere(MessageOf[i])
<1>1. PICK j \in Ids : row[j].sig = MessageOf[i]
  BY DEF SignatureTaken
<1>2. row[j].sig = MessageOf[j]
  BY <1>1, ReservationAssumption DEF IInv, Signatures
<1>3. "owned" \notin OpsOf[j]
  BY <1>1, <1>2, OwnedMessagesAreApart
<1>4. QED BY <1>1, <1>3 DEF SignedElsewhere

(* A recorded signature pays for its message for good. *)
LEMMA SignedIsSealed ==
  ASSUME IInv, NEW m \in Messages, SignedElsewhere(m)
  PROVE  \E j \in Ids : MessageOf[j] = m /\ Sealed(j) /\ Unowned(j)
<1>1. PICK j \in Ids : row[j].sig = m /\ "owned" \notin OpsOf[j]
  BY DEF SignedElsewhere
<1>2. row[j].sig # NoSig /\ MessageOf[j] = m
  BY <1>1, ReservationAssumption DEF IInv, Signatures
<1>3. Charged(j) /\ Unowned(j)
  BY <1>1, <1>2 DEF IInv, Recorded
<1>4. QED BY <1>2, <1>3 DEF Sealed, Unowned

(* A duplicate that gives way keeps the row it gives way to. *)
LEMMA CallerKeepsDuplicates ==
  ASSUME IInv, NEW c \in Callers, NEW i \in Ids, Moves(c, i)
  PROVE  Duplicates'
<1>1. ASSUME NEW m \in Messages, SignedElsewhere(m) PROVE SignedElsewhere(m)'
  <2>1. PICK j \in Ids : row[j].sig = m /\ "owned" \notin OpsOf[j]
    BY <1>1 DEF SignedElsewhere
  <2>2. m # NoSig
    BY ReservationAssumption
  <2>3. row'[j].sig = m
    BY <2>1, <2>2, CallerKeepsRecorded
  <2>4. QED BY <2>1, <2>3 DEF SignedElsewhere
<1>2. MessageOf[i] \in Messages
  BY ReservationAssumption
<1>3. ASSUME NEW d \in Callers, call'[d].pc # "idle", call'[d].dup
      PROVE  SignedElsewhere(MessageOf[call[d].id])'
  <2>1. CASE d # c
    <3>1. call'[d] = call[d]
      BY <2>1, BystandersStay
    <3>2. call[d].id \in Ids /\ SignedElsewhere(MessageOf[call[d].id])
      BY <1>3, <3>1 DEF IInv, Busy, Duplicates
    <3>3. PICK j \in Ids : j = call[d].id
      BY <3>2
    <3>4. MessageOf[j] \in Messages /\ SignedElsewhere(MessageOf[j])
      BY <3>2, <3>3, ReservationAssumption
    <3>5. SignedElsewhere(MessageOf[j])' /\ j = call'[d].id
      BY <1>1, <3>1, <3>3, <3>4
    <3>6. QED BY <3>5 DEF SignedElsewhere
  <2>2. CASE d = c
    <3>1. call'[c].id = i
      BY <1>3, <2>2 DEF Moves, StepOf, SameCall
    <3>2. CASE call[c].dup
      <4>1. SignedElsewhere(MessageOf[i])
        BY <3>2 DEF IInv, Duplicates, Moves
      <4>2. SignedElsewhere(MessageOf[i])'
        BY <1>1, <1>2, <4>1
      <4>3. QED BY <2>2, <3>1, <4>2 DEF SignedElsewhere
    <3>3. CASE Yields(c, i)
      <4>1. call[c].op \in OpsOf[i]
        BY DEF IInv, Busy, Moves
      <4>2. SignedElsewhere(MessageOf[i])
        BY <3>3, <4>1, TakenIsPaid DEF Yields
      <4>3. SignedElsewhere(MessageOf[i])'
        BY <1>1, <1>2, <4>2
      <4>4. QED BY <2>2, <3>1, <4>3 DEF SignedElsewhere
    <3>4. QED BY <1>3, <2>2, <3>2, <3>3 DEF Moves, StepOf
  <2>3. QED BY <2>1, <2>2
<1>4. QED BY <1>3 DEF Duplicates

(* A reservation whose transaction may be out stays charged, unless its    *)
(* owner gives way to another.                                             *)
LEMMA SealedStays ==
  ASSUME IInv, NEW c \in Callers, NEW i \in Ids, Moves(c, i), NEW j \in Ids, Sealed(j),
         j # i \/ ~Yields(c, i)
  PROVE  Sealed(j)'
<1>1. CASE j # i
  <2>1. ASSUME NEW d \in Callers, Owning(d)', call'[d].id = j PROVE Safe(d)'
    BY <1>1, <2>1, BystandersStay DEF Sealed
  <2>2. QED BY <1>1, <2>1, BystandersStay DEF Sealed
<1>2. CASE j = i
  <2>1. Keeps(c, i)
    BY <1>2 DEF Moves, StepOf, Takes, GivesBack, Sealed
  <2>2. Charged(i)'
    BY <1>2, <2>1 DEF Sealed, Charged, Keeps, Kept, Statuses, Live
  <2>3. ASSUME NEW d \in Callers, Owning(d)', call'[d].id = i PROVE Safe(d)'
    <3>1. CASE d # c
      BY <1>2, <2>3, <3>1, BystandersStay DEF Sealed
    <3>2. CASE d = c
      BY <1>2, <2>1, <2>3, <3>2 DEF Sealed, Keeps, Moves
    <3>3. QED BY <3>1, <3>2
  <2>4. QED BY <1>2, <2>2, <2>3 DEF Sealed
<1>3. QED BY <1>1, <1>2

(* Whatever a request hands out, and whatever was out before, is paid for. *)
LEMMA CallerKeepsCovered ==
  ASSUME IInv, NEW c \in Callers, NEW i \in Ids, Moves(c, i)
  PROVE  Covered'
<1>1. MessageOf[i] \in Messages /\ call[c].op \in OpsOf[i] /\ call[c].id = i
  BY ReservationAssumption DEF IInv, Busy, Moves
<1>2. ASSUME NEW m \in Messages, SignedElsewhere(m)
      PROVE  \E j \in Ids : MessageOf[j] = m /\ Sealed(j)'
  <2>1. PICK j \in Ids : MessageOf[j] = m /\ Sealed(j) /\ Unowned(j)
    BY <1>2, SignedIsSealed
  <2>2. j # i \/ ~Yields(c, i)
    BY <1>1, <2>1 DEF Unowned, Yields
  <2>3. QED BY <2>1, <2>2, SealedStays
<1>3. ASSUME NEW m \in exposed PROVE \E j \in Ids : MessageOf[j] = m /\ Sealed(j)'
  <2>1. PICK j \in Ids : MessageOf[j] = m /\ Sealed(j)
    BY DEF IInv, Covered
  <2>2. CASE j # i \/ ~Yields(c, i)
    BY <2>1, <2>2, SealedStays
  <2>3. CASE j = i /\ Yields(c, i)
    <3>1. SignedElsewhere(MessageOf[i])
      BY <1>1, <2>3, TakenIsPaid DEF Yields
    <3>2. QED BY <1>1, <1>2, <2>1, <2>3, <3>1
  <2>4. QED BY <2>2, <2>3
<1>4. ASSUME Justified(c, i) PROVE \E j \in Ids : MessageOf[j] = MessageOf[i] /\ Sealed(j)'
  <2>1. CASE Owning(c) /\ Charged(i)' /\ (Owning(c)' => Safe(c)')
    <3>1. ASSUME NEW d \in Callers, Owning(d)', call'[d].id = i PROVE Safe(d)'
      BY <1>1, <2>1, <3>1, BystandersStay DEF IInv, SoleOwner
    <3>2. Sealed(i)'
      BY <2>1, <3>1 DEF Sealed
    <3>3. QED BY <3>2
  <2>2. CASE call[c].dup
    <3>1. SignedElsewhere(MessageOf[i])
      BY <1>1, <2>2 DEF IInv, Duplicates, Moves
    <3>2. QED BY <1>1, <1>2, <3>1
  <2>3. CASE row[i].stx /\ "sign" \in OpsOf[i]
    <3>1. row[i].sig = MessageOf[i] /\ "owned" \notin OpsOf[i]
      BY <2>3, OwnedMessagesAreApart DEF IInv, Signatures
    <3>2. SignedElsewhere(MessageOf[i])
      BY <3>1 DEF SignedElsewhere
    <3>3. QED BY <1>1, <1>2, <3>2
  <2>4. QED BY <1>4, <2>1, <2>2, <2>3 DEF Justified
<1>5. \A m \in exposed' : m \in exposed \/ (m = MessageOf[i] /\ Justified(c, i))
  BY DEF Moves, StepOf
<1>6. QED BY <1>3, <1>4, <1>5 DEF Covered

(* A closed attempt stays closed. *)
LEMMA ClosedStays ==
  ASSUME IInv, NEW c \in Callers, NEW i \in Ids, Moves(c, i),
         NEW j \in Ids, NEW a \in Nat, Closed(j, a)
  PROVE  Closed(j, a)'
<1>1. row[j].attempt \in Nat /\ call[c].attempt \in Nat
  BY RowFields, ReservationAssumption DEF IInv, Typed, Busy, Moves, Attempts
<1>2. CASE j # i \/ row' = row
  BY <1>2, BystandersStay DEF Closed, At
<1>3. CASE j = i /\ Kept(i)
  BY <1>3 DEF Kept, Closed, At, Live
<1>4. CASE j = i /\ Takes(c, i)
  <2>1. row'[i].attempt = row[i].attempt + 1
    BY <1>4, RowAfter DEF IInv, Takes
  <2>2. QED BY <1>1, <1>4, <2>1 DEF Closed, At
<1>5. CASE j = i /\ GivesBack(c, i)
  <2>1. row'[i].attempt = row[i].attempt /\ row[i].status \in Live
    BY <1>5, RowAfter DEF IInv, GivesBack
  <2>2. QED BY <1>5, <2>1 DEF Closed, At, Live
<1>6. QED BY <1>2, <1>3, <1>4, <1>5 DEF Moves, StepOf, Keeps, Yields

(* Redis is settled by a request only for an attempt it has released. *)
LEMMA CallerKeepsClosed ==
  ASSUME IInv, NEW c \in Callers, NEW i \in Ids, Moves(c, i), job' = job
  PROVE  RefundsAreClosed' /\ JobsAreClosed' /\ SettledAfterTerminal'
<1>1. MaxAttempt \in Nat /\ Attempts \subseteq Nat
  BY ReservationAssumption DEF Attempts
<1>2. ASSUME NEW d \in Callers, call'[d].pc \in {"refund", "mark"}
      PROVE  Closed(call[d].id, call[d].attempt)'
  <2>1. CASE d # c
    <3>1. call'[d] = call[d]
      BY <2>1, BystandersStay
    <3>2. call[d].id \in Ids /\ call[d].attempt \in Nat /\ Closed(call[d].id, call[d].attempt)
      BY <1>1, <1>2, <3>1 DEF IInv, Busy, RefundsAreClosed
    <3>3. PICK j \in Ids, a \in Nat : j = call[d].id /\ a = call[d].attempt
      BY <3>2
    <3>4. Closed(j, a)
      BY <3>2, <3>3
    <3>5. Closed(j, a)' /\ j = call'[d].id /\ a = call'[d].attempt
      BY <3>1, <3>3, <3>4, ClosedStays
    <3>6. QED BY <3>5 DEF Closed, At
  <2>2. CASE d = c
    <3>1. call'[c].id = i /\ call'[c].attempt = call[c].attempt
      BY <1>2, <2>2 DEF Moves, StepOf, SameCall
    <3>2. CASE call[c].pc = "refund"
      <4>1. PICK a \in Nat : a = call[c].attempt
        BY <1>1 DEF IInv, Busy, Moves
      <4>2. Closed(i, a)
        BY <3>2, <4>1 DEF IInv, RefundsAreClosed, Moves
      <4>3. Closed(i, a)'
        BY <4>2, ClosedStays
      <4>4. QED BY <2>2, <3>1, <4>1, <4>3 DEF Closed, At
    <3>3. CASE row'[i].status = "released" /\ row'[i].attempt = call[c].attempt
      BY <2>2, <3>1, <3>3 DEF Closed, At
    <3>4. QED BY <1>2, <2>2, <3>2, <3>3 DEF Moves, StepOf
  <2>3. QED BY <2>1, <2>2
<1>3. ASSUME NEW k \in Jobs, job'[k].pc \in {"settle", "mark"}
      PROVE  Closed(job[k].id, job[k].attempt)'
  <2>1. job[k].id \in Ids /\ Closed(job[k].id, job[k].attempt)
    BY <1>3 DEF IInv, JobsAreClosed
  <2>2. job[k].attempt \in Nat
    BY <1>1 DEF IInv, JobsTyped, Targets
  <2>3. PICK j \in Ids, a \in Nat : j = job[k].id /\ a = job[k].attempt
    BY <2>1, <2>2
  <2>4. Closed(j, a)
    BY <2>1, <2>3
  <2>5. Closed(j, a)' /\ j = job'[k].id /\ a = job'[k].attempt
    BY <2>3, <2>4, ClosedStays
  <2>6. QED BY <2>5 DEF Closed, At
<1>4. JobsAreClosed'
  BY <1>3 DEF IInv, JobsAreClosed
<1>5. ASSUME NEW j \in Ids, NEW a \in Attempts, key'[j][a] = "settled"
      PROVE  Closed(j, a)'
  <2>1. a \in Nat
    BY <1>1
  <2>2. CASE key[j][a] = "settled"
    <3>1. Closed(j, a)
      BY <2>2 DEF IInv, SettledAfterTerminal, Closed
    <3>2. QED BY <2>1, <3>1, ClosedStays
  <2>3. CASE call[c].pc = "refund" /\ j = i /\ a = call[c].attempt
    <3>1. Closed(j, a)
      BY <2>3 DEF IInv, RefundsAreClosed, Moves
    <3>2. QED BY <2>1, <3>1, ClosedStays
  <2>4. QED BY <1>5, <2>2, <2>3 DEF Moves, StepOf
<1>6. SettledAfterTerminal'
  BY <1>5 DEF SettledAfterTerminal, Closed
<1>7. QED BY <1>2, <1>4, <1>6 DEF RefundsAreClosed

(* Every step of a request keeps the invariant. *)
LEMMA CallerStepKeepsInv ==
  ASSUME IInv, NEW c \in Callers, CallerStep(c)
  PROVE  IInv'
<1>1. Ready
  BY DEF IInv, Ready
<1>2. PICK i \in Ids : i = call[c].id
  BY <1>1, CallerStepOf
<1>3. Moves(c, i) /\ job' = job
  BY <1>1, <1>2, CallerStepOf DEF Moves
<1>4. Typed' /\ JobsTyped'
  BY <1>3 DEF Moves, IInv, JobsTyped
<1>5. QED
  BY <1>3, <1>4, CallerKeepsBusy, CallerKeepsOwners, CallerKeepsSignatures, CallerKeepsRecorded,
     CallerKeepsDuplicates, CallerKeepsCovered, CallerKeepsClosed DEF IInv
-----------------------------------------------------------------------------
(* What every step outside a request leaves alone. *)
Advanced ==
  \/ row' = row
  \/ \E i \in Ids : Kept(i) /\ SameSig(i) /\ \A j \in Ids \ {i} : row'[j] = row[j]

Background == Advanced /\ exposed' = exposed

(* A row that advances keeps its attempt, its charge and its signature. *)
LEMMA AdvancedRows ==
  ASSUME Advanced, NEW j \in Ids
  PROVE  /\ Kept(j) /\ SameSig(j)
         /\ Charged(j)' <=> Charged(j)
         /\ \A a \in Nat : Closed(j, a) => Closed(j, a)'
<1>1. Kept(j) /\ SameSig(j)
  BY DEF Advanced, Kept, SameSig
<1>2. Charged(j)' <=> Charged(j)
  BY <1>1 DEF Kept, Charged, Statuses, Live
<1>3. \A a \in Nat : Closed(j, a) => Closed(j, a)'
  BY <1>1 DEF Kept, Closed, At, Live
<1>4. QED BY <1>1, <1>2, <1>3

(* Advancing a row under the requests breaks nothing they rely on. *)
LEMMA CallsStay ==
  ASSUME IInv, call' = call, exposed' = exposed, Advanced
  PROVE  /\ Busy' /\ AbsentIsNew' /\ SoleOwner' /\ OwnerIsCurrent'
         /\ Signatures' /\ Recorded' /\ Duplicates' /\ Covered' /\ RefundsAreClosed'
<1>1. ASSUME NEW c \in Callers PROVE (Owning(c)' <=> Owning(c)) /\ (Safe(c)' <=> Safe(c))
  BY DEF Owning, Safe
<1>2. Busy' /\ SoleOwner'
  BY <1>1 DEF IInv, Busy, SoleOwner
<1>3. AbsentIsNew'
  BY AdvancedRows DEF IInv, AbsentIsNew, Kept, Statuses, Live
<1>4. OwnerIsCurrent'
  <2>1. ASSUME NEW c \in Callers, Owning(c)
        PROVE  row'[call[c].id].attempt = call[c].attempt
               /\ row'[call[c].id].status \notin {"absent", "released"}
    <3>1. call[c].id \in Ids
      BY <2>1 DEF IInv, Busy, Owning
    <3>2. Kept(call[c].id)
      BY <3>1, AdvancedRows DEF Kept
    <3>3. QED BY <2>1, <3>2 DEF IInv, OwnerIsCurrent, Kept, Statuses, Live
  <2>2. QED BY <1>1, <2>1 DEF OwnerIsCurrent
<1>5. Signatures'
  BY AdvancedRows DEF IInv, Signatures, SameSig
<1>6. ASSUME NEW j \in Ids
      PROVE  (Unowned(j) => Unowned(j)') /\ (Sealed(j) => Sealed(j)')
  BY <1>1, AdvancedRows DEF Unowned, Sealed
<1>7. Recorded'
  BY <1>6, AdvancedRows DEF IInv, Recorded, SameSig
<1>8. Duplicates'
  BY AdvancedRows DEF IInv, Duplicates, SignedElsewhere, SameSig
<1>9. Covered'
  BY <1>6 DEF IInv, Covered
<1>10. RefundsAreClosed'
  <2>1. ASSUME NEW c \in Callers, call[c].pc \in {"refund", "mark"}
        PROVE  Closed(call[c].id, call[c].attempt)'
    <3>1. PICK j \in Ids, a \in Nat : j = call[c].id /\ a = call[c].attempt
      BY <2>1, ReservationAssumption DEF IInv, Busy, Attempts
    <3>2. Closed(j, a)'
      BY <2>1, <3>1, AdvancedRows DEF IInv, RefundsAreClosed
    <3>3. QED BY <3>1, <3>2 DEF Closed, At
  <2>2. QED BY <2>1 DEF RefundsAreClosed
<1>11. QED BY <1>2, <1>3, <1>4, <1>5, <1>7, <1>8, <1>9, <1>10

(* A settlement key is written for a closed attempt only. *)
LEMMA KeysStay ==
  ASSUME IInv, Advanced,
         \A j \in Ids, a \in Attempts : key'[j][a] = "settled" => key[j][a] = "settled" \/ Closed(j, a)
  PROVE  SettledAfterTerminal'
<1>1. ASSUME NEW j \in Ids, NEW a \in Attempts, key'[j][a] = "settled" PROVE Closed(j, a)'
  <2>1. a \in Nat
    BY ReservationAssumption DEF Attempts
  <2>2. Closed(j, a)
    BY <1>1 DEF IInv, SettledAfterTerminal, Closed
  <2>3. QED BY <2>1, <2>2, AdvancedRows
<1>2. QED BY <1>1 DEF SettledAfterTerminal, Closed

(* What a pass knows about its candidate stays true. *)
LEMMA JobsStay ==
  ASSUME IInv, Advanced, NEW k \in Jobs, job'[k] = job[k]
  PROVE  /\ job'[k].pc # "idle" => job'[k].id \in Ids
         /\ job'[k].pc \in {"settle", "mark"} => Closed(job[k].id, job[k].attempt)'
<1>1. job'[k].pc # "idle" => job'[k].id \in Ids
  BY DEF IInv, JobsAreClosed
<1>2. ASSUME job[k].pc \in {"settle", "mark"} PROVE Closed(job[k].id, job[k].attempt)'
  <2>1. job[k].attempt \in Nat /\ job[k].id \in Ids
    BY <1>2, ReservationAssumption DEF IInv, JobsTyped, Targets, JobsAreClosed
  <2>2. PICK j \in Ids, a \in Nat : j = job[k].id /\ a = job[k].attempt
    BY <2>1
  <2>3. Closed(j, a)'
    BY <1>2, <2>2, AdvancedRows DEF IInv, JobsAreClosed
  <2>4. QED BY <2>2, <2>3 DEF Closed, At
<1>3. QED BY <1>1, <1>2
-----------------------------------------------------------------------------
(* A pass moves on: where it goes, and that it keeps its candidate. *)
Pass(k) ==
  /\ JobsTyped' /\ \A l \in Jobs \ {k} : job'[l] = job[l]
  /\ job'[k].pc # "idle" => job'[k].id = job[k].id /\ job'[k].attempt = job[k].attempt

(* Moving a pass on keeps its candidate. *)
LEMMA JobGoes ==
  ASSUME JobsTyped, NEW k \in Jobs, NEW p \in JobPcs, JobGoto(k, p)
  PROVE  Pass(k) /\ job'[k].pc = p
<1> DEFINE t == [job[k] EXCEPT !.pc = p]
<1>1. t \in Targets /\ t.pc = p /\ t.id = job[k].id /\ t.attempt = job[k].attempt
  BY DEF JobsTyped, Targets
<1>2. job' = [job EXCEPT ![k] = t]
  BY DEF JobGoto
<1> HIDE DEF t
<1>3. QED BY <1>1, <1>2 DEF Pass, JobsTyped

(* A pass that is done with its candidate forgets it. *)
LEMMA JobEnds ==
  ASSUME JobsTyped, NEW k \in Jobs, JobDone(k)
  PROVE  Pass(k) /\ job'[k].pc = "idle"
<1>1. JobIdle \in Targets /\ JobIdle.pc = "idle"
  BY ReservationAssumption DEF JobIdle, Targets, JobPcs
<1>2. job' = [job EXCEPT ![k] = JobIdle]
  BY DEF JobDone
<1>3. QED BY <1>1, <1>2 DEF Pass, JobsTyped

(* A step of a pass keeps the invariant if it advances a row and settles   *)
(* what is closed.                                                         *)
LEMMA PassKeepsInv ==
  ASSUME IInv, NEW k \in Jobs, job[k].pc # "idle", Pass(k), call' = call, exposed' = exposed,
         Advanced, Typed',
         job'[k].pc \in {"settle", "mark"} => Closed(job[k].id, job[k].attempt)',
         \A j \in Ids, a \in Attempts : key'[j][a] = "settled" => key[j][a] = "settled" \/ Closed(j, a)
  PROVE  IInv' /\ Background
<1>1. ASSUME NEW l \in Jobs
      PROVE  /\ job'[l].pc # "idle" => job'[l].id \in Ids
             /\ job'[l].pc \in {"settle", "mark"} => Closed(job[l].id, job[l].attempt)'
  <2>1. CASE l # k
    <3>1. job'[l] = job[l]
      BY <2>1 DEF Pass
    <3>2. QED BY <3>1, JobsStay
  <2>2. CASE l = k
    BY <2>2 DEF Pass, IInv, JobsAreClosed
  <2>3. QED BY <2>1, <2>2
<1>2. JobsAreClosed'
  BY <1>1 DEF JobsAreClosed
<1>3. QED BY <1>2, CallsStay, KeysStay DEF IInv, Pass, Background

(* The statements of a pass advance a row. *)
LEMMA RowAdvances ==
  ASSUME Typed, NEW i \in Ids, NEW r \in Rows, Write(i, r), r.attempt = row[i].attempt,
         r.sig = row[i].sig, r.stx = row[i].stx,
         \/ r.status = row[i].status
         \/ row[i].status \in Live /\ r.status \in Statuses \ {"released"}
  PROVE  Advanced /\ RowsTyped' /\ row'[i] = r
<1>1. RowsTyped' /\ row'[i] = r /\ \A j \in Ids \ {i} : row'[j] = row[j]
  BY Writes DEF Typed
<1>2. Kept(i) /\ SameSig(i)
  BY <1>1 DEF Kept, SameSig
<1>3. QED BY <1>1, <1>2 DEF Advanced

(* A step of a pass that touches neither row nor key. *)
LEMMA PassOnly ==
  ASSUME IInv, NEW k \in Jobs, job[k].pc # "idle", Pass(k), job'[k].pc \notin {"settle", "mark"},
         enabled' \in BOOLEAN, UNCHANGED <<row, key, call, exposed, leaked, landed, expired>>
  PROVE  IInv' /\ Background
<1>1. Advanced
  BY DEF Advanced
<1>2. Typed'
  BY DEF IInv, Typed, CallsTyped, RowsTyped, KeysTyped, WorldTyped
<1>3. QED BY <1>1, <1>2, PassKeepsInv

(* Tripping the breaker is well typed. *)
LEMMA FaultIsBoolean ==
  ASSUME Typed, enabled' \in {enabled, FALSE} \/ enabled' = enabled
  PROVE  enabled' \in BOOLEAN
BY DEF Typed, CallsTyped
-----------------------------------------------------------------------------
(* getTransaction, the re-read and a failure of a pass. *)
LEMMA QuietJobSteps ==
  ASSUME IInv, NEW k \in Jobs, LookupTransaction(k) \/ JobReread(k) \/ JobAbort(k)
  PROVE  IInv' /\ Background
<1>1. /\ job[k].pc # "idle" /\ UNCHANGED <<row, key, call, exposed, leaked, landed, expired>>
      /\ "commit" \in JobPcs /\ "miss" \in JobPcs /\ "charge" \in JobPcs
  BY DEF LookupTransaction, JobReread, JobAbort, JobPcs
<1>2. enabled' \in BOOLEAN
  <2>1. CASE LookupTransaction(k) \/ JobAbort(k)
    BY <2>1, FaultIsBoolean DEF LookupTransaction, JobAbort, JobFails, IInv
  <2>2. CASE JobReread(k)
    BY <2>2 DEF JobReread
  <2>3. QED BY <2>1, <2>2
<1>3. CASE JobDone(k)
  BY <1>1, <1>2, <1>3, JobEnds, PassOnly DEF IInv
<1>4. CASE JobGoto(k, "commit")
  <2>1. Pass(k) /\ job'[k].pc = "commit"
    BY <1>1, <1>4, JobGoes DEF IInv
  <2>2. QED BY <1>1, <1>2, <2>1, PassOnly
<1>5. CASE JobGoto(k, "miss")
  <2>1. Pass(k) /\ job'[k].pc = "miss"
    BY <1>1, <1>5, JobGoes DEF IInv
  <2>2. QED BY <1>1, <1>2, <2>1, PassOnly
<1>6. CASE JobGoto(k, "charge")
  <2>1. Pass(k) /\ job'[k].pc = "charge"
    BY <1>1, <1>6, JobGoes DEF IInv
  <2>2. QED BY <1>1, <1>2, <2>1, PassOnly
<1>7. QED BY <1>3, <1>4, <1>5, <1>6 DEF LookupTransaction, JobReread, JobAbort, JobFails

(* A statement of a pass advances the row of its candidate; if it goes on  *)
(* to settle Redis, the row was committed.                                 *)
LEMMA PassWrites ==
  ASSUME IInv, NEW k \in Jobs, NEW i \in Ids, job[k].pc # "idle", Pass(k),
         NEW r \in Rows, Write(i, r), r.attempt = row[i].attempt,
         r.sig = row[i].sig, r.stx = row[i].stx,
         \/ r.status = row[i].status
         \/ row[i].status \in Live /\ r.status \in Statuses \ {"released"},
         \/ job'[k].pc = "idle"
         \/ job[k].id = i /\ job[k].attempt = r.attempt /\ r.status = "committed",
         enabled' \in BOOLEAN, UNCHANGED <<key, call, exposed, leaked, landed, expired>>
  PROVE  IInv' /\ Background
<1>1. Advanced /\ RowsTyped' /\ row'[i] = r
  BY RowAdvances DEF IInv
<1>2. Typed'
  BY <1>1 DEF IInv, Typed, CallsTyped, KeysTyped, WorldTyped
<1>3. job'[k].pc \in {"settle", "mark"} => Closed(job[k].id, job[k].attempt)'
  BY <1>1 DEF Pass, Closed, At
<1>4. QED BY <1>1, <1>2, <1>3, PassKeepsInv

(* settleDurably. *)
LEMMA JobCommitKeepsInv ==
  ASSUME IInv, NEW k \in Jobs, JobCommit(k)
  PROVE  IInv' /\ Background
<1>1. /\ job[k].pc # "idle" /\ UNCHANGED <<key, call, exposed, leaked, landed, expired>>
      /\ enabled' = enabled /\ "settle" \in JobPcs
  BY DEF JobCommit, JobPcs
<1>2. PICK i \in Ids : i = job[k].id
  BY <1>1 DEF IInv, JobsAreClosed
<1>3. enabled' \in BOOLEAN
  BY <1>1, FaultIsBoolean DEF IInv
<1>4. CASE JobDone(k) /\ row' = row
  BY <1>1, <1>3, <1>4, JobEnds, PassOnly DEF IInv
<1>5. CASE /\ CanSettle(i, job[k].attempt) /\ Write(i, WithStatus(i, "committed"))
           /\ JobGoto(k, "settle") \/ JobDone(k)
  <2> DEFINE r == WithStatus(i, "committed")
  <2>1. /\ row[i].attempt = job[k].attempt /\ row[i].status \in Live
        /\ "committed" \in Statuses \ {"released"}
    BY <1>5 DEF CanSettle, At, Live, Statuses
  <2>2. r \in Rows /\ r.status = "committed" /\ r.attempt = row[i].attempt
        /\ r.sig = row[i].sig /\ r.stx = row[i].stx /\ Write(i, r)
    BY <1>5, <2>1, RowForms, RowFields DEF IInv, Typed
  <2>3. Pass(k)
    BY <1>1, <1>5, JobGoes, JobEnds DEF IInv
  <2> HIDE DEF r
  <2>4. QED BY <1>1, <1>2, <1>3, <2>1, <2>2, <2>3, PassWrites
<1>6. QED BY <1>2, <1>4, <1>5 DEF JobCommit, Commit

(* markRedisSettled of a pass. *)
LEMMA JobMarkKeepsInv ==
  ASSUME IInv, NEW k \in Jobs, JobMark(k)
  PROVE  IInv' /\ Background
<1>1. /\ job[k].pc # "idle" /\ UNCHANGED <<key, call, exposed, leaked, landed, expired>> /\ JobDone(k)
      /\ enabled' \in {enabled, FALSE} \/ enabled' = enabled
  BY DEF JobMark, Commit, JobFails
<1>2. PICK i \in Ids : i = job[k].id
  BY <1>1 DEF IInv, JobsAreClosed
<1>3. enabled' \in BOOLEAN /\ Pass(k) /\ job'[k].pc = "idle"
  BY <1>1, FaultIsBoolean, JobEnds DEF IInv
<1>4. CASE row' = row
  BY <1>1, <1>3, <1>4, PassOnly
<1>5. CASE Write(i, [row[i] EXCEPT !.settled = TRUE])
  <2> DEFINE r == [row[i] EXCEPT !.settled = TRUE]
  <2>1. r \in Rows /\ r.status = row[i].status /\ r.attempt = row[i].attempt
        /\ r.sig = row[i].sig /\ r.stx = row[i].stx /\ Write(i, r)
    BY <1>5, RowForms, RowFields DEF IInv, Typed
  <2> HIDE DEF r
  <2>2. QED BY <1>1, <1>3, <2>1, PassWrites
<1>6. QED BY <1>2, <1>4, <1>5 DEF JobMark, Commit

(* recordMiss. *)
LEMMA JobMissKeepsInv ==
  ASSUME IInv, NEW k \in Jobs, JobMiss(k)
  PROVE  IInv' /\ Background
<1>1. /\ job[k].pc # "idle" /\ UNCHANGED <<key, call, exposed, leaked, landed, expired>> /\ JobDone(k)
      /\ enabled' = enabled
  BY DEF JobMiss
<1>2. PICK i \in Ids : i = job[k].id
  BY <1>1 DEF IInv, JobsAreClosed
<1>3. enabled' \in BOOLEAN /\ Pass(k) /\ job'[k].pc = "idle"
  BY <1>1, FaultIsBoolean, JobEnds DEF IInv
<1>4. CASE row' = row
  BY <1>1, <1>3, <1>4, PassOnly
<1>5. CASE CanMiss(i, job[k].attempt, 0) /\ Write(i, [row[i] EXCEPT !.miss = @ + 1])
  <2> DEFINE r == [row[i] EXCEPT !.miss = row[i].miss + 1]
  <2>1. row[i] \in Rows /\ row[i].miss = 0
    BY <1>5 DEF IInv, Typed, RowsTyped, CanMiss
  <2>2. r \in Rows /\ r.status = row[i].status /\ r.attempt = row[i].attempt
        /\ r.sig = row[i].sig /\ r.stx = row[i].stx
    BY <2>1 DEF Rows
  <2>3. Write(i, r)
    BY <1>5
  <2> HIDE DEF r
  <2>4. QED BY <1>1, <1>3, <2>2, <2>3, PassWrites
<1>6. QED BY <1>2, <1>4, <1>5 DEF JobMiss

(* persistAmbiguousCharge. *)
LEMMA JobChargeKeepsInv ==
  ASSUME IInv, NEW k \in Jobs, JobCharge(k)
  PROVE  IInv' /\ Background
<1>1. /\ job[k].pc # "idle" /\ UNCHANGED <<key, call, exposed, leaked, landed, expired>>
      /\ enabled' = enabled /\ "reread" \in JobPcs
  BY DEF JobCharge, JobPcs
<1>2. PICK i \in Ids : i = job[k].id
  BY <1>1 DEF IInv, JobsAreClosed
<1>3. enabled' \in BOOLEAN
  BY <1>1, FaultIsBoolean DEF IInv
<1>4. CASE JobGoto(k, "reread") /\ row' = row
  <2>1. Pass(k) /\ job'[k].pc = "reread"
    BY <1>1, <1>4, JobGoes DEF IInv
  <2>2. QED BY <1>1, <1>3, <1>4, <2>1, PassOnly
<1>5. CASE /\ CanCharge(i, job[k].attempt) /\ Write(i, WithStatus(i, "charged_unknown"))
           /\ JobDone(k)
  <2> DEFINE r == WithStatus(i, "charged_unknown")
  <2>1. row[i].status \in Live /\ "charged_unknown" \in Statuses \ {"released"}
    BY <1>5 DEF CanCharge, At, Live, Statuses
  <2>2. r \in Rows /\ r.status = "charged_unknown" /\ r.attempt = row[i].attempt
        /\ r.sig = row[i].sig /\ r.stx = row[i].stx /\ Write(i, r)
    BY <1>5, <2>1, RowForms, RowFields DEF IInv, Typed
  <2>3. Pass(k) /\ job'[k].pc = "idle"
    BY <1>5, JobEnds DEF IInv
  <2> HIDE DEF r
  <2>4. QED BY <1>1, <1>3, <2>1, <2>2, <2>3, PassWrites
<1>6. QED BY <1>2, <1>4, <1>5 DEF JobCharge

(* settle in Redis, from a candidate that may be stale: the attempt is     *)
(* closed all the same.                                                    *)
LEMMA JobSettleKeepsInv ==
  ASSUME IInv, NEW k \in Jobs, JobSettle(k)
  PROVE  IInv' /\ Background
<1>1. /\ job[k].pc = "settle" /\ UNCHANGED <<row, call, exposed, leaked, landed, expired>>
      /\ "mark" \in JobPcs /\ SetKey(job[k].id, job[k].attempt, "settled")
      /\ enabled' \in {enabled, FALSE} \/ enabled' = enabled
      /\ JobGoto(k, "mark") \/ JobDone(k)
  BY DEF JobSettle, JobFails, JobPcs
<1>2. enabled' \in BOOLEAN /\ Pass(k)
  BY <1>1, FaultIsBoolean, JobGoes, JobEnds DEF IInv
<1>3. job[k].id \in Ids /\ job[k].attempt \in Nat /\ Closed(job[k].id, job[k].attempt)
  BY <1>1, ReservationAssumption DEF IInv, JobsAreClosed, JobsTyped, Targets
<1>4. PICK i \in Ids, a \in Nat : i = job[k].id /\ a = job[k].attempt
  BY <1>3
<1>5. SetKey(i, a, "settled") /\ Closed(i, a)
  BY <1>1, <1>3, <1>4
<1>6. /\ KeysTyped'
      /\ \A j \in Ids, b \in Attempts : key'[j][b] = IF j = i /\ b = a THEN "settled" ELSE key[j][b]
  BY <1>5, SetsKey DEF IInv, Typed
<1>7. \A j \in Ids, b \in Attempts : key'[j][b] = "settled" => key[j][b] = "settled" \/ Closed(j, b)
  BY <1>5, <1>6
<1>8. Advanced
  BY <1>1 DEF Advanced
<1>9. Typed'
  BY <1>1, <1>2, <1>6 DEF IInv, Typed, CallsTyped, RowsTyped, WorldTyped
<1>10. job'[k].pc \in {"settle", "mark"} => Closed(job[k].id, job[k].attempt)'
  <2>1. Closed(i, a)'
    BY <1>5, <1>8, AdvancedRows
  <2>2. QED BY <1>2, <1>4, <2>1 DEF Closed, At, Pass
<1>11. QED BY <1>1, <1>2, <1>7, <1>8, <1>9, <1>10, PassKeepsInv

(* A candidate listed for settlement was terminal when it was listed. *)
LEMMA ListKeepsInv ==
  ASSUME IInv, NEW k \in Jobs, NEW i \in Ids, ListCandidate(k, i)
  PROVE  IInv' /\ Background
<1> DEFINE p == IF row[i].status \notin Live THEN "settle"
                ELSE IF row[i].sig = NoSig THEN "charge" ELSE "lookup"
           t == JobTarget(i, p)
<1>1. /\ UNCHANGED <<row, key, enabled, call, exposed, leaked, landed, expired>>
      /\ job' = [job EXCEPT ![k] = t]
      /\ row[i].status \in Live \/ row[i].status \in {"committed", "released"}
  BY DEF ListCandidate
<1>2. row[i] \in Rows /\ p \in JobPcs
  BY DEF IInv, Typed, RowsTyped, JobPcs
<1>3. t \in Targets
  BY <1>2 DEF Targets, JobTarget, Rows
<1>4. t.pc = p /\ t.id = i /\ t.attempt = row[i].attempt
  BY DEF JobTarget
<1>5. p = "settle" => row[i].status \in {"committed", "released"}
  BY <1>1
<1>6. p # "mark"
  OBVIOUS
<1> HIDE DEF p, t
<1>7. JobsTyped' /\ job'[k] = t /\ \A l \in Jobs \ {k} : job'[l] = job[l]
  BY <1>1, <1>3 DEF IInv, JobsTyped
<1>8. Advanced
  BY <1>1 DEF Advanced
<1>9. ASSUME NEW l \in Jobs
      PROVE  /\ job'[l].pc # "idle" => job'[l].id \in Ids
             /\ job'[l].pc \in {"settle", "mark"} => Closed(job[l].id, job[l].attempt)'
  <2>1. CASE l # k
    <3>1. job'[l] = job[l]
      BY <1>7, <2>1
    <3>2. QED BY <1>8, <3>1, JobsStay
  <2>2. CASE l = k
    BY <1>1, <1>4, <1>5, <1>6, <1>7, <2>2 DEF Closed, At
  <2>3. QED BY <2>1, <2>2
<1>10. JobsAreClosed'
  BY <1>9 DEF JobsAreClosed
<1>11. Typed'
  BY <1>1 DEF IInv, Typed, CallsTyped, RowsTyped, KeysTyped, WorldTyped
<1>12. \A j \in Ids, a \in Attempts : key'[j][a] = "settled" => key[j][a] = "settled"
  BY <1>1
<1>13. QED BY <1>1, <1>7, <1>8, <1>10, <1>11, <1>12, CallsStay, KeysStay DEF IInv, Background

(* The chain, operators and lost keys. *)
LEMMA WorldKeepsInv ==
  ASSUME IInv, call' = call, row' = row, job' = job, exposed' = exposed,
         enabled' \in BOOLEAN, leaked' = leaked, landed' \subseteq Messages, expired' \subseteq Messages,
         KeysTyped', \A j \in Ids, a \in Attempts : key'[j][a] = "settled" => key[j][a] = "settled"
  PROVE  IInv' /\ Background
<1>1. Advanced
  BY DEF Advanced
<1>2. Typed' /\ JobsTyped'
  BY DEF IInv, Typed, JobsTyped, CallsTyped, RowsTyped, WorldTyped
<1>3. JobsAreClosed'
  BY <1>1, JobsStay DEF JobsAreClosed
<1>4. QED BY <1>1, <1>2, <1>3, CallsStay, KeysStay DEF IInv, Background
-----------------------------------------------------------------------------
(* A new request owns nothing. *)
LEMMA BeginKeepsInv ==
  ASSUME IInv, NEW c \in Callers, NEW i \in Ids, NEW op \in OpsOf[i], Begin(c, i, op)
  PROVE  IInv' /\ Background
<1> DEFINE a == IF row[i].status \in {"absent", "released"} THEN row[i].attempt + 1 ELSE row[i].attempt
           x == [Idle EXCEPT !.pc = "policies", !.id = i, !.op = op, !.attempt = a]
<1>1. /\ call[c].pc = "idle" /\ a \in Attempts /\ call' = [call EXCEPT ![c] = x]
      /\ UNCHANGED <<row, key, enabled, job, exposed, leaked, landed, expired>>
  BY DEF Begin
<1>2. op \in Ops /\ a \in 0..MaxAttempt
  BY <1>1, ReservationAssumption DEF Attempts
<1>3. /\ x.pc = "policies" /\ x.id = i /\ x.op = op /\ x.attempt = a /\ x.round = 1
      /\ x.dup = FALSE
  BY DEF Idle
<1>4. Idle \in Calls
  BY ReservationAssumption DEF Idle, Calls, Pcs, Ops
<1>5. x \in Calls
  BY <1>2, <1>4 DEF Calls, Pcs
<1> HIDE DEF a, x
<1>6. CallsTyped' /\ call'[c] = x /\ \A d \in Callers \ {c} : call'[d] = call[d]
  BY <1>1, <1>5 DEF IInv, Typed, CallsTyped
<1>7. ASSUME NEW d \in Callers
      PROVE  /\ Owning(d)' <=> Owning(d)
             /\ Owning(d) => call'[d] = call[d] /\ Safe(d)' = Safe(d)
  <2>1. CASE d # c
    BY <1>6, <2>1 DEF Owning, Safe
  <2>2. CASE d = c
    BY <1>1, <1>3, <1>6, <2>2 DEF Owning
  <2>3. QED BY <2>1, <2>2
<1>8. Typed' /\ JobsTyped'
  BY <1>1, <1>6 DEF IInv, Typed, RowsTyped, KeysTyped, WorldTyped, JobsTyped
<1>9. Busy'
  <2>1. ASSUME NEW d \in Callers, call'[d].pc # "idle"
        PROVE  /\ call'[d].id \in Ids /\ call'[d].attempt \in Attempts
               /\ call'[d].op \in OpsOf[call'[d].id]
               /\ call'[d].pc = "create" => call'[d].attempt = 1
    <3>1. CASE d # c
      BY <1>6, <2>1, <3>1 DEF IInv, Busy
    <3>2. CASE d = c
      BY <1>1, <1>3, <1>6, <3>2
    <3>3. QED BY <3>1, <3>2
  <2>2. QED BY <2>1 DEF Busy
<1>10. AbsentIsNew' /\ Signatures'
  BY <1>1 DEF IInv, AbsentIsNew, Signatures
<1>11. SoleOwner' /\ OwnerIsCurrent'
  BY <1>1, <1>7 DEF IInv, SoleOwner, OwnerIsCurrent
<1>12. ASSUME NEW j \in Ids PROVE (Unowned(j) => Unowned(j)') /\ (Sealed(j) => Sealed(j)')
  BY <1>1, <1>7 DEF Unowned, Sealed, Charged
<1>13. Recorded' /\ Covered'
  BY <1>1, <1>12 DEF IInv, Recorded, Covered, Charged
<1>14. ASSUME NEW d \in Callers
       PROVE  /\ call'[d].pc # "idle" /\ call'[d].dup => call'[d] = call[d]
              /\ call'[d].pc \in {"refund", "mark"} => call'[d] = call[d]
  BY <1>3, <1>6
<1>15. Duplicates'
  BY <1>1, <1>14 DEF IInv, Duplicates, SignedElsewhere
<1>16. RefundsAreClosed' /\ JobsAreClosed' /\ SettledAfterTerminal'
  BY <1>1, <1>14 DEF IInv, RefundsAreClosed, JobsAreClosed, SettledAfterTerminal, Closed, At
<1>17. QED BY <1>1, <1>8, <1>9, <1>10, <1>11, <1>13, <1>15, <1>16 DEF IInv, Background, Advanced

(* A replayed sign hands out what a charged row has recorded. *)
LEMMA ReplayKeepsInv ==
  ASSUME IInv, NEW c \in Callers, NEW i \in Ids, "sign" \in OpsOf[i], ReplaySign(c, i)
  PROVE  IInv'
<1>1. /\ row[i].stx /\ exposed' = exposed \cup {MessageOf[i]}
      /\ UNCHANGED <<row, key, enabled, call, job, leaked, landed, expired>>
  BY DEF ReplaySign, HasResponse
<1>2. MessageOf[i] \in Messages
  BY ReservationAssumption
<1>3. row[i].sig = MessageOf[i] /\ "owned" \notin OpsOf[i]
  BY <1>1, OwnedMessagesAreApart DEF IInv, Signatures
<1>4. \E j \in Ids : MessageOf[j] = MessageOf[i] /\ Sealed(j)
  BY <1>2, <1>3, SignedIsSealed DEF SignedElsewhere
<1>5. ASSUME NEW d \in Callers PROVE (Owning(d)' <=> Owning(d)) /\ (Safe(d)' <=> Safe(d))
  BY <1>1 DEF Owning, Safe
<1>6. ASSUME NEW j \in Ids
      PROVE  /\ (Charged(j)' <=> Charged(j)) /\ (Unowned(j)' <=> Unowned(j))
             /\ (Sealed(j)' <=> Sealed(j))
  BY <1>1, <1>5 DEF Charged, Unowned, Sealed
<1>7. Covered'
  BY <1>1, <1>4, <1>6 DEF IInv, Covered
<1>8. Typed' /\ JobsTyped'
  BY <1>1, <1>2 DEF IInv, Typed, CallsTyped, RowsTyped, KeysTyped, WorldTyped, JobsTyped
<1>9. Busy' /\ AbsentIsNew' /\ SoleOwner' /\ OwnerIsCurrent' /\ Signatures'
  BY <1>1, <1>5 DEF IInv, Busy, AbsentIsNew, SoleOwner, OwnerIsCurrent, Signatures
<1>10. Recorded' /\ Duplicates'
  BY <1>1, <1>6 DEF IInv, Recorded, Duplicates, SignedElsewhere
<1>11. RefundsAreClosed' /\ JobsAreClosed' /\ SettledAfterTerminal'
  BY <1>1 DEF IInv, RefundsAreClosed, JobsAreClosed, SettledAfterTerminal, Closed, At
<1>12. QED BY <1>7, <1>8, <1>9, <1>10, <1>11 DEF IInv

(* The invariant holds initially. *)
LEMMA InitEstablishes == Init => IInv
<1> SUFFICES ASSUME Init PROVE IInv
  OBVIOUS
<1>1. MaxAttempt \in Nat /\ Idle \in Calls /\ JobIdle \in Targets /\ Absent \in Rows
  <2>1. MaxAttempt \in Nat
    BY ReservationAssumption
  <2>2. Idle \in Calls
    BY <2>1 DEF Idle, Calls, Pcs, Ops
  <2>3. JobIdle \in Targets
    BY <2>1 DEF JobIdle, Targets, JobPcs
  <2>4. Absent \in Rows
    BY <2>1 DEF Absent, Rows
  <2>5. QED BY <2>1, <2>2, <2>3, <2>4
<1>2. Typed /\ JobsTyped
  <2>1. CallsTyped /\ RowsTyped /\ JobsTyped
    BY <1>1 DEF Init, CallsTyped, RowsTyped, JobsTyped
  <2>2. KeysTyped /\ WorldTyped
    BY DEF Init, KeysTyped, Keys, WorldTyped
  <2>3. QED BY <2>1, <2>2 DEF Typed
<1>3. \A c \in Callers : call[c].pc = "idle"
  BY DEF Init, Idle
<1>4. \A k \in Jobs : job[k].pc = "idle"
  BY DEF Init, JobIdle
<1>5. \A i \in Ids : /\ row[i].status = "absent" /\ row[i].attempt = 0
                     /\ row[i].sig = NoSig /\ row[i].stx = FALSE
  <2>0. row = [i \in Ids |-> Absent]
    BY DEF Init
  <2>1. \A i \in Ids : row[i] = Absent
    BY <2>0, Zenon
  <2>2. Absent.status = "absent" /\ Absent.attempt = 0 /\ Absent.sig = NoSig /\ Absent.stx = FALSE
    BY DEF Absent
  <2>3. QED BY <2>1, <2>2, Zenon
<1>6. \A i \in Ids, a \in Attempts : key[i][a] = "none"
  BY DEF Init
<1>7. Busy /\ SoleOwner /\ OwnerIsCurrent /\ Duplicates /\ RefundsAreClosed
  BY <1>3 DEF Busy, SoleOwner, OwnerIsCurrent, Duplicates, RefundsAreClosed, Owning
<1>8. AbsentIsNew /\ Signatures /\ Recorded
  BY <1>5 DEF AbsentIsNew, Signatures, Recorded
<1>9. Covered /\ JobsAreClosed /\ SettledAfterTerminal
  BY <1>4, <1>6 DEF Init, Covered, JobsAreClosed, SettledAfterTerminal
<1>10. QED BY <1>2, <1>7, <1>8, <1>9 DEF IInv

(* Every step that is neither a step of a request nor a replay. *)
LEMMA BackgroundSteps ==
  ASSUME IInv, [Next]_vars,
         ~\E c \in Callers : CallerStep(c) \/ \E i \in Ids : "sign" \in OpsOf[i] /\ ReplaySign(c, i)
  PROVE  IInv' /\ Background
<1>1. ASSUME NEW c \in Callers, NEW i \in Ids, NEW op \in OpsOf[i], Begin(c, i, op) PROVE IInv' /\ Background
  BY <1>1, BeginKeepsInv
<1>2. ASSUME NEW k \in Jobs, JobStep(k) PROVE IInv' /\ Background
  BY <1>2, QuietJobSteps, JobCommitKeepsInv, JobMarkKeepsInv, JobMissKeepsInv,
     JobChargeKeepsInv, JobSettleKeepsInv DEF JobStep
<1>3. ASSUME NEW k \in Jobs, NEW i \in Ids, ListCandidate(k, i) PROVE IInv' /\ Background
  BY <1>3, ListKeepsInv
<1>4. KeysTyped /\ enabled \in BOOLEAN /\ landed \subseteq Messages /\ expired \subseteq Messages
  BY DEF IInv, Typed, CallsTyped, WorldTyped
<1>5. ASSUME NEW m \in Messages, Land(m) \/ Expire(m) PROVE IInv' /\ Background
  <2>1. /\ UNCHANGED <<row, key, enabled, call, job, exposed, leaked>>
        /\ landed' \subseteq Messages /\ expired' \subseteq Messages
    BY <1>4, <1>5 DEF Land, Expire
  <2>2. KeysTyped' /\ enabled' \in BOOLEAN
    BY <1>4, <2>1 DEF KeysTyped
  <2>3. QED BY <2>1, <2>2, WorldKeepsInv
<1>6. ASSUME NEW e \in BOOLEAN, SetEnabled(e) PROVE IInv' /\ Background
  <2>1. UNCHANGED <<row, key, call, job, exposed, leaked, landed, expired>> /\ enabled' \in BOOLEAN
    BY <1>6 DEF SetEnabled
  <2>2. KeysTyped' /\ landed' \subseteq Messages /\ expired' \subseteq Messages
    BY <1>4, <2>1 DEF KeysTyped
  <2>3. QED BY <2>1, <2>2, WorldKeepsInv
<1>7. ASSUME NEW i \in Ids, NEW a \in Attempts, ForgetKey(i, a) PROVE IInv' /\ Background
  <2>1. /\ UNCHANGED <<row, enabled, call, job, exposed, leaked, landed, expired>>
        /\ SetKey(i, a, "none")
    BY <1>7 DEF ForgetKey
  <2>2. /\ KeysTyped'
        /\ \A j \in Ids, b \in Attempts : key'[j][b] = IF j = i /\ b = a THEN "none" ELSE key[j][b]
    BY <1>4, <2>1, SetsKey
  <2>3. \A j \in Ids, b \in Attempts : key'[j][b] = "settled" => key[j][b] = "settled"
    BY <2>2
  <2>4. enabled' \in BOOLEAN /\ landed' \subseteq Messages /\ expired' \subseteq Messages
    BY <1>4, <2>1
  <2>5. QED BY <2>1, <2>2, <2>3, <2>4, WorldKeepsInv
<1>8. CASE UNCHANGED vars
  <2>1. /\ UNCHANGED <<row, key, enabled, call, job, exposed, leaked, landed, expired>>
    BY <1>8 DEF vars
  <2>2. KeysTyped' /\ enabled' \in BOOLEAN /\ landed' \subseteq Messages /\ expired' \subseteq Messages
    BY <1>4, <2>1 DEF KeysTyped
  <2>3. QED BY <2>1, <2>2, WorldKeepsInv
<1>9. QED BY <1>1, <1>2, <1>3, <1>5, <1>6, <1>7, <1>8 DEF Next

(* The invariant is inductive. *)
LEMMA NextKeepsInv == IInv /\ [Next]_vars => IInv'
BY CallerStepKeepsInv, ReplayKeepsInv, BackgroundSteps

(* The inductive invariant holds in every reachable state. *)
LEMMA InvariantHolds == Spec => []IInv
BY InitEstablishes, NextKeepsInv, PTL DEF Spec

(* Every variable keeps its type (TypeOK), for any number of ids,          *)
(* requests, passes and attempts.                                          *)
THEOREM Types == Spec => []TypeOK
<1>1. IInv => TypeOK
  BY TypeOKParts DEF IInv, Typed
<1>2. QED BY <1>1, InvariantHolds, PTL

(* No two requests ever work on the same attempt (SoleOwner): the insert   *)
(* with ON CONFLICT DO NOTHING and the guarded reopening admit one owner,  *)
(* whoever dies, retries or reconciles.                                    *)
THEOREM OneOwner == Spec => []SoleOwner
<1>1. IInv => SoleOwner
  BY DEF IInv
<1>2. QED BY <1>1, InvariantHolds, PTL

(* Nobody releases or reopens an attempt under its owner (OwnerIsCurrent), *)
(* reconciliation with a stale candidate included.                         *)
THEOREM OwnerNotOvertaken == Spec => []OwnerIsCurrent
<1>1. IInv => OwnerIsCurrent
  BY DEF IInv
<1>2. QED BY <1>1, InvariantHolds, PTL

(* Redis is settled only for attempts that are terminal in Postgres        *)
(* (SettledAfterTerminal).                                                 *)
THEOREM SettlementFollows == Spec => []SettledAfterTerminal
<1>1. IInv => SettledAfterTerminal
  BY DEF IInv
<1>2. QED BY <1>1, InvariantHolds, PTL

(* The inductive form implies the property. *)
LEMMA CoveredIsCharged == Covered => ExposedIsCharged
BY DEF Covered, Sealed, ExposedIsCharged

(* Every signed transaction that left the service is charged to a          *)
(* reservation (ExposedIsCharged), whatever failed, whoever signed it      *)
(* twice and whenever reconciliation came by, but for what a retried       *)
(* signAndSend let out and then reported as rejected (`leaked`).           *)
THEOREM EverythingSentIsCharged == Spec => []ExposedIsCharged
<1>1. IInv => ExposedIsCharged
  BY CoveredIsCharged DEF IInv
<1>2. QED BY <1>1, InvariantHolds, PTL

-----------------------------------------------------------------------------
(* The phase of a row by its status. *)
LEMMA Phases ==
  ASSUME NEW i \in Ids, RowsTyped
  PROVE  /\ row[i].status = "absent" => Phase(row[i]) = "none"
         /\ row[i].status \in Live => Phase(row[i]) = "held"
         /\ row[i].status \in {"committed", "charged_unknown"} => Phase(row[i]) = "charged"
         /\ row[i].status = "released" => Phase(row[i]) = "refunded"
         /\ row[i].status \in Statuses \cup {"absent"}
<1>1. row[i].status \in Statuses \cup {"absent"}
  BY DEF RowsTyped, Rows
<1>2. QED BY <1>1 DEF Phase, Live, Statuses

(* One row moves, one phase moves. *)
LEMMA OnePhaseMoves ==
  ASSUME NEW i \in Ids, NEW v, \A j \in Ids \ {i} : row'[j] = row[j], Phase(row'[i]) = v
  PROVE  [j \in Ids |-> Phase(row'[j])] = [[j \in Ids |-> Phase(row[j])] EXCEPT ![i] = v]
OBVIOUS

(* A row that advances is a charge in the ledger, or nothing. *)
LEMMA KeptRefines ==
  ASSUME RowsTyped, RowsTyped', exposed' = exposed, NEW i \in Ids, Kept(i),
         \A j \in Ids \ {i} : row'[j] = row[j]
  PROVE  [Ledger!LedgerNext]_Ledger!ledger
<1>1. [j \in Ids |-> row'[j].attempt] = [j \in Ids |-> row[j].attempt]
  BY DEF Kept
<1>2. CASE Phase(row'[i]) = Phase(row[i])
  <2>1. [j \in Ids |-> Phase(row'[j])] = [j \in Ids |-> Phase(row[j])]
    BY <1>2
  <2>2. QED BY <1>1, <2>1 DEF Ledger!ledger
<1>3. CASE Phase(row'[i]) # Phase(row[i])
  <2>1. row[i].status \in Live /\ row'[i].status \in {"committed", "charged_unknown"}
    <3>1. row'[i].status # row[i].status
      BY <1>3 DEF Phase
    <3>2. row[i].status \in Live /\ row'[i].status \in Statuses \ {"released"}
      BY <3>1 DEF Kept
    <3>3. row'[i].status \notin Live
      BY <1>3, <3>2, Phases DEF Phase, Live
    <3>4. QED BY <3>2, <3>3 DEF Statuses
  <2>2. Phase(row[i]) = "held" /\ Phase(row'[i]) = "charged"
    BY <2>1 DEF Phase, Live
  <2>3. [j \in Ids |-> Phase(row'[j])] = [[j \in Ids |-> Phase(row[j])] EXCEPT ![i] = "charged"]
    BY <2>2, OnePhaseMoves
  <2>4. Ledger!Charge(i)
    BY <1>1, <2>2, <2>3 DEF Ledger!Charge
  <2>5. QED BY <2>4 DEF Ledger!LedgerNext
<1>4. QED BY <1>2, <1>3

(* A step of a request holds, gives back, charges or exposes in the        *)
(* ledger, or does nothing there.                                          *)
LEMMA RequestRefines ==
  ASSUME IInv, IInv', NEW c \in Callers, NEW i \in Ids, Moves(c, i)
  PROVE  [Ledger!LedgerNext]_Ledger!ledger
<1>1. RowsTyped /\ RowsTyped' /\ ExposedIsCharged' /\ \A j \in Ids \ {i} : row'[j] = row[j]
  BY CoveredIsCharged, BystandersStay DEF IInv, Typed, Covered, Sealed, ExposedIsCharged
<1>2. row[i].attempt \in Nat
  BY <1>1, RowFields
<1>3. CASE exposed' = exposed /\ (Kept(i) \/ row' = row)
  BY <1>1, <1>3, KeptRefines DEF Kept
<1>4. CASE exposed' = exposed \cup {MessageOf[i]} /\ SamePhase(i)
  <2>1. Phase(row'[i]) = Phase(row[i])
    BY <1>4 DEF SamePhase, Phase, Live
  <2>2. /\ [j \in Ids |-> Phase(row'[j])] = [j \in Ids |-> Phase(row[j])]
        /\ [j \in Ids |-> row'[j].attempt] = [j \in Ids |-> row[j].attempt]
    BY <1>1, <1>4, <2>1 DEF SamePhase
  <2>3. PICK j \in Ids : MessageOf[j] = MessageOf[i] /\ Charged(j)'
    BY <1>1, <1>4 DEF ExposedIsCharged
  <2>4. Phase(row[j]) \in {"held", "charged"}
    <3>1. Phase(row'[j]) = Phase(row[j])
      BY <1>1, <2>1
    <3>2. row'[j].status \in Statuses /\ row'[j].status # "released"
      BY <1>1, <2>3 DEF Charged, RowsTyped, Rows
    <3>3. QED BY <3>1, <3>2 DEF Phase, Statuses, Live
  <2>5. Ledger!Expose(MessageOf[i])
    BY <1>4, <2>2, <2>3, <2>4 DEF Ledger!Expose, Ledger!PaidFor, Ledger!Charging
  <2>6. QED BY <2>5, ReservationAssumption DEF Ledger!LedgerNext
<1>5. CASE exposed' = exposed /\ Takes(c, i)
  <2>1. row'[i].status = "reserved" /\ row'[i].attempt = row[i].attempt + 1
    BY <1>5, RowAfter DEF IInv, Takes
  <2>2. Phase(row'[i]) = "held" /\ Phase(row[i]) \in {"none", "refunded"}
    BY <1>5, <2>1 DEF Takes, Charged, Phase, Live
  <2>3. [j \in Ids |-> Phase(row'[j])] = [[j \in Ids |-> Phase(row[j])] EXCEPT ![i] = "held"]
    BY <1>1, <2>2, OnePhaseMoves
  <2>4. [j \in Ids |-> row'[j].attempt] = [[j \in Ids |-> row[j].attempt] EXCEPT ![i] = @ + 1]
    BY <1>1, <2>1
  <2>5. Ledger!Hold(i)
    BY <1>5, <2>2, <2>3, <2>4 DEF Ledger!Hold
  <2>6. QED BY <2>5 DEF Ledger!LedgerNext
<1>6. CASE exposed' = exposed /\ GivesBack(c, i)
  <2>1. row[i].status \in Live /\ row'[i].status = "released" /\ row'[i].attempt = row[i].attempt
    BY <1>6, RowAfter DEF IInv, GivesBack
  <2>2. Phase(row[i]) = "held" /\ Phase(row'[i]) = "refunded"
    BY <2>1 DEF Phase, Live
  <2>3. [j \in Ids |-> Phase(row'[j])] = [[j \in Ids |-> Phase(row[j])] EXCEPT ![i] = "refunded"]
    BY <1>1, <2>2, OnePhaseMoves
  <2>4. [j \in Ids |-> row'[j].attempt] = [j \in Ids |-> row[j].attempt]
    BY <1>1, <2>1
  <2>5. ASSUME NEW m \in exposed
        PROVE  \E j \in Ids : MessageOf[j] = m /\ Phase(row'[j]) \in {"held", "charged"}
    <3>1. PICK j \in Ids : MessageOf[j] = m /\ Charged(j)'
      BY <1>1, <1>6 DEF ExposedIsCharged
    <3>2. row'[j].status \in Statuses /\ row'[j].status # "released"
      BY <1>1, <3>1 DEF Charged, RowsTyped, Rows
    <3>3. Phase(row'[j]) \in {"held", "charged"}
      BY <3>2 DEF Phase, Statuses, Live
    <3>4. QED BY <3>1, <3>3
  <2>6. Ledger!GiveBack(i)
    BY <1>6, <2>2, <2>3, <2>4, <2>5 DEF Ledger!GiveBack, Ledger!PaidFor, Ledger!Charging
  <2>7. QED BY <2>6 DEF Ledger!LedgerNext
<1>7. QED
  BY <1>3, <1>4, <1>5, <1>6 DEF Moves, StepOf, Keeps, Yields

(* Reconciliation and the rest of the world charge in the ledger, or do    *)
(* nothing there.                                                          *)
LEMMA BackgroundRefines ==
  ASSUME IInv, IInv', Background
  PROVE  [Ledger!LedgerNext]_Ledger!ledger
<1>1. RowsTyped /\ RowsTyped' /\ exposed' = exposed
  BY DEF IInv, Typed, Background
<1>2. CASE row' = row
  BY <1>1, <1>2 DEF Ledger!ledger
<1>3. CASE \E i \in Ids : Kept(i) /\ \A j \in Ids \ {i} : row'[j] = row[j]
  BY <1>1, <1>3, KeptRefines
<1>4. QED BY <1>2, <1>3 DEF Background, Advanced

(* A replayed sign exposes a message that is paid for. *)
LEMMA ReplayRefines ==
  ASSUME IInv, IInv', NEW c \in Callers, NEW i \in Ids, ReplaySign(c, i)
  PROVE  [Ledger!LedgerNext]_Ledger!ledger
<1>1. row' = row /\ exposed' = exposed \cup {MessageOf[i]}
  BY DEF ReplaySign
<1>2. PICK j \in Ids : MessageOf[j] = MessageOf[i] /\ Charged(j)'
  BY <1>1, CoveredIsCharged DEF IInv, Covered, Sealed
<1>3. RowsTyped
  BY DEF IInv, Typed
<1>4. Phase(row[j]) \in {"held", "charged"}
  BY <1>1, <1>2, <1>3, Phases DEF Charged, Statuses
<1>5. Ledger!Expose(MessageOf[i])
  BY <1>1, <1>2, <1>4 DEF Ledger!Expose, Ledger!PaidFor, Ledger!Charging
<1>6. QED BY <1>5, ReservationAssumption DEF Ledger!LedgerNext

(* Every step is a step of the ledger or stutters in it. *)
LEMMA NextRefines == IInv /\ IInv' /\ [Next]_vars => [Ledger!LedgerNext]_Ledger!ledger
<1> SUFFICES ASSUME IInv, IInv', [Next]_vars PROVE [Ledger!LedgerNext]_Ledger!ledger
  OBVIOUS
<1>1. ASSUME NEW c \in Callers, CallerStep(c) PROVE [Ledger!LedgerNext]_Ledger!ledger
  <2>1. Ready
    BY DEF IInv, Ready
  <2>2. PICK i \in Ids : i = call[c].id
    BY <1>1, <2>1, CallerStepOf
  <2>3. Moves(c, i)
    BY <1>1, <2>1, <2>2, CallerStepOf DEF Moves
  <2>4. QED BY <2>3, RequestRefines
<1>2. ASSUME NEW c \in Callers, NEW i \in Ids, ReplaySign(c, i)
      PROVE  [Ledger!LedgerNext]_Ledger!ledger
  BY <1>2, ReplayRefines
<1>3. CASE ~\E c \in Callers :
             CallerStep(c) \/ \E i \in Ids : "sign" \in OpsOf[i] /\ ReplaySign(c, i)
  BY <1>3, BackgroundSteps, BackgroundRefines
<1>4. QED BY <1>1, <1>2, <1>3

(* The rows, requests and reconciliation passes implement the abstract     *)
(* ledger (ImplementsLedger): attempts open only where nothing is          *)
(* outstanding, charges are final, and nothing that left the service loses *)
(* its payment, what signAndSend leaks in its own retries excepted.        *)
THEOREM Refinement == Spec => ImplementsLedger
<1>1. Init => Ledger!LedgerInit
  <2>1. SUFFICES ASSUME Init PROVE Ledger!LedgerInit
    OBVIOUS
  <2>2. row = [i \in Ids |-> Absent] /\ exposed = {}
    BY <2>1 DEF Init
  <2>3. Absent.status = "absent" /\ Absent.attempt = 0
    BY DEF Absent
  <2>4. Phase(Absent) = "none"
    BY <2>3 DEF Phase, Live
  <2>5. QED BY <2>2, <2>3, <2>4 DEF Ledger!LedgerInit
<1>2. QED
  BY <1>1, NextRefines, InvariantHolds, PTL DEF Spec, ImplementsLedger, Ledger!LedgerSpec
=============================================================================
