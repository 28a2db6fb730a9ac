---------------------------- MODULE EventsProofs ----------------------------
(***************************************************************************)
(* The seat map a subscriber keeps is current but for what is under way or *)
(* lost, for any number of handlers, reapers, seats, legs and holds.       *)
(***************************************************************************)
EXTENDS Events, SequenceTheorems, FiniteSetTheorems, TLAPS

L == INSTANCE SeatLedgerProofs

-----------------------------------------------------------------------------
(* The steps are steps of the ledger, so its invariants hold here.         *)

LEMMA LedgerStep ==
  ASSUME now \in Nat, [Next]_vars
  PROVE  [L!Next]_(L!vars) /\ now' \in Nat
<1> USE DEF L!vars, L!tables, tables
<1>1. ASSUME NEW w \in Workers, NEW ref \in Refs, NEW seat \in Seats,
             NEW legs \in SUBSET Legs, NEW expires \in Expiries(now),
             Hold(w, ref, seat, legs, expires)
      PROVE  L!Next /\ now' = now
  <2>1. L!Hold(ref, seat, legs, now, expires) /\ now' = now
    BY <1>1 DEF Hold, Ledger!Hold, L!Hold, Ledger!Cover, L!Cover, Ledger!Free,
                L!Free, Ledger!WriteHold, L!WriteHold
  <2>2. now \in 0..now /\ expires \in L!Expiries(now)
    BY DEF Expiries, L!Expiries
  <2> QED
    BY <2>1, <2>2 DEF L!Next
<1>2. ASSUME NEW w \in Workers, NEW ref \in Refs, NEW booking \in Bookings,
             Confirm(w, ref, booking)
      PROVE  L!Next /\ now' = now
  BY <1>2 DEF Confirm, Ledger!Confirm, L!Confirm, L!Next, Ledger!Active, L!Active,
              Ledger!WriteBooking, L!WriteBooking
<1>3. ASSUME NEW w \in Workers, NEW ref \in Refs, Release(w, ref)
      PROVE  L!Next /\ now' = now
  BY <1>3 DEF Release, Ledger!Release, L!Release, L!Next, Ledger!Active, L!Active,
              Ledger!DropHolds, L!DropHolds, Ledger!FreeRowsOf, L!FreeRowsOf,
              Ledger!DeleteHolds, L!DeleteHolds,
              Ledger!Restrict, L!Restrict
<1>4. ASSUME NEW w \in Workers, NEW seat \in Seats, NEW legs \in SUBSET Legs,
             Cancel(w, seat, legs)
      PROVE  L!Next /\ now' = now
  BY <1>4 DEF Cancel, Ledger!Cancel, L!Cancel, L!Next, Ledger!Cover, L!Cover,
              Ledger!ClearRows, L!ClearRows
<1>5. ASSUME NEW p \in Reapers, NEW refs \in SUBSET Refs, Reap(p, refs)
      PROVE  L!Next /\ now' = now
  <2>1. L!Reap(refs)
    BY <1>5 DEF Reap, Ledger!Reap, L!Reap, Ledger!Active, L!Active,
                Ledger!ExpiredAt, L!ExpiredAt, Ledger!Cardinality, L!Cardinality,
                Ledger!DropHolds, L!DropHolds, Ledger!FreeRowsOf, L!FreeRowsOf,
                Ledger!DeleteHolds, L!DeleteHolds, Ledger!Restrict, L!Restrict
  <2>2. now' = now
    BY <2>1 DEF L!Reap
  <2> QED
    BY <2>1, <2>2 DEF L!Next
<1>6. ASSUME NEW p \in Reapers, NEW skew \in Skews, Purge(p, skew)
      PROVE  L!Next /\ now' = now
  BY <1>6 DEF Purge, Ledger!Purge, L!Purge, L!Next, Ledger!PurgeHolds, L!PurgeHolds,
              Ledger!Purgeable, L!Purgeable, Ledger!Consumed, L!Consumed,
              Ledger!Active, L!Active, Ledger!DeleteHolds, L!DeleteHolds,
              Ledger!Restrict, L!Restrict
<1>7. CASE Tick
  BY <1>7 DEF Tick, Ledger!Tick, L!Tick, Ledger!Advance, L!Advance, L!Next,
              Ledger!tables
<1>8. CASE UNCHANGED <<now, tables>>
  BY <1>8
<1>9. ASSUME NEW p \in Procs, Publish(p) \/ PublishFails(p) \/ Dropped(p)
      PROVE  UNCHANGED <<now, tables>>
  BY <1>9 DEF Publish, PublishFails, Dropped
<1>10. CASE Receive \/ Disconnect
  BY <1>10 DEF Receive, Disconnect
<1>11. CASE UNCHANGED vars
  BY <1>11 DEF vars
<1> QED
  BY <1>1, <1>2, <1>3, <1>4, <1>5, <1>6, <1>7, <1>8, <1>9, <1>10, <1>11
  DEF Next, Operate

LEMMA LedgerInvariants ==
  Spec => [](TablesTypeOK /\ NoOrphanHoldRef)
<1>1. Init => L!Init /\ now \in Nat
  BY DEF Init, TablesInit, L!Init, L!TablesInit
<1>2. now \in Nat /\ [Next]_vars => [L!Next]_(L!vars) /\ (now \in Nat)'
  BY LedgerStep
<1>3. Spec => L!Spec
  BY <1>1, <1>2, PTL DEF Spec, L!Spec
<1>4. L!TypeOK /\ L!NoOrphanHoldRef => TablesTypeOK /\ NoOrphanHoldRef
  BY DEF L!TypeOK, L!TablesTypeOK, TablesTypeOK, L!InventoryRow, InventoryRow,
         L!HoldRow, HoldRow, L!NoOrphanHoldRef, NoOrphanHoldRef, L!Active, Active,
         L!RowsOfHold, RowsOfHold, L!Cover, Cover
<1>5. L!TablesAssumption
  BY TablesAssumption DEF L!TablesAssumption, L!AllKinds, AllKinds
<1>6. L!Spec => []L!TypeOK
  BY <1>5, L!TypeCorrect
<1>7. L!Spec => []L!NoOrphanHoldRef
  BY <1>5, L!NoOrphans
<1> QED
  BY <1>3, <1>4, <1>6, <1>7, PTL

-----------------------------------------------------------------------------
(* Queues of events.                                                       *)

LEMMA NamedInEmpty == NamedIn(<<>>) = {}
  BY DEF NamedIn

LEMMA NamedInSingle ==
  ASSUME NEW e PROVE NamedIn(<<e>>) = Named(e)
  BY DEF NamedIn

LEMMA NamedInHeadTail ==
  ASSUME NEW s \in Seq(Event), s # <<>>
  PROVE  NamedIn(s) = Named(Head(s)) \cup NamedIn(Tail(s))
<1>1. /\ Len(s) \in Nat \ {0} /\ DOMAIN s = 1..Len(s)
      /\ Tail(s) \in Seq(Event) /\ Len(Tail(s)) = Len(s) - 1
      /\ \A i \in 1..Len(Tail(s)) : Tail(s)[i] = s[i+1]
  BY EmptySeq, LenProperties, HeadTailProperties
<1>2. DOMAIN Tail(s) = 1..(Len(s) - 1)
  BY <1>1, LenProperties
<1>3. Head(s) = s[1]
  BY <1>1
<1>4. ASSUME NEW r PROVE r \in NamedIn(s) <=> \E i \in 1..Len(s) : r \in Named(s[i])
  BY <1>1 DEF NamedIn
<1>5. ASSUME NEW r
      PROVE  r \in NamedIn(Tail(s)) <=> \E i \in 1..(Len(s) - 1) : r \in Named(s[i+1])
  BY <1>1, <1>2 DEF NamedIn
<1>6. ASSUME NEW i \in 1..Len(s) PROVE i = 1 \/ \E j \in 1..(Len(s) - 1) : i = j + 1
  <2>1. CASE i = 1
    BY <2>1
  <2>2. CASE i # 1
    <3>1. i - 1 \in 1..(Len(s) - 1) /\ i = (i - 1) + 1
      BY <1>1, <2>2
    <3> QED
      BY <3>1
  <2> QED
    BY <2>1, <2>2
<1>7. \A j \in 1..(Len(s) - 1) : j + 1 \in 1..Len(s)
  BY <1>1
<1>8. 1 \in 1..Len(s)
  BY <1>1
<1>9. ASSUME NEW r
      PROVE  r \in NamedIn(s) <=> r \in Named(Head(s)) \/ r \in NamedIn(Tail(s))
  BY <1>3, <1>4, <1>5, <1>6, <1>7, <1>8
<1> QED
  BY <1>9

LEMMA NamedInAppend ==
  ASSUME NEW s \in Seq(Event), NEW e \in Event
  PROVE  NamedIn(Append(s, e)) = NamedIn(s) \cup Named(e)
<1>1. Len(s) \in Nat /\ DOMAIN s = 1..Len(s)
  BY LenProperties
<1>2. /\ Append(s, e) \in Seq(Event) /\ Len(Append(s, e)) = Len(s) + 1
      /\ \A i \in 1..Len(s) : Append(s, e)[i] = s[i]
      /\ Append(s, e)[Len(s) + 1] = e
  BY <1>1
<1>3. DOMAIN Append(s, e) = 1..(Len(s) + 1)
  BY <1>2, LenProperties
<1>4. ASSUME NEW r PROVE r \in NamedIn(s) <=> \E i \in 1..Len(s) : r \in Named(s[i])
  BY <1>1 DEF NamedIn
<1>5. ASSUME NEW r
      PROVE  r \in NamedIn(Append(s, e)) <=>
               \E i \in 1..(Len(s) + 1) : r \in Named(Append(s, e)[i])
  BY <1>3 DEF NamedIn
<1>6. \A i : i \in 1..(Len(s) + 1) <=> i \in 1..Len(s) \/ i = Len(s) + 1
  BY <1>1
<1>7. ASSUME NEW r
      PROVE  r \in NamedIn(Append(s, e)) <=> r \in NamedIn(s) \/ r \in Named(e)
  BY <1>2, <1>4, <1>5, <1>6
<1> QED
  BY <1>7

\* Every hold of a batch has its event.
LEMMA ReapEventsNameBatch ==
  ASSUME TablesTypeOK, NEW refs \in SUBSET DOMAIN holds, NEW order \in Orders(refs)
  PROVE  /\ ReapEvents(order) \in Seq(Event)
         /\ \A h \in refs : RowsOfHold(h) \subseteq NamedIn(ReapEvents(order))
<1>1. IsFiniteSet(refs)
  BY EventsAssumption, FS_Subset DEF TablesTypeOK
<1>2. Cardinality(refs) \in Nat
  BY <1>1, FS_CardinalityType
<1>3. order \in [1..Cardinality(refs) -> refs]
      /\ \A h \in refs : \E i \in DOMAIN order : order[i] = h
  BY DEF Orders
<1>4. \A h \in refs : holds[h].seat \in Seats /\ HoldsReleased(holds[h].seat) \in Event
  BY DEF TablesTypeOK, HoldRow, HoldsReleased, Event
<1>5. ReapEvents(order) \in [1..Cardinality(refs) -> Event]
  BY <1>3, <1>4 DEF ReapEvents
<1>6. ReapEvents(order) \in Seq(Event)
  BY <1>2, <1>5, SeqDef
<1>7. ASSUME NEW h \in refs, NEW r \in RowsOfHold(h)
      PROVE  r \in NamedIn(ReapEvents(order))
  <2> PICK i \in DOMAIN order : order[i] = h
    BY <1>3
  <2>1. i \in DOMAIN ReapEvents(order)
        /\ ReapEvents(order)[i] = HoldsReleased(holds[h].seat)
    BY DEF ReapEvents
  <2>2. r \in Rows /\ r[1] = holds[h].seat /\ r[2] \in Legs
    BY TablesAssumption DEF RowsOfHold, Cover
  <2>3. r \in Named(HoldsReleased(holds[h].seat))
    BY <2>2 DEF Named, HoldsReleased, Cover
  <2> QED
    BY <2>1, <2>3 DEF NamedIn
<1> QED
  BY <1>6, <1>7

-----------------------------------------------------------------------------
(***************************************************************************)
(* Type correctness: the tables by the ledger's theorem, the queues here.  *)
(***************************************************************************)
QueuesOK ==
  /\ todo \in [Procs -> Seq(Event)]
  /\ channel \in Seq(Event)
  /\ DOMAIN view = Rows
  /\ lost \subseteq Rows
  /\ faults \in 0..MaxFaults

LEMMA EmitQueues ==
  ASSUME QueuesOK, NEW p \in Procs, NEW events \in Seq(Event), Emit(p, events)
  PROVE  QueuesOK'
  BY DEF QueuesOK, Emit

LEMMA QueuesStep ==
  ASSUME TablesTypeOK, QueuesOK, [Next]_vars
  PROVE  QueuesOK'
<1> USE DEF QueuesOK
<1>1. \A seat \in Seats, legs \in SUBSET Legs : InventoryUpdated(seat, legs) \in Event
  BY DEF InventoryUpdated, Event
<1>2. \A h \in DOMAIN holds : /\ holds[h].seat \in Seats
                              /\ holds[h].legs \in SUBSET Legs
                              /\ HoldsReleased(holds[h].seat) \in Event
  BY DEF TablesTypeOK, HoldRow, HoldsReleased, Event
<1>3. \A s \in Seq(Event) : s # <<>> => Head(s) \in Event /\ Tail(s) \in Seq(Event)
  BY HeadTailProperties
<1>4. \A e : Named(e) \subseteq Rows
  BY DEF Named, Cover
<1>5. \A s : NamedIn(s) \subseteq Rows
  BY <1>4 DEF NamedIn
<1>6. ASSUME NEW w \in Workers, Operate(w)
      PROVE  QueuesOK'
  <2>1. ASSUME NEW ref \in Refs, NEW seat \in Seats, NEW legs \in SUBSET Legs,
               NEW expires \in Expiries(now), Hold(w, ref, seat, legs, expires)
        PROVE  QueuesOK'
    <3>1. <<InventoryUpdated(seat, legs)>> \in Seq(Event)
      BY <1>1
    <3> QED
      BY <2>1, <3>1, EmitQueues DEF Hold, Procs
  <2>2. ASSUME NEW ref \in Refs, NEW booking \in Bookings, Confirm(w, ref, booking)
        PROVE  QueuesOK'
    <3>1. ref \in DOMAIN holds
      BY <2>2 DEF Confirm, Ledger!Confirm, Ledger!Active
    <3>2. <<InventoryUpdated(holds[ref].seat, holds[ref].legs)>> \in Seq(Event)
      BY <1>1, <1>2, <3>1
    <3> QED
      BY <2>2, <3>2, EmitQueues DEF Confirm, Procs
  <2>3. ASSUME NEW ref \in Refs, Release(w, ref)
        PROVE  QueuesOK'
    <3>1. ref \in DOMAIN holds
      BY <2>3 DEF Release, Ledger!Release, Ledger!Active
    <3>2. ReleasePair(ref) \in Seq(Event)
      BY <1>1, <1>2, <3>1 DEF ReleasePair
    <3> QED
      BY <2>3, <3>2, EmitQueues DEF Release, Procs
  <2>4. ASSUME NEW seat \in Seats, NEW legs \in SUBSET Legs, Cancel(w, seat, legs)
        PROVE  QueuesOK'
    <3>1. <<InventoryUpdated(seat, legs)>> \in Seq(Event)
      BY <1>1
    <3> QED
      BY <2>4, <3>1, EmitQueues DEF Cancel, Procs
  <2> QED
    BY <1>6, <2>1, <2>2, <2>3, <2>4 DEF Operate
<1>7. ASSUME NEW p \in Reapers, NEW refs \in SUBSET Refs, Reap(p, refs)
      PROVE  QueuesOK'
  <2>1. refs \subseteq DOMAIN holds
    BY <1>7 DEF Reap, Ledger!Reap, Ledger!ExpiredAt, Ledger!Active
  <2> PICK order \in Orders(refs) : Emit(p, ReapEvents(order))
    BY <1>7 DEF Reap
  <2>2. ReapEvents(order) \in Seq(Event)
    BY <2>1, ReapEventsNameBatch
  <2> QED
    BY <2>2, EmitQueues DEF Procs
<1>8. ASSUME NEW p \in Reapers, NEW skew \in Skews, Purge(p, skew)
      PROVE  QueuesOK'
  BY <1>8 DEF Purge
<1>9. ASSUME NEW p \in Procs, Publish(p)
      PROVE  QueuesOK'
  BY <1>3, <1>9 DEF Publish
<1>10. ASSUME NEW p \in Procs, PublishFails(p)
       PROVE  QueuesOK'
  BY <1>3, <1>4, <1>10, EventsAssumption DEF PublishFails, Fault
<1>11. ASSUME NEW p \in Procs, Dropped(p)
       PROVE  QueuesOK'
  BY <1>5, <1>11, EventsAssumption DEF Dropped, Fault
<1>12. CASE Receive
  BY <1>3, <1>12 DEF Receive
<1>13. CASE Disconnect
  BY <1>5, <1>13, EventsAssumption DEF Disconnect, Fault
<1>14. CASE Tick
  BY <1>14 DEF Tick
<1>15. CASE UNCHANGED vars
  BY <1>15 DEF vars
<1> QED
  BY <1>6, <1>7, <1>8, <1>9, <1>10, <1>11, <1>12, <1>13, <1>14, <1>15 DEF Next

LEMMA QueuesTyped == Spec => []QueuesOK
<1>1. Init => QueuesOK
  BY EventsAssumption DEF Init, QueuesOK, Snapshot
<1>2. TablesTypeOK /\ QueuesOK /\ [Next]_vars => QueuesOK'
  BY QueuesStep
<1> QED
  BY <1>1, <1>2, LedgerInvariants, PTL DEF Spec

\* The queues hold events, the tables rows of their schema.
THEOREM TypeCorrect == Spec => []TypeOK
<1>1. TablesTypeOK /\ QueuesOK => TypeOK
  BY DEF TypeOK, QueuesOK
<1> QED
  BY <1>1, LedgerInvariants, QueuesTyped, PTL

-----------------------------------------------------------------------------
(* What the snapshot endpoint shows of a row.                              *)

StoredStatus(r) ==
  IF inventory[r].booked
  THEN [status |-> "booked", hold_expires_at |-> NoRef]
  ELSE IF inventory[r].hold_ref = NoRef
  THEN [status |-> "free", hold_expires_at |-> NoRef]
  ELSE [status |-> "held",
        hold_expires_at |-> holds[inventory[r].hold_ref].expires_at]

SnapshotAsStored ==
  TablesTypeOK /\ NoOrphanHoldRef => \A r \in Rows : Snapshot[r] = StoredStatus(r)

LEMMA SnapshotOf == SnapshotAsStored
<1> SUFFICES ASSUME TablesTypeOK, NoOrphanHoldRef, NEW r \in Rows
             PROVE  Snapshot[r] = StoredStatus(r)
  BY DEF SnapshotAsStored
<1> USE DEF StoredStatus
<1>1. Snapshot[r] = [status |-> Status(r), hold_expires_at |-> SnapshotExpiry(r)]
  BY DEF Snapshot
<1>2. CASE inventory[r].booked
  <2>1. Status(r) = "booked"
    BY <1>2 DEF Status, Free
  <2> QED
    BY <1>1, <1>2, <2>1 DEF SnapshotExpiry
<1>3. CASE ~inventory[r].booked /\ inventory[r].hold_ref = NoRef
  <2>1. Status(r) = "free"
    BY <1>3 DEF Status, Free
  <2> QED
    BY <1>1, <1>3, <2>1 DEF SnapshotExpiry
<1>4. CASE ~inventory[r].booked /\ inventory[r].hold_ref # NoRef
  <2>1. Status(r) = "held"
    BY <1>4 DEF Status, Free
  <2>2. Joined(r) = {inventory[r].hold_ref}
    BY <1>4 DEF Joined, NoOrphanHoldRef, Active
  <2>3. SnapshotExpiry(r) = holds[inventory[r].hold_ref].expires_at
    BY <2>1, <2>2 DEF SnapshotExpiry
  <2> QED
    BY <1>1, <1>4, <2>1, <2>3
<1> QED
  BY <1>2, <1>3, <1>4

LEMMA SnapshotOfNext == SnapshotAsStored'
  BY SnapshotOf, PTL

\* A row that keeps its columns, and whose hold keeps its expiry, is shown
\* as before.
LEMMA RowShownAsBefore ==
  ASSUME TablesTypeOK, NoOrphanHoldRef, TablesTypeOK', NoOrphanHoldRef',
         NEW r \in Rows, inventory'[r] = inventory[r],
         inventory[r].hold_ref \in Active =>
           holds'[inventory[r].hold_ref].expires_at
             = holds[inventory[r].hold_ref].expires_at
  PROVE  Snapshot'[r] = Snapshot[r]
<1>1. Snapshot'[r] = StoredStatus(r)'
  BY SnapshotOfNext DEF SnapshotAsStored
<1>2. inventory[r].hold_ref # NoRef => inventory[r].hold_ref \in Active
  BY DEF NoOrphanHoldRef
<1> QED
  BY <1>1, <1>2, SnapshotOf DEF SnapshotAsStored, StoredStatus

-----------------------------------------------------------------------------
(***************************************************************************)
(* Every change is announced.  The invariant is inductive given the        *)
(* tables' invariants: a step that commits puts the rows it changed under  *)
(* way (rows carry only references of holds that cover them, so the events *)
(* of a hold name all the rows its end frees), and an event leaves the     *)
(* queues only by being lost or by being read, after which the row is      *)
(* shown as it is.                                                         *)
(***************************************************************************)
LEMMA EmitAnnounces ==
  ASSUME QueuesOK, ViewCurrent, NEW p \in Procs, NEW events, Emit(p, events),
         \A r \in Rows : Snapshot'[r] = Snapshot[r] \/ r \in NamedIn(events)
  PROVE  ViewCurrent'
<1> SUFFICES ASSUME NEW r \in Rows
             PROVE  view'[r] = Snapshot'[r] \/ r \in Underway' \/ r \in lost'
  BY DEF ViewCurrent
<1>1. /\ todo[p] = <<>> /\ todo' = [todo EXCEPT ![p] = events]
      /\ UNCHANGED <<channel, view, lost>>
  BY DEF Emit
<1>2. todo'[p] = events /\ \A q \in Procs \ {p} : todo'[q] = todo[q]
  BY <1>1 DEF QueuesOK
<1>3. CASE r \in NamedIn(events)
  BY <1>2, <1>3 DEF Underway
<1>4. CASE view[r] = Snapshot[r] /\ r \notin NamedIn(events)
  BY <1>1, <1>4
<1>5. CASE r \in lost
  BY <1>1, <1>5
<1>6. CASE r \in Underway
  <2>1. r \notin NamedIn(todo[p])
    BY <1>1, NamedInEmpty
  <2>2. r \in NamedIn(channel) \/ \E q \in Procs \ {p} : r \in NamedIn(todo[q])
    BY <1>6, <2>1 DEF Underway
  <2> QED
    BY <1>1, <1>2, <2>2 DEF Underway
<1> QED
  BY <1>3, <1>4, <1>5, <1>6 DEF ViewCurrent

LEMMA OperationAnnounced ==
  ASSUME TablesTypeOK, NoOrphanHoldRef, TablesTypeOK', NoOrphanHoldRef',
         QueuesOK, ViewCurrent, NEW w \in Workers, Operate(w)
  PROVE  ViewCurrent'
<1> USE DEF TablesTypeOK, InventoryRow
<1>0. w \in Procs
  BY DEF Procs
<1>1. ASSUME NEW ref \in Refs, NEW seat \in Seats, NEW legs \in SUBSET Legs,
             NEW expires \in Expiries(now), Hold(w, ref, seat, legs, expires)
      PROVE  ViewCurrent'
  <2> DEFINE events == <<InventoryUpdated(seat, legs)>>
  <2>1. NamedIn(events) = Cover(seat, legs)
    BY NamedInSingle DEF Named, InventoryUpdated
  <2>2. \A r \in Rows \ Cover(seat, legs) : inventory'[r] = inventory[r]
    BY <1>1 DEF Hold, Ledger!Hold, Ledger!WriteHold, Ledger!Cover, Cover
  <2>3. \A h \in DOMAIN holds : holds'[h] = holds[h]
    BY <1>1 DEF Hold, Ledger!Hold, Ledger!WriteHold
  <2>4. \A r \in Rows : Snapshot'[r] = Snapshot[r] \/ r \in NamedIn(events)
    BY <2>1, <2>2, <2>3, RowShownAsBefore DEF Active
  <2>5. Emit(w, events)
    BY <1>1 DEF Hold
  <2> QED
    BY <1>0, <2>4, <2>5, EmitAnnounces
<1>2. ASSUME NEW ref \in Refs, NEW booking \in Bookings, Confirm(w, ref, booking)
      PROVE  ViewCurrent'
  <2> DEFINE events == <<InventoryUpdated(holds[ref].seat, holds[ref].legs)>>
  <2>1. NamedIn(events) = RowsOfHold(ref)
    BY NamedInSingle DEF Named, InventoryUpdated, RowsOfHold
  <2>2. \A r \in Rows : inventory[r].hold_ref # ref => inventory'[r] = inventory[r]
    BY <1>2 DEF Confirm, Ledger!Confirm, Ledger!WriteBooking
  <2>3. \A h \in DOMAIN holds : holds'[h].expires_at = holds[h].expires_at
    BY <1>2 DEF Confirm, Ledger!Confirm, Ledger!WriteBooking, Ledger!Active, HoldRow
  <2>4. \A r \in Rows : inventory[r].hold_ref = ref => r \in RowsOfHold(ref)
    BY TablesAssumption DEF NoOrphanHoldRef
  <2>5. \A r \in Rows : Snapshot'[r] = Snapshot[r] \/ r \in NamedIn(events)
    BY <2>1, <2>2, <2>3, <2>4, RowShownAsBefore DEF Active
  <2>6. Emit(w, events)
    BY <1>2 DEF Confirm
  <2> QED
    BY <1>0, <2>5, <2>6, EmitAnnounces
<1>3. ASSUME NEW ref \in Refs, Release(w, ref)
      PROVE  ViewCurrent'
  <2> DEFINE events == ReleasePair(ref)
  <2>1. RowsOfHold(ref) \subseteq NamedIn(events)
    <3>1. events[1] = InventoryUpdated(holds[ref].seat, holds[ref].legs)
          /\ 1 \in DOMAIN events
      BY DEF ReleasePair
    <3>2. Named(events[1]) = RowsOfHold(ref)
      BY <3>1 DEF Named, InventoryUpdated, RowsOfHold
    <3> QED
      BY <3>1, <3>2 DEF NamedIn
  <2>2. \A r \in Rows : inventory[r].hold_ref # ref => inventory'[r] = inventory[r]
    BY <1>3 DEF Release, Ledger!Release, Ledger!DropHolds, Ledger!FreeRowsOf
  <2>3. \A h \in DOMAIN holds \ {ref} : holds'[h] = holds[h]
    BY <1>3 DEF Release, Ledger!Release, Ledger!DropHolds, Ledger!DeleteHolds,
                Ledger!Restrict
  <2>4. \A r \in Rows : inventory[r].hold_ref = ref => r \in RowsOfHold(ref)
    BY TablesAssumption DEF NoOrphanHoldRef
  <2>5. \A r \in Rows : Snapshot'[r] = Snapshot[r] \/ r \in NamedIn(events)
    BY <2>1, <2>2, <2>3, <2>4, RowShownAsBefore DEF Active
  <2>6. Emit(w, events)
    BY <1>3 DEF Release
  <2> QED
    BY <1>0, <2>5, <2>6, EmitAnnounces
<1>4. ASSUME NEW seat \in Seats, NEW legs \in SUBSET Legs, Cancel(w, seat, legs)
      PROVE  ViewCurrent'
  <2> DEFINE events == <<InventoryUpdated(seat, legs)>>
  <2>1. NamedIn(events) = Cover(seat, legs)
    BY NamedInSingle DEF Named, InventoryUpdated
  <2>2. \A r \in Rows \ Cover(seat, legs) : inventory'[r] = inventory[r]
    BY <1>4 DEF Cancel, Ledger!Cancel, Ledger!ClearRows, Ledger!Cover, Cover
  <2>3. holds' = holds
    BY <1>4 DEF Cancel, Ledger!Cancel, Ledger!ClearRows
  <2>4. \A r \in Rows : Snapshot'[r] = Snapshot[r] \/ r \in NamedIn(events)
    BY <2>1, <2>2, <2>3, RowShownAsBefore
  <2>5. Emit(w, events)
    BY <1>4 DEF Cancel
  <2> QED
    BY <1>0, <2>4, <2>5, EmitAnnounces
<1> QED
  BY <1>1, <1>2, <1>3, <1>4 DEF Operate

LEMMA ReapAnnounced ==
  ASSUME TablesTypeOK, NoOrphanHoldRef, TablesTypeOK', NoOrphanHoldRef',
         QueuesOK, ViewCurrent,
         NEW p \in Reapers, NEW refs \in SUBSET Refs, Reap(p, refs)
  PROVE  ViewCurrent'
<1> USE DEF TablesTypeOK, InventoryRow
<1> PICK order \in Orders(refs) : Emit(p, ReapEvents(order))
  BY DEF Reap
<1>1. refs \in SUBSET DOMAIN holds
  BY DEF Reap, Ledger!Reap, Ledger!ExpiredAt, Ledger!Active
<1>2. \A h \in refs : RowsOfHold(h) \subseteq NamedIn(ReapEvents(order))
  BY <1>1, ReapEventsNameBatch
<1>3. \A r \in Rows : inventory[r].hold_ref \notin refs => inventory'[r] = inventory[r]
  BY DEF Reap, Ledger!Reap, Ledger!DropHolds, Ledger!FreeRowsOf
<1>4. \A h \in DOMAIN holds \ refs : holds'[h] = holds[h]
  BY DEF Reap, Ledger!Reap, Ledger!DropHolds, Ledger!DeleteHolds, Ledger!Restrict
<1>5. \A r \in Rows : inventory[r].hold_ref \in refs
                        => r \in RowsOfHold(inventory[r].hold_ref)
  BY TablesAssumption DEF NoOrphanHoldRef
<1>6. \A r \in Rows : Snapshot'[r] = Snapshot[r] \/ r \in NamedIn(ReapEvents(order))
  BY <1>2, <1>3, <1>4, <1>5, RowShownAsBefore DEF Active
<1> QED
  BY <1>6, EmitAnnounces DEF Procs

\* Queue steps leave the tables alone.
LEMMA SameTablesSameSnapshot ==
  ASSUME UNCHANGED tables PROVE Snapshot' = Snapshot
  BY DEF tables, Snapshot, Status, Free, SnapshotExpiry, Joined

LEMMA DeliveryKeeps ==
  ASSUME QueuesOK, ViewCurrent, NEW p \in Procs,
         Publish(p) \/ PublishFails(p) \/ Dropped(p)
  PROVE  ViewCurrent'
<1>1. Snapshot' = Snapshot /\ view' = view
  BY SameTablesSameSnapshot DEF Publish, PublishFails, Dropped
<1>2. /\ todo[p] # <<>> /\ todo[p] \in Seq(Event)
      /\ \A q \in Procs \ {p} : todo'[q] = todo[q]
  BY DEF QueuesOK, Publish, PublishFails, Dropped
<1>3. /\ Head(todo[p]) \in Event
      /\ NamedIn(todo[p]) = Named(Head(todo[p])) \cup NamedIn(Tail(todo[p]))
  BY <1>2, HeadTailProperties, NamedInHeadTail
<1>4. Underway \cup lost \subseteq Underway' \cup lost'
  <2>1. CASE Publish(p)
    <3>1. NamedIn(channel') = NamedIn(channel) \cup Named(Head(todo[p]))
      BY <1>3, <2>1, NamedInAppend DEF Publish, QueuesOK
    <3>2. todo'[p] = Tail(todo[p]) /\ lost' = lost
      BY <2>1 DEF Publish, QueuesOK
    <3> QED
      BY <1>2, <1>3, <3>1, <3>2 DEF Underway
  <2>2. CASE PublishFails(p)
    <3>1. /\ todo'[p] = Tail(todo[p]) /\ channel' = channel
          /\ lost' = lost \cup Named(Head(todo[p]))
      BY <2>2 DEF PublishFails, QueuesOK
    <3> QED
      BY <1>2, <1>3, <3>1 DEF Underway
  <2>3. CASE Dropped(p)
    <3>1. channel' = channel /\ lost' = lost \cup NamedIn(todo[p])
      BY <2>3 DEF Dropped
    <3> QED
      BY <1>2, <3>1 DEF Underway
  <2> QED
    BY <2>1, <2>2, <2>3
<1> QED
  BY <1>1, <1>4 DEF ViewCurrent

LEMMA ReceivingKeeps ==
  ASSUME QueuesOK, ViewCurrent, Receive \/ Disconnect
  PROVE  ViewCurrent'
<1>1. Snapshot' = Snapshot /\ todo' = todo
  BY SameTablesSameSnapshot DEF Receive, Disconnect
<1>2. CASE Receive
  <2>1. NamedIn(channel) = Named(Head(channel)) \cup NamedIn(channel')
    BY <1>2, NamedInHeadTail DEF Receive, QueuesOK
  <2>2. lost' = lost \ Named(Head(channel))
    BY <1>2 DEF Receive
  <2>3. \A r \in Rows : view'[r] = IF r \in Named(Head(channel)) THEN Snapshot[r]
                                                                ELSE view[r]
    BY <1>2 DEF Receive
  <2> QED
    BY <1>1, <2>1, <2>2, <2>3 DEF ViewCurrent, Underway
<1>3. CASE Disconnect
  <2>1. view' = view /\ lost' = lost \cup NamedIn(channel)
    BY <1>3 DEF Disconnect
  <2> QED
    BY <1>1, <2>1 DEF ViewCurrent, Underway
<1> QED
  BY <1>2, <1>3

\* The purge removes holds no row refers to, and publishes nothing.
LEMMA PurgeKeeps ==
  ASSUME TablesTypeOK, NoOrphanHoldRef, TablesTypeOK', NoOrphanHoldRef',
         ViewCurrent, NEW p \in Reapers, NEW skew \in Skews, Purge(p, skew)
  PROVE  ViewCurrent'
<1>1. inventory' = inventory /\ UNCHANGED <<todo, channel, view, lost>>
  BY DEF Purge, Ledger!Purge, Ledger!PurgeHolds
<1>2. \A h \in Active : holds'[h] = holds[h]
  BY DEF Purge, Ledger!Purge, Ledger!PurgeHolds, Ledger!DeleteHolds,
         Ledger!Restrict, Ledger!Purgeable, Ledger!Consumed, Ledger!Active, Active
<1>3. \A r \in Rows : Snapshot'[r] = Snapshot[r]
  BY <1>1, <1>2, RowShownAsBefore
<1> QED
  BY <1>1, <1>3 DEF ViewCurrent, Underway

(***************************************************************************)
(* A subscriber that re-reads the rows each event names shows every row as *)
(* the snapshot endpoint would, unless an event about the row is under way *)
(* or was lost with none received since.                                   *)
(***************************************************************************)
THEOREM ViewFollows == Spec => []ViewCurrent
<1>1. Init => ViewCurrent
  BY DEF Init, ViewCurrent
<1>2. /\ TablesTypeOK /\ NoOrphanHoldRef /\ TablesTypeOK' /\ NoOrphanHoldRef'
      /\ QueuesOK /\ ViewCurrent /\ [Next]_vars
      => ViewCurrent'
  <2> SUFFICES ASSUME TablesTypeOK, NoOrphanHoldRef, TablesTypeOK',
                      NoOrphanHoldRef', QueuesOK, ViewCurrent, [Next]_vars
               PROVE  ViewCurrent'
    OBVIOUS
  <2>1. ASSUME NEW w \in Workers, Operate(w) PROVE ViewCurrent'
    BY <2>1, OperationAnnounced
  <2>2. ASSUME NEW p \in Reapers, NEW refs \in SUBSET Refs, Reap(p, refs)
        PROVE  ViewCurrent'
    BY <2>2, ReapAnnounced
  <2>3. ASSUME NEW p \in Reapers, NEW skew \in Skews, Purge(p, skew)
        PROVE  ViewCurrent'
    BY <2>3, PurgeKeeps
  <2>4. ASSUME NEW p \in Procs, Publish(p) \/ PublishFails(p) \/ Dropped(p)
        PROVE  ViewCurrent'
    BY <2>4, DeliveryKeeps
  <2>5. CASE Receive \/ Disconnect
    BY <2>5, ReceivingKeeps
  <2>6. CASE Tick \/ UNCHANGED vars
    <3>1. UNCHANGED tables /\ UNCHANGED <<todo, channel, view, lost>>
      BY <2>6 DEF Tick, Ledger!Tick, Ledger!tables, tables, vars
    <3> QED
      BY <3>1, SameTablesSameSnapshot DEF ViewCurrent, Underway
  <2> QED
    BY <2>1, <2>2, <2>3, <2>4, <2>5, <2>6 DEF Next
<1> QED
  BY <1>1, <1>2, LedgerInvariants, QueuesTyped, PTL DEF Spec

\* Only a failure loses an event.
LossNeedsFault == lost # {} => faults > 0

LEMMA LossStep ==
  ASSUME QueuesOK, LossNeedsFault, [Next]_vars
  PROVE  LossNeedsFault'
<1> USE DEF LossNeedsFault
<1>1. ASSUME NEW w \in Workers, Operate(w) PROVE LossNeedsFault'
  BY <1>1 DEF Operate, Hold, Confirm, Release, Cancel, Emit
<1>2. ASSUME NEW p \in Reapers, NEW refs \in SUBSET Refs, Reap(p, refs)
      PROVE  LossNeedsFault'
  BY <1>2 DEF Reap, Emit
<1>3. ASSUME NEW p \in Reapers, NEW skew \in Skews, Purge(p, skew)
      PROVE  LossNeedsFault'
  BY <1>3 DEF Purge
<1>4. ASSUME NEW p \in Procs, Publish(p) PROVE LossNeedsFault'
  BY <1>4 DEF Publish
<1>5. CASE Fault
  BY <1>5 DEF Fault, QueuesOK
<1>6. CASE Receive \/ Tick \/ UNCHANGED vars
  BY <1>6 DEF Receive, Tick, vars
<1> QED
  BY <1>1, <1>2, <1>3, <1>4, <1>5, <1>6 DEF Next, PublishFails, Dropped, Disconnect

(***************************************************************************)
(* Without a failure nothing is lost, so a subscriber that has read every  *)
(* event the engine went on to publish shows the seat map as it is.        *)
(***************************************************************************)
THEOREM QuietViewTrue ==
  Spec => [](faults = 0 /\ Underway = {} => \A r \in Rows : view[r] = Snapshot[r])
<1>1. Init => LossNeedsFault
  BY DEF Init, LossNeedsFault
<1>2. QueuesOK /\ LossNeedsFault /\ [Next]_vars => LossNeedsFault'
  BY LossStep
<1>3. LossNeedsFault /\ ViewCurrent =>
        (faults = 0 /\ Underway = {} => \A r \in Rows : view[r] = Snapshot[r])
  BY DEF LossNeedsFault, ViewCurrent
<1> QED
  BY <1>1, <1>2, <1>3, ViewFollows, QueuesTyped, PTL DEF Spec

=============================================================================
