-------------------------- MODULE SeatLedgerProofs --------------------------
(***************************************************************************)
(* The ledger's invariants, for any seats, legs, holds, bookings, clocks   *)
(* and limits.                                                             *)
(***************************************************************************)
EXTENDS SeatLedger, TLAPS

(***************************************************************************)
(* Type correctness: the tables keep the shape of the schema, and a        *)
(* reference in seat_holds was issued by the engine.                       *)
(***************************************************************************)
THEOREM TypeCorrect == Spec => []TypeOK
<1>1. Init => TypeOK
  BY TablesAssumption DEF Init, TablesInit, TypeOK, TablesTypeOK, InventoryRow, HoldRow
<1>2. TypeOK /\ [Next]_vars => TypeOK'
  <2> SUFFICES ASSUME TypeOK, [Next]_vars PROVE TypeOK'
    OBVIOUS
  <2> USE TablesAssumption DEF TypeOK, TablesTypeOK, InventoryRow
  <2>1. ASSUME NEW ref \in Refs, NEW seat \in Seats, NEW legs \in SUBSET Legs,
               NEW created \in 0..now, NEW asked \in 0..created,
               NEW expires \in Expiries(asked),
               Hold(ref, seat, legs, created, expires)
        PROVE  TypeOK'
    <3>1. expires \in Int /\ created \in Int
      BY <2>1 DEF Expiries
    <3>2. holds' \in [DOMAIN holds' -> HoldRow]
      BY <2>1, <3>1 DEF Hold, WriteHold, HoldRow
    <3> QED
      BY <2>1, <3>2 DEF Hold, WriteHold
  <2>2. ASSUME NEW ref \in Refs, NEW booking \in Bookings, Confirm(ref, booking)
        PROVE  TypeOK'
    <3>1. holds' \in [DOMAIN holds' -> HoldRow]
      BY <2>2 DEF Confirm, WriteBooking, Active, HoldRow
    <3> QED
      BY <2>2, <3>1 DEF Confirm, WriteBooking
  <2>3. ASSUME NEW refs \in SUBSET Refs, DropHolds(refs), UNCHANGED now
        PROVE  TypeOK'
    BY <2>3 DEF DropHolds, FreeRowsOf, DeleteHolds, Restrict
  <2>4. ASSUME NEW ref \in Refs, Release(ref)
        PROVE  TypeOK'
    BY <2>3, <2>4 DEF Release
  <2>5. ASSUME NEW seat \in Seats, NEW legs \in SUBSET Legs, Cancel(seat, legs)
        PROVE  TypeOK'
    BY <2>5 DEF Cancel, ClearRows
  <2>6. ASSUME NEW refs \in SUBSET Refs, Reap(refs)
        PROVE  TypeOK'
    BY <2>3, <2>6 DEF Reap
  <2>7. ASSUME NEW skew \in Skews, Purge(skew)
        PROVE  TypeOK'
    BY <2>7 DEF Purge, PurgeHolds, DeleteHolds, Restrict
  <2>8. CASE Tick
    BY <2>8 DEF Tick, Advance, tables
  <2>9. CASE UNCHANGED vars
    BY <2>9 DEF vars, tables
  <2> QED
    BY <2>1, <2>2, <2>4, <2>5, <2>6, <2>7, <2>8, <2>9 DEF Next
<1> QED
  BY <1>1, <1>2, PTL DEF Spec

-----------------------------------------------------------------------------
(***************************************************************************)
(* What a step does to the tables, the clock and the reasons left out:     *)
(* the case analysis the proofs below share.                               *)
(***************************************************************************)
HoldStep ==
  \E ref \in Refs \ issued, seat \in Seats, legs \in SUBSET Legs :
    \E created, expires \in Int :
      /\ \A r \in Cover(seat, legs) : Free(r)
      /\ WriteHold(ref, seat, legs, created, expires)

BookingStep ==
  \E ref \in Active, booking \in Bookings : WriteBooking(ref, booking)

DropStep == \E refs \in SUBSET Active : DropHolds(refs)

ClearStep ==
  /\ "cancel" \in Kinds
  /\ \E seat \in Seats, legs \in SUBSET Legs : ClearRows(seat, legs)

PurgeStep == \E skew \in Skews : PurgeHolds(skew)

LEMMA StepCases ==
  ASSUME TypeOK, [Next]_vars
  PROVE  HoldStep \/ BookingStep \/ DropStep \/ ClearStep \/ PurgeStep
         \/ UNCHANGED tables
<1>1. ASSUME NEW ref \in Refs, NEW seat \in Seats, NEW legs \in SUBSET Legs,
             NEW created \in 0..now, NEW asked \in 0..created,
             NEW expires \in Expiries(asked),
             Hold(ref, seat, legs, created, expires)
      PROVE  HoldStep
  <2>1. expires \in Int /\ created \in Int
    BY TablesAssumption DEF Expiries
  <2> QED
    BY <1>1, <2>1 DEF Hold, HoldStep
<1>2. ASSUME NEW ref \in Refs, NEW booking \in Bookings, Confirm(ref, booking)
      PROVE  BookingStep
  BY <1>2 DEF Confirm, BookingStep
<1>3. ASSUME NEW ref \in Refs, Release(ref)
      PROVE  DropStep
  BY <1>3 DEF Release, DropStep
<1>4. ASSUME NEW seat \in Seats, NEW legs \in SUBSET Legs, Cancel(seat, legs)
      PROVE  ClearStep
  BY <1>4 DEF Cancel, ClearStep
<1>5. ASSUME NEW refs \in SUBSET Refs, Reap(refs)
      PROVE  DropStep
  BY <1>5 DEF Reap, ExpiredAt, DropStep
<1>6. ASSUME NEW skew \in Skews, Purge(skew)
      PROVE  PurgeStep
  BY <1>6 DEF Purge, PurgeStep
<1>7. CASE Tick
  BY <1>7 DEF Tick
<1>8. CASE UNCHANGED vars
  BY <1>8 DEF vars
<1> QED
  BY <1>1, <1>2, <1>3, <1>4, <1>5, <1>6, <1>7, <1>8 DEF Next

\* Dropping holds from the table keeps the rows of the others as they are.
LEMMA RestrictedHolds ==
  ASSUME NEW gone, holds' = Restrict(holds, DOMAIN holds \ gone)
  PROVE  /\ DOMAIN holds' = DOMAIN holds \ gone
         /\ \A h \in DOMAIN holds' : holds'[h] = holds[h]
  BY DEF Restrict

-----------------------------------------------------------------------------
(***************************************************************************)
(* The engine leaves no orphan hold_ref, and no row is booked and held.    *)
(* Neither is inductive alone: a confirm of a hold keeps the first only    *)
(* because the hold's rows all lose the reference in the same step, and a  *)
(* new hold keeps it only because its reference was never used before      *)
(* (DOMAIN holds \subseteq issued, in TypeOK).                             *)
(***************************************************************************)
RefInv == NoOrphanHoldRef /\ BookedNeverHeld

LEMMA RefInvStep ==
  ASSUME TypeOK, RefInv, [Next]_vars PROVE RefInv'
<1> USE DEF TypeOK, TablesTypeOK, InventoryRow, RefInv, NoOrphanHoldRef,
            BookedNeverHeld, RowsOfHold, Active
<1>1. CASE HoldStep
  <2> PICK ref \in Refs \ issued, seat \in Seats, legs \in SUBSET Legs,
           created \in Int, expires \in Int :
         /\ \A r \in Cover(seat, legs) : Free(r)
         /\ WriteHold(ref, seat, legs, created, expires)
    BY <1>1 DEF HoldStep
  <2>1. ref \in DOMAIN holds' /\ holds'[ref].booking_id = NoBooking
        /\ holds'[ref].seat = seat /\ holds'[ref].legs = legs
    BY DEF WriteHold
  <2>2. \A h \in DOMAIN holds : h \in DOMAIN holds' /\ holds'[h] = holds[h]
    BY DEF WriteHold
  <2>3. ASSUME NEW r \in Rows, r \in Cover(seat, legs)
        PROVE  inventory'[r].hold_ref = ref /\ ~inventory'[r].booked
    BY <2>3 DEF WriteHold, Free
  <2>4. ASSUME NEW r \in Rows, r \notin Cover(seat, legs)
        PROVE  inventory'[r] = inventory[r]
    BY <2>4 DEF WriteHold
  <2>5. \A S, L : Cover(S, L)' = Cover(S, L)
    BY DEF Cover
  <2>6. NoOrphanHoldRef'
    BY <2>1, <2>2, <2>3, <2>4, <2>5
  <2>7. BookedNeverHeld'
    BY <2>3, <2>4
  <2> QED
    BY <2>6, <2>7
<1>2. CASE BookingStep
  <2> PICK ref \in Active, booking \in Bookings : WriteBooking(ref, booking)
    BY <1>2 DEF BookingStep
  <2>1. \A h \in DOMAIN holds \ {ref} :
          h \in DOMAIN holds' /\ holds'[h] = holds[h]
    BY DEF WriteBooking
  <2>2. \A r \in Rows : IF inventory[r].hold_ref = ref
                        THEN inventory'[r].hold_ref = NoRef
                        ELSE inventory'[r] = inventory[r]
    BY DEF WriteBooking
  <2>3. \A S, L : Cover(S, L)' = Cover(S, L)
    BY DEF Cover
  <2>4. NoOrphanHoldRef'
    BY <2>1, <2>2, <2>3
  <2>5. BookedNeverHeld'
    BY <2>2
  <2> QED
    BY <2>4, <2>5
<1>3. CASE DropStep
  <2> PICK refs \in SUBSET Active : DropHolds(refs)
    BY <1>3 DEF DropStep
  <2>1. DOMAIN holds' = DOMAIN holds \ refs
        /\ \A h \in DOMAIN holds' : holds'[h] = holds[h]
    BY RestrictedHolds DEF DropHolds, DeleteHolds
  <2>2. \A r \in Rows : IF inventory[r].hold_ref \in refs
                        THEN inventory'[r].hold_ref = NoRef
                        ELSE inventory'[r] = inventory[r]
    BY DEF DropHolds, FreeRowsOf
  <2>3. \A S, L : Cover(S, L)' = Cover(S, L)
    BY DEF Cover
  <2>4. NoOrphanHoldRef'
    BY <2>1, <2>2, <2>3
  <2>5. BookedNeverHeld'
    BY <2>2
  <2> QED
    BY <2>4, <2>5
<1>4. CASE ClearStep
  BY <1>4 DEF ClearStep, ClearRows, Cover
<1>5. CASE PurgeStep
  <2> PICK skew \in Skews : PurgeHolds(skew)
    BY <1>5 DEF PurgeStep
  <2>1. DOMAIN holds' = DOMAIN holds \ Purgeable(skew)
        /\ \A h \in DOMAIN holds' : holds'[h] = holds[h]
    BY RestrictedHolds DEF PurgeHolds, DeleteHolds
  <2>2. Active \subseteq DOMAIN holds'
    BY <2>1 DEF Purgeable, Consumed
  <2> QED
    BY <2>1, <2>2 DEF PurgeHolds, Cover
<1>6. CASE UNCHANGED tables
  BY <1>6 DEF tables, Cover
<1> QED
  BY <1>1, <1>2, <1>3, <1>4, <1>5, <1>6, StepCases

\* Every hold_ref in the inventory belongs to an active hold of that seat.
THEOREM NoOrphans == Spec => []NoOrphanHoldRef
<1>1. Init => RefInv
  BY DEF Init, TablesInit, RefInv, NoOrphanHoldRef, BookedNeverHeld
<1>2. TypeOK /\ RefInv /\ [Next]_vars => RefInv'
  BY RefInvStep
<1>3. RefInv => NoOrphanHoldRef
  BY DEF RefInv
<1> QED
  BY <1>1, <1>2, <1>3, TypeCorrect, PTL DEF Spec

\* No inventory row is booked while it still carries a hold_ref.
THEOREM NeverBookedAndHeld == Spec => []BookedNeverHeld
<1>1. Init => RefInv
  BY DEF Init, TablesInit, RefInv, NoOrphanHoldRef, BookedNeverHeld
<1>2. TypeOK /\ RefInv /\ [Next]_vars => RefInv'
  BY RefInvStep
<1>3. RefInv => BookedNeverHeld
  BY DEF RefInv
<1> QED
  BY <1>1, <1>2, <1>3, TypeCorrect, PTL DEF Spec

-----------------------------------------------------------------------------
(* What no step may do: the same case analysis, on pairs of states.        *)

\* No step alters or removes the audit row of a confirmed hold before its
\* retention is over.
THEOREM AuditTrail == Spec => AuditTrailKept
<1>1. TypeOK /\ [Next]_vars => AuditRowsKept
  <2> SUFFICES ASSUME TypeOK, [Next]_vars, NEW h \in Consumed
               PROVE  \/ h \in DOMAIN holds' /\ holds'[h] = holds[h]
                      \/ /\ h \notin DOMAIN holds'
                         /\ Retention > 0
                         /\ \E skew \in Skews :
                              holds[h].expires_at + Retention < now + skew
    BY DEF AuditRowsKept
  <2>0. h \in DOMAIN holds /\ h \in issued /\ h \notin Active
    BY DEF Consumed, TypeOK, TablesTypeOK
  <2>1. CASE HoldStep
    BY <2>0, <2>1 DEF HoldStep, WriteHold
  <2>2. CASE BookingStep
    BY <2>0, <2>2 DEF BookingStep, WriteBooking
  <2>3. CASE DropStep
    BY <2>0, <2>3, RestrictedHolds DEF DropStep, DropHolds, DeleteHolds
  <2>4. CASE ClearStep
    BY <2>0, <2>4 DEF ClearStep, ClearRows
  <2>5. CASE PurgeStep
    <3> PICK skew \in Skews : PurgeHolds(skew)
      BY <2>5 DEF PurgeStep
    <3>1. DOMAIN holds' = DOMAIN holds \ Purgeable(skew)
          /\ \A k \in DOMAIN holds' : holds'[k] = holds[k]
      BY RestrictedHolds DEF PurgeHolds, DeleteHolds
    <3>2. CASE h \notin Purgeable(skew)
      BY <2>0, <3>1, <3>2
    <3>3. CASE h \in Purgeable(skew)
      <4>1. holds[h].expires_at \in Int /\ now \in Int /\ skew \in Int
            /\ Retention \in Int
        BY <2>0, TablesAssumption DEF TypeOK, TablesTypeOK, HoldRow
      <4>2. Retention > 0 /\ holds[h].expires_at < now + skew - Retention
        BY <3>3 DEF Purgeable
      <4>3. holds[h].expires_at + Retention < now + skew
        BY <4>1, <4>2
      <4> QED
        BY <3>1, <3>3, <4>2, <4>3
    <3> QED
      BY <3>2, <3>3
  <2>6. CASE UNCHANGED tables
    BY <2>0, <2>6 DEF tables
  <2> QED
    BY <2>1, <2>2, <2>3, <2>4, <2>5, <2>6, StepCases
<1> QED
  BY <1>1, TypeCorrect, PTL DEF Spec, AuditTrailKept

\* No step moves a held row from its hold to another, or frees it while its
\* hold stays, except a cancel of the row itself.
THEOREM RowsFollow == Spec => RowsFollowTheirHold
<1>1. TypeOK /\ RefInv /\ [Next]_vars => HeldRowsFollow
  <2> SUFFICES ASSUME TypeOK, RefInv, [Next]_vars, NEW r \in Rows, NEW h,
                      h = inventory[r].hold_ref, h # NoRef,
                      inventory'[r].hold_ref # h
               PROVE  \/ BookedWithItsHold(r, h)
                      \/ FreedWithItsHold(r, h)
                      \/ ClearedAlone(r)
    BY DEF HeldRowsFollow
  <2>0. ~inventory[r].booked /\ h \in Active /\ h \in DOMAIN holds
    BY DEF RefInv, NoOrphanHoldRef, BookedNeverHeld, Active, TypeOK,
           TablesTypeOK, InventoryRow
  <2>1. CASE HoldStep
    BY <2>1 DEF HoldStep, WriteHold, Free
  <2>2. CASE BookingStep
    <3> PICK ref \in Active, booking \in Bookings : WriteBooking(ref, booking)
      BY <2>2 DEF BookingStep
    <3>1. h = ref /\ inventory'[r].booked
      BY DEF WriteBooking
    <3>2. h \in DOMAIN holds' /\ holds'[h].booking_id = booking
      BY <2>0, <3>1 DEF WriteBooking, TypeOK, TablesTypeOK, HoldRow
    <3> QED
      BY <2>0, <3>1, <3>2, TablesAssumption
      DEF BookedWithItsHold, Consumed, Active
  <2>3. CASE DropStep
    <3> PICK refs \in SUBSET Active : DropHolds(refs)
      BY <2>3 DEF DropStep
    <3>1. h \in refs /\ ~inventory'[r].booked
      BY <2>0 DEF DropHolds, FreeRowsOf, TypeOK, TablesTypeOK, InventoryRow
    <3>2. DOMAIN holds' = DOMAIN holds \ refs
      BY RestrictedHolds DEF DropHolds, DeleteHolds
    <3> QED
      BY <3>1, <3>2 DEF FreedWithItsHold
  <2>4. CASE ClearStep
    BY <2>4 DEF ClearStep, ClearRows, ClearedAlone
  <2>5. CASE PurgeStep
    BY <2>5 DEF PurgeStep, PurgeHolds
  <2>6. CASE UNCHANGED tables
    BY <2>6 DEF tables
  <2> QED
    BY <2>1, <2>2, <2>3, <2>4, <2>5, <2>6, StepCases
<1>2. Init => RefInv
  BY DEF Init, TablesInit, RefInv, NoOrphanHoldRef, BookedNeverHeld
<1>3. TypeOK /\ RefInv /\ [Next]_vars => RefInv'
  BY RefInvStep
<1> QED
  BY <1>1, <1>2, <1>3, TypeCorrect, PTL DEF Spec, RowsFollowTheirHold

-----------------------------------------------------------------------------
(***************************************************************************)
(* Where nobody calls cancel-seats, no leg of a seat is sold twice.  The   *)
(* invariant that carries it says who owns each row: an active hold has    *)
(* its reference in all its rows, a confirmed one has them all booked.  A  *)
(* row then speaks for one hold at most, as long as new holds take free    *)
(* rows only.                                                              *)
(***************************************************************************)
SaleInv == RefInv /\ HoldsOwnTheirRows /\ NoDoubleSale

LEMMA SaleInvStep ==
  ASSUME "cancel" \notin Kinds, TypeOK, SaleInv, [Next]_vars
  PROVE  HoldsOwnTheirRows' /\ NoDoubleSale'
<1> USE DEF SaleInv, HoldsOwnTheirRows, NoDoubleSale, RowsOfHold, Active,
            TypeOK, TablesTypeOK, InventoryRow
<1>0. \A S, L : Cover(S, L)' = Cover(S, L) /\ Cover(S, L) \subseteq Rows
  BY DEF Cover
<1>1. CASE HoldStep
  <2> PICK ref \in Refs \ issued, seat \in Seats, legs \in SUBSET Legs,
           created \in Int, expires \in Int :
         /\ \A r \in Cover(seat, legs) : Free(r)
         /\ WriteHold(ref, seat, legs, created, expires)
    BY <1>1 DEF HoldStep
  <2>1. ref \notin DOMAIN holds /\ DOMAIN holds' = DOMAIN holds \cup {ref}
    BY DEF WriteHold
  <2>2. holds'[ref].booking_id = NoBooking
        /\ holds'[ref].seat = seat /\ holds'[ref].legs = legs
    BY DEF WriteHold
  <2>3. \A h \in DOMAIN holds : holds'[h] = holds[h]
    BY <2>1 DEF WriteHold
  <2>4. \A r \in Cover(seat, legs) : inventory'[r].hold_ref = ref
    BY <1>0 DEF WriteHold
  <2>5. \A r \in Rows \ Cover(seat, legs) : inventory'[r] = inventory[r]
    BY DEF WriteHold
  <2>6. ASSUME NEW h \in DOMAIN holds
        PROVE  RowsOfHold(h) \cap Cover(seat, legs) = {}
    <3> SUFFICES ASSUME NEW r \in RowsOfHold(h), r \in Cover(seat, legs)
                 PROVE  FALSE
      OBVIOUS
    <3>1. h # NoRef
      BY TablesAssumption
    <3> QED
      BY <3>1 DEF Free
  <2>7. HoldsOwnTheirRows'
    BY <1>0, <2>1, <2>2, <2>3, <2>4, <2>5, <2>6
  <2>8. NoDoubleSale'
    BY <1>0, <2>1, <2>2, <2>3, <2>6
  <2> QED
    BY <2>7, <2>8
<1>2. CASE BookingStep
  <2> PICK ref \in Active, booking \in Bookings : WriteBooking(ref, booking)
    BY <1>2 DEF BookingStep
  <2>1. DOMAIN holds' = DOMAIN holds
        /\ \A h \in DOMAIN holds : /\ holds'[h].seat = holds[h].seat
                                   /\ holds'[h].legs = holds[h].legs
                                   /\ h # ref => holds'[h] = holds[h]
    BY DEF WriteBooking, HoldRow
  <2>2. holds'[ref].booking_id # NoBooking
    BY TablesAssumption DEF WriteBooking, HoldRow
  <2>3. \A r \in Rows : IF inventory[r].hold_ref = ref
                        THEN inventory'[r].booked
                        ELSE inventory'[r] = inventory[r]
    BY DEF WriteBooking
  <2>4. \A h \in DOMAIN holds \ {ref} : \A r \in RowsOfHold(h) :
          inventory[r].hold_ref = ref => h \notin Active /\ inventory[r].booked
    OBVIOUS
  <2>5. HoldsOwnTheirRows'
    <3> SUFFICES ASSUME NEW h \in DOMAIN holds', NEW r \in RowsOfHold(h)'
                 PROVE  IF h \in Active' THEN inventory'[r].hold_ref = h
                                         ELSE inventory'[r].booked
      OBVIOUS
    <3>1. h \in DOMAIN holds /\ r \in RowsOfHold(h) /\ r \in Rows
      BY <1>0, <2>1
    <3>2. CASE h = ref
      BY <2>2, <2>3, <3>1, <3>2
    <3>3. CASE h # ref
      BY <2>1, <2>3, <2>4, <3>1, <3>3
    <3> QED
      BY <3>2, <3>3
  <2>6. NoDoubleSale'
    BY <1>0, <2>1
  <2> QED
    BY <2>5, <2>6
<1>3. CASE DropStep
  <2> PICK refs \in SUBSET Active : DropHolds(refs)
    BY <1>3 DEF DropStep
  <2>1. DOMAIN holds' = DOMAIN holds \ refs
        /\ \A h \in DOMAIN holds' : holds'[h] = holds[h]
    BY RestrictedHolds DEF DropHolds, DeleteHolds
  <2>2. \A r \in Rows : IF inventory[r].hold_ref \in refs
                        THEN inventory'[r].booked = inventory[r].booked
                        ELSE inventory'[r] = inventory[r]
    BY DEF DropHolds, FreeRowsOf
  <2>3. HoldsOwnTheirRows'
    BY <1>0, <2>1, <2>2
  <2>4. NoDoubleSale'
    BY <1>0, <2>1
  <2> QED
    BY <2>3, <2>4
<1>4. CASE ClearStep
  BY <1>4 DEF ClearStep
<1>5. CASE PurgeStep
  <2> PICK skew \in Skews : PurgeHolds(skew)
    BY <1>5 DEF PurgeStep
  <2>1. DOMAIN holds' \subseteq DOMAIN holds
        /\ \A h \in DOMAIN holds' : holds'[h] = holds[h]
    BY RestrictedHolds DEF PurgeHolds, DeleteHolds
  <2>2. inventory' = inventory
    BY DEF PurgeHolds
  <2>3. HoldsOwnTheirRows'
    BY <1>0, <2>1, <2>2
  <2>4. NoDoubleSale'
    BY <1>0, <2>1
  <2> QED
    BY <2>3, <2>4
<1>6. CASE UNCHANGED tables
  BY <1>0, <1>6 DEF tables
<1> QED
  BY <1>1, <1>2, <1>3, <1>4, <1>5, <1>6, StepCases

LEMMA SaleInvariant ==
  ASSUME "cancel" \notin Kinds
  PROVE  Spec => []SaleInv
<1>1. Init => SaleInv
  BY DEF Init, TablesInit, SaleInv, RefInv, NoOrphanHoldRef, BookedNeverHeld,
         HoldsOwnTheirRows, NoDoubleSale
<1>2. TypeOK /\ SaleInv /\ [Next]_vars => SaleInv'
  <2> SUFFICES ASSUME TypeOK, SaleInv, [Next]_vars PROVE SaleInv'
    OBVIOUS
  <2>1. RefInv'
    BY RefInvStep DEF SaleInv
  <2>2. HoldsOwnTheirRows' /\ NoDoubleSale'
    BY SaleInvStep
  <2> QED
    BY <2>1, <2>2 DEF SaleInv
<1> QED
  BY <1>1, <1>2, TypeCorrect, PTL DEF Spec

\* Without cancel-seats, two holds in the table never share a row.
THEOREM SoldOnce ==
  ASSUME "cancel" \notin Kinds
  PROVE  Spec => []NoDoubleSale
<1>1. SaleInv => NoDoubleSale
  BY DEF SaleInv
<1> QED
  BY <1>1, SaleInvariant, PTL

\* Without cancel-seats, the snapshot shows every hold whole.
THEOREM SnapshotWhole ==
  ASSUME "cancel" \notin Kinds
  PROVE  Spec => []SnapshotShowsHolds
<1>1. TypeOK /\ SaleInv => SnapshotShowsHolds
  <2> SUFFICES ASSUME TypeOK, SaleInv, NEW h \in DOMAIN holds,
                      NEW r \in RowsOfHold(h)
               PROVE  Snapshot[r] =
                        IF h \in Active
                        THEN [status |-> "held",
                              hold_expires_at |-> holds[h].expires_at]
                        ELSE [status |-> "booked", hold_expires_at |-> NoRef]
    BY DEF SnapshotShowsHolds
  <2>1. r \in Rows /\ h # NoRef
    BY TablesAssumption DEF RowsOfHold, Cover, TypeOK, TablesTypeOK
  <2>2. CASE h \in Active
    <3>1. inventory[r].hold_ref = h /\ ~inventory[r].booked
      BY <2>1, <2>2
      DEF SaleInv, HoldsOwnTheirRows, RefInv, BookedNeverHeld
    <3>2. Status(r) = "held"
      BY <2>1, <3>1 DEF Status, Free
    <3>3. Joined(r) = {h}
      BY <3>1 DEF Joined
    <3>4. SnapshotExpiry(r) = holds[h].expires_at
      BY <3>2, <3>3 DEF SnapshotExpiry
    <3> QED
      BY <2>1, <2>2, <3>2, <3>4 DEF Snapshot
  <2>3. CASE h \notin Active
    <3>1. Status(r) = "booked"
      BY <2>1, <2>3 DEF Status, Free, SaleInv, HoldsOwnTheirRows
    <3>2. SnapshotExpiry(r) = NoRef
      BY <3>1 DEF SnapshotExpiry
    <3> QED
      BY <2>1, <2>3, <3>1, <3>2 DEF Snapshot
  <2> QED
    BY <2>2, <2>3
<1> QED
  BY <1>1, TypeCorrect, SaleInvariant, PTL

-----------------------------------------------------------------------------
(***************************************************************************)
(* The ledger implements SeatSale.  A held row belongs to an active hold   *)
(* and is not booked (RefInv), so what the seat map shows of a row changes *)
(* exactly when a statement names the row or its hold.                     *)
(***************************************************************************)
LEMMA SaleHold ==
  ASSUME TypeOK, RefInv, HoldStep
  PROVE  \E h \in Refs, S \in SUBSET Rows : Sale!Take(h, S)
<1> PICK ref \in Refs \ issued, seat \in Seats, legs \in SUBSET Legs,
         created \in Int, expires \in Int :
       /\ \A r \in Cover(seat, legs) : Free(r)
       /\ WriteHold(ref, seat, legs, created, expires)
  BY DEF HoldStep
<1> DEFINE S == Cover(seat, legs)
<1> USE TablesAssumption DEF TypeOK, TablesTypeOK, InventoryRow
<1>1. S \in SUBSET Rows /\ ref \in Refs
  BY DEF Cover
<1>2. \A r \in S : Status(r) = "free"
  BY DEF Status, Free
<1>3. ASSUME NEW r \in Rows
      PROVE  IF r \in S THEN Status(r)' = "held" /\ Holder(r)' = ref
                        ELSE Status(r)' = Status(r) /\ Holder(r)' = Holder(r)
  <2>1. CASE r \in S
    <3>1. inventory'[r].hold_ref = ref /\ ~inventory'[r].booked /\ ref # NoRef
      BY <2>1 DEF WriteHold, Free
    <3> QED
      BY <2>1, <3>1 DEF Status, Free, Holder
  <2>2. CASE r \notin S
    BY <2>2 DEF WriteHold, Status, Free, Holder
  <2> QED
    BY <2>1, <2>2
<1>4. ASSUME NEW h \in Refs
      PROVE  IF h = ref THEN Phase(h) = "new" /\ Phase(h)' = "held"
                        ELSE Phase(h)' = Phase(h)
  <2>1. DOMAIN holds' = DOMAIN holds \cup {ref} /\ issued' = issued \cup {ref}
        /\ holds'[ref].booking_id = NoBooking
        /\ \A k \in DOMAIN holds : holds'[k] = holds[k]
    BY DEF WriteHold
  <2> QED
    BY <2>1 DEF Phase, Active, Consumed
<1>5. Sale!Becomes(S, "held", ref)
  BY <1>1, <1>3 DEF Sale!Becomes
<1>6. Sale!Moves({ref}, "new", "held")
  BY <1>4 DEF Sale!Moves
<1>7. Sale!Take(ref, S)
  BY <1>1, <1>2, <1>5, <1>6 DEF Sale!Take
<1> QED
  BY <1>1, <1>7

LEMMA SaleConfirm ==
  ASSUME TypeOK, RefInv, BookingStep
  PROVE  \E h \in Refs : Sale!Sell(h)
<1> PICK ref \in Active, booking \in Bookings : WriteBooking(ref, booking)
  BY DEF BookingStep
<1> USE TablesAssumption DEF TypeOK, TablesTypeOK, InventoryRow
<1>1. ref \in Refs /\ ref # NoRef /\ ref \in DOMAIN holds /\ ref \in issued
  BY DEF Active
<1> DEFINE S == Sale!HeldBy({ref})
<1>2. S = {r \in Rows : inventory[r].hold_ref = ref}
  BY <1>1 DEF Sale!HeldBy, Holder, Status, Free, RefInv, BookedNeverHeld
<1>3. ASSUME NEW r \in Rows
      PROVE  IF r \in S THEN Status(r)' = "booked" /\ Holder(r)' = NoRef
                        ELSE Status(r)' = Status(r) /\ Holder(r)' = Holder(r)
  BY <1>2 DEF WriteBooking, Status, Free, Holder
<1>4. ASSUME NEW h \in Refs
      PROVE  IF h = ref THEN Phase(h) = "held" /\ Phase(h)' = "sold"
                        ELSE Phase(h)' = Phase(h)
  <2>1. DOMAIN holds' = DOMAIN holds /\ issued' = issued
        /\ holds'[ref].booking_id = booking
        /\ \A k \in DOMAIN holds \ {ref} : holds'[k] = holds[k]
    BY <1>1 DEF WriteBooking, HoldRow
  <2> QED
    BY <1>1, <2>1 DEF Phase, Active, Consumed
<1>5. Sale!Becomes(S, "booked", NoRef)
  BY <1>3 DEF Sale!Becomes
<1>6. Sale!Moves({ref}, "held", "sold")
  BY <1>1, <1>4 DEF Sale!Moves
<1> QED
  BY <1>1, <1>5, <1>6 DEF Sale!Sell

LEMMA SaleDrop ==
  ASSUME TypeOK, RefInv, DropStep
  PROVE  \E H \in SUBSET Refs : Sale!Drop(H)
<1> PICK refs \in SUBSET Active : DropHolds(refs)
  BY DEF DropStep
<1> USE TablesAssumption DEF TypeOK, TablesTypeOK, InventoryRow
<1>1. refs \in SUBSET Refs /\ NoRef \notin refs /\ refs \subseteq issued
  BY DEF Active
<1> DEFINE S == Sale!HeldBy(refs)
<1>2. S = {r \in Rows : inventory[r].hold_ref \in refs}
  BY <1>1 DEF Sale!HeldBy, Holder, Status, Free, RefInv, BookedNeverHeld
<1>3. ASSUME NEW r \in Rows
      PROVE  IF r \in S THEN Status(r)' = "free" /\ Holder(r)' = NoRef
                        ELSE Status(r)' = Status(r) /\ Holder(r)' = Holder(r)
  <2>1. CASE r \in S
    <3>1. inventory'[r].hold_ref = NoRef /\ ~inventory'[r].booked
      BY <1>1, <1>2, <2>1
      DEF DropHolds, FreeRowsOf, RefInv, BookedNeverHeld
    <3> QED
      BY <2>1, <3>1 DEF Status, Free, Holder
  <2>2. CASE r \notin S
    BY <1>2, <2>2 DEF DropHolds, FreeRowsOf, Status, Free, Holder
  <2> QED
    BY <2>1, <2>2
<1>4. ASSUME NEW h \in Refs
      PROVE  IF h \in refs THEN Phase(h) = "held" /\ Phase(h)' = "gone"
                           ELSE Phase(h)' = Phase(h)
  <2>1. DOMAIN holds' = DOMAIN holds \ refs /\ issued' = issued
        /\ \A k \in DOMAIN holds' : holds'[k] = holds[k]
    BY RestrictedHolds DEF DropHolds, DeleteHolds
  <2> QED
    BY <1>1, <2>1 DEF Phase, Active, Consumed
<1>5. Sale!Becomes(S, "free", NoRef)
  BY <1>3 DEF Sale!Becomes
<1>6. Sale!Moves(refs, "held", "gone")
  BY <1>1, <1>4 DEF Sale!Moves
<1> QED
  BY <1>1, <1>5, <1>6 DEF Sale!Drop

LEMMA SaleClear ==
  ASSUME TypeOK, ClearStep
  PROVE  \E S \in SUBSET Rows : Sale!Clear(S)
<1> PICK seat \in Seats, legs \in SUBSET Legs : ClearRows(seat, legs)
  BY DEF ClearStep
<1> DEFINE S == Cover(seat, legs)
<1>1. S \in SUBSET Rows
  BY DEF Cover
<1>2. ASSUME NEW r \in Rows
      PROVE  IF r \in S THEN Status(r)' = "free" /\ Holder(r)' = NoRef
                        ELSE Status(r)' = Status(r) /\ Holder(r)' = Holder(r)
  BY TablesAssumption
  DEF ClearRows, Status, Free, Holder, TypeOK, TablesTypeOK, InventoryRow
<1>3. \A h \in Refs : Phase(h)' = Phase(h)
  BY DEF ClearRows, Phase, Active, Consumed
<1> HIDE DEF S
<1> QED
  BY <1>1, <1>2, <1>3 DEF Sale!Becomes, Sale!Clear

LEMMA SalePurge ==
  ASSUME TypeOK, PurgeStep
  PROVE  \E H \in SUBSET Refs : Sale!Forget(H)
<1> PICK skew \in Skews : PurgeHolds(skew)
  BY DEF PurgeStep
<1> DEFINE H == Purgeable(skew)
<1> USE TablesAssumption DEF TypeOK, TablesTypeOK
<1>1. H \in SUBSET Refs /\ H \subseteq Consumed /\ Consumed \subseteq issued
  BY DEF Purgeable, Consumed
<1>2. DOMAIN holds' = DOMAIN holds \ H /\ issued' = issued
      /\ \A k \in DOMAIN holds' : holds'[k] = holds[k]
  BY RestrictedHolds DEF PurgeHolds, DeleteHolds
<1>3. inventory' = inventory
  BY DEF PurgeHolds
<1>4. \A h \in Refs : IF h \in H THEN Phase(h) = "sold" /\ Phase(h)' = "gone"
                                 ELSE Phase(h)' = Phase(h)
  BY <1>1, <1>2 DEF Phase, Active, Consumed
<1>5. \A r \in Rows : Status(r)' = Status(r) /\ Holder(r)' = Holder(r)
  BY <1>3 DEF Status, Free, Holder
<1>6. Sale!Moves(H, "sold", "gone")
  BY <1>1, <1>4 DEF Sale!Moves
<1> QED
  BY <1>1, <1>5, <1>6 DEF Sale!Forget

\* Every step of the ledger is a step of SeatSale, or shows no change there.
THEOREM LedgerImplementsSale == Spec => ImplementsSale
<1>1. Init => Sale!Init
  <2> SUFFICES ASSUME Init PROVE Sale!Init
    OBVIOUS
  <2>1. ASSUME NEW r \in Rows
        PROVE  Status(r) = "free" /\ Holder(r) = NoRef
    <3>1. ~inventory[r].booked /\ inventory[r].hold_ref = NoRef
      BY DEF Init, TablesInit
    <3> QED
      BY <3>1 DEF Status, Free, Holder
  <2>2. \A h \in Refs : Phase(h) = "new"
    BY DEF Init, TablesInit, Phase, Active, Consumed
  <2> QED
    BY <2>1, <2>2 DEF Sale!Init
<1>2. TypeOK /\ RefInv /\ [Next]_vars => [Sale!Next]_Sale!vars
  <2> SUFFICES ASSUME TypeOK, RefInv, [Next]_vars
               PROVE  [Sale!Next]_Sale!vars
    OBVIOUS
  <2>1. CASE HoldStep
    BY <2>1, SaleHold DEF Sale!Next
  <2>2. CASE BookingStep
    BY <2>2, SaleConfirm DEF Sale!Next
  <2>3. CASE DropStep
    BY <2>3, SaleDrop DEF Sale!Next
  <2>4. CASE ClearStep
    BY <2>4, SaleClear DEF Sale!Next
  <2>5. CASE PurgeStep
    BY <2>5, SalePurge DEF Sale!Next
  <2>6. CASE UNCHANGED tables
    <3>1. \A r \in Rows : Status(r)' = Status(r) /\ Holder(r)' = Holder(r)
      BY <2>6 DEF tables, Status, Free, Holder
    <3>2. \A h \in Refs : Phase(h)' = Phase(h)
      BY <2>6 DEF tables, Phase, Active, Consumed
    <3> QED
      BY <3>1, <3>2 DEF Sale!vars
  <2> QED
    BY <2>1, <2>2, <2>3, <2>4, <2>5, <2>6, StepCases
<1>3. Init => RefInv
  BY DEF Init, TablesInit, RefInv, NoOrphanHoldRef, BookedNeverHeld
<1>4. TypeOK /\ RefInv /\ [Next]_vars => RefInv'
  BY RefInvStep
<1> QED
  BY <1>1, <1>2, <1>3, <1>4, TypeCorrect, PTL
  DEF Spec, ImplementsSale, Sale!Spec

-----------------------------------------------------------------------------
(***************************************************************************)
(* What README.md says of a confirm holds where cancel-seats is not used:  *)
(* only a cancel takes rows from a hold that is still active, so a confirm *)
(* finds all of them.  With cancels the claim fails, and a run shows how.  *)
(***************************************************************************)
LEMMA HoldsKeepLegs ==
  ASSUME TypeOK, [Next]_vars, NEW h \in DOMAIN holds, h \in DOMAIN holds'
  PROVE  holds'[h].seat = holds[h].seat /\ holds'[h].legs = holds[h].legs
<1> USE DEF TypeOK, TablesTypeOK
<1>1. CASE HoldStep
  BY <1>1 DEF HoldStep, WriteHold
<1>2. CASE BookingStep
  BY <1>2 DEF BookingStep, WriteBooking, HoldRow
<1>3. CASE DropStep
  BY <1>3, RestrictedHolds DEF DropStep, DropHolds, DeleteHolds
<1>4. CASE ClearStep
  BY <1>4 DEF ClearStep, ClearRows
<1>5. CASE PurgeStep
  BY <1>5, RestrictedHolds DEF PurgeStep, PurgeHolds, DeleteHolds
<1>6. CASE UNCHANGED tables
  BY <1>6 DEF tables
<1> QED
  BY <1>1, <1>2, <1>3, <1>4, <1>5, <1>6, StepCases

\* Without cancel-seats, the step that stores a booking id books every row
\* of the hold.
THEOREM ConfirmsBookAll ==
  ASSUME "cancel" \notin Kinds
  PROVE  Spec => ConfirmBooksSeats
<1>1. TypeOK /\ SaleInv' /\ [Next]_vars =>
        \A h \in Active \cap Consumed' :
          \A r \in RowsOfHold(h) : inventory'[r].booked
  <2> SUFFICES ASSUME TypeOK, SaleInv', [Next]_vars,
                      NEW h \in Active \cap Consumed', NEW r \in RowsOfHold(h)
               PROVE  inventory'[r].booked
    OBVIOUS
  <2>1. h \in DOMAIN holds /\ h \in DOMAIN holds' /\ h \notin Active'
    BY DEF Active, Consumed
  <2>2. r \in RowsOfHold(h)'
    BY <2>1, HoldsKeepLegs DEF RowsOfHold, Cover
  <2> QED
    BY <2>1, <2>2 DEF SaleInv, HoldsOwnTheirRows
<1> QED
  BY <1>1, TypeCorrect, SaleInvariant, PTL DEF Spec, ConfirmBooksSeats

=============================================================================
