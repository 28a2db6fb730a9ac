----------------------------- MODULE SeatLedger -----------------------------
(***************************************************************************)
(* What the engine promises its callers: every operation takes effect at   *)
(* once, or not at all.  Each action is one committed transaction; requests *)
(* that are refused, fail or time out leave no trace here.  EngineTxn      *)
(* shows how the handlers reach this with row locks.                       *)
(***************************************************************************)
EXTENDS SeatTables

vars == <<now, tables>>

Init == TablesInit

(***************************************************************************)
(* atomic_hold.  created is the start of the transaction (now() in the     *)
(* database), which can be before the commit; the expiry was computed even *)
(* earlier, on the engine's clock, before a connection was at hand.        *)
(***************************************************************************)
Hold(ref, seat, legs, created, expires) ==
  /\ "hold" \in Kinds
  /\ ref \notin issued
  /\ legs # {}
  /\ {seat} \X legs \subseteq Rows
  /\ \A r \in Cover(seat, legs) : Free(r)
  /\ WriteHold(ref, seat, legs, created, expires)
  /\ UNCHANGED now

(***************************************************************************)
(* confirm_booking.  The expiry is tested against the start of the confirm *)
(* transaction, so a confirm can commit after the expiry, but never one    *)
(* that began after it, and none begins before the hold exists.            *)
(***************************************************************************)
Confirm(ref, booking) ==
  /\ "confirm" \in Kinds
  /\ ref \in Active
  /\ holds[ref].expires_at > holds[ref].created_at
  /\ WriteBooking(ref, booking)
  /\ UNCHANGED now

\* release_hold_by_ref: expired holds can be released too.
Release(ref) ==
  /\ "release" \in Kinds
  /\ ref \in Active
  /\ DropHolds({ref})
  /\ UNCHANGED now

\* cancel_booking_seats: always succeeds, whoever has the seat.
Cancel(seat, legs) ==
  /\ "cancel" \in Kinds
  /\ ClearRows(seat, legs)
  /\ UNCHANGED now

\* One reaper batch: only active holds whose time is up, in any selection.
Reap(refs) ==
  /\ refs \subseteq ExpiredAt(now)
  /\ Cardinality(refs) <= BatchLimit
  /\ DropHolds(refs)
  /\ UNCHANGED now

Purge(skew) ==
  /\ PurgeHolds(skew)
  /\ UNCHANGED now

Tick ==
  /\ Advance
  /\ UNCHANGED tables

Next ==
  \/ \E ref \in Refs, seat \in Seats, legs \in SUBSET Legs, created \in 0..now :
       \E asked \in 0..created : \E expires \in Expiries(asked) :
         Hold(ref, seat, legs, created, expires)
  \/ \E ref \in Refs, booking \in Bookings : Confirm(ref, booking)
  \/ \E ref \in Refs : Release(ref)
  \/ \E seat \in Seats, legs \in SUBSET Legs : Cancel(seat, legs)
  \/ \E refs \in SUBSET Refs : Reap(refs)
  \/ \E skew \in Skews : Purge(skew)
  \/ Tick

Spec == Init /\ [][Next]_vars

-----------------------------------------------------------------------------
(* Properties *)

\* Every table row has the columns the schema gives it.
TypeOK == TablesTypeOK

(***************************************************************************)
(* The audit row of a confirmed hold is never altered and never released:  *)
(* it leaves the table only when its retention is over, by the engine      *)
(* clock with the largest skew (reaper.rs: "NEVER released").              *)
(***************************************************************************)
AuditRowsKept ==
  \A h \in Consumed :
    \/ h \in DOMAIN holds' /\ holds'[h] = holds[h]
    \/ /\ h \notin DOMAIN holds'
       /\ Retention > 0
       /\ \E skew \in Skews : holds[h].expires_at + Retention < now + skew

AuditTrailKept == [][AuditRowsKept]_vars

(***************************************************************************)
(* A held row changes hands only together with its own hold: it is booked  *)
(* by the confirm of that hold, freed by the end of that hold, or cleared  *)
(* by a cancel, which touches no hold.  Confirming or releasing a hold     *)
(* whose seat was cancelled and held again by somebody else must not touch *)
(* the new holder's rows.                                                  *)
(***************************************************************************)
BookedWithItsHold(r, h) ==
  inventory'[r].booked /\ h \in Active /\ h \in Consumed'

FreedWithItsHold(r, h) == ~inventory'[r].booked /\ h \notin DOMAIN holds'

ClearedAlone(r) ==
  inventory'[r] = [booked |-> FALSE, hold_ref |-> NoRef] /\ holds' = holds

HeldRowsFollow ==
  \A r \in Rows :
    LET h == inventory[r].hold_ref IN
    h # NoRef /\ inventory'[r].hold_ref # h =>
      BookedWithItsHold(r, h) \/ FreedWithItsHold(r, h) \/ ClearedAlone(r)

RowsFollowTheirHold == [][HeldRowsFollow]_vars

(***************************************************************************)
(* "Confirm valid -> booked + booking_id" (README.md): the step that       *)
(* stores a booking id in a hold leaves every row of that hold booked.     *)
(***************************************************************************)
ConfirmBooksSeats ==
  [][\A h \in Active \cap Consumed' :
       \A r \in RowsOfHold(h) : inventory'[r].booked]_vars

(***************************************************************************)
(* The ledger keeps the contract of SeatSale: seen through the seat map,   *)
(* every committed transaction takes free legs for a new hold, books or    *)
(* frees exactly what its holds still have, clears the legs a cancel       *)
(* names, or changes nothing a caller can see.  A hold_ref left behind, a  *)
(* row booked for a hold that had lost it, or a reference that comes to    *)
(* life again would show here.                                             *)
(***************************************************************************)
Holder(r) == IF Status(r) = "held" THEN inventory[r].hold_ref ELSE NoRef

Phase(h) ==
  CASE h \notin issued -> "new"
    [] h \in Active -> "held"
    [] h \in Consumed -> "sold"
    [] OTHER -> "gone"

Sale == INSTANCE SeatSale WITH
  Nobody <- NoRef,
  status <- [r \in Rows |-> Status(r)],
  holder <- [r \in Rows |-> Holder(r)],
  phase <- [h \in Refs |-> Phase(h)]

ImplementsSale == Sale!Spec

=============================================================================
