----------------------------- MODULE SeatTables -----------------------------
(***************************************************************************)
(* The two PostgreSQL tables the reservation engine owns, seat_inventory   *)
(* and seat_holds, and the effect of each statement that writes them.      *)
(*                                                                         *)
(* One trip is enough: every statement that names a seat names it by       *)
(* (trip_id, seat_no), so a member of Seats stands for such a pair.  Time  *)
(* is the database clock, in abstract ticks; the engine's own clock reads  *)
(* the database clock plus a member of Skews.                              *)
(***************************************************************************)
EXTENDS Integers, FiniteSets, Functions

CONSTANTS
  Seats,        \* (trip_id, seat_no) pairs
  Legs,         \* leg indexes a request can name
  Rows,         \* the <<seat, leg>> pairs that have a seat_inventory row
  Refs,         \* hold references (UUIDs drawn by the engine)
  Bookings,     \* booking ids given by the caller
  NoRef,        \* seat_inventory.hold_ref IS NULL
  NoBooking,    \* seat_holds.booking_id IS NULL
  Ttls,         \* hold lifetimes: HOLD_TTL_SHORT_SECONDS, HOLD_TTL_LONG_SECONDS
  Skews,        \* engine clock minus database clock
  Retention,    \* CONFIRMED_HOLDS_RETENTION_DAYS; 0 switches the purge off
  BatchLimit,   \* BATCH_LIMIT of the reaper
  Kinds,        \* the endpoints the clients of this deployment call
  MaxTime       \* bound: the clock stops here

AllKinds == {"hold", "confirm", "release", "cancel"}

ASSUME TablesAssumption ==
  /\ Legs \subseteq Int
  /\ Rows \subseteq Seats \X Legs
  /\ NoRef \notin Refs
  /\ NoBooking \notin Bookings
  /\ Ttls \subseteq Int
  /\ Skews \subseteq Int
  /\ Retention \in Nat
  /\ BatchLimit \in Nat
  /\ Kinds \subseteq AllKinds
  /\ MaxTime \in Nat

VARIABLES
  now,          \* the database clock
  inventory,    \* seat_inventory: row -> [booked, hold_ref]
  holds,        \* seat_holds: hold_ref -> row, defined on the refs in the table
  issued        \* every hold_ref that was ever inserted

tables == <<inventory, holds, issued>>

-----------------------------------------------------------------------------

InventoryRow == [booked : BOOLEAN, hold_ref : Refs \cup {NoRef}]

HoldRow == [seat : Seats, legs : SUBSET Legs,
            booking_id : Bookings \cup {NoBooking},
            created_at : Int, expires_at : Int]

\* The rows a "WHERE trip_id AND seat_no AND leg_index = ANY(legs)" selects.
Cover(seat, legs) == {r \in Rows : r[1] = seat /\ r[2] \in legs}

RowsOfHold(h) == Cover(holds[h].seat, holds[h].legs)

\* Slip: the conflict check looks at booked only.
FreeIfNotBooked(r) == ~inventory[r].booked

\* No conflict: neither booked nor held.
Free(r) == ~inventory[r].booked /\ inventory[r].hold_ref = NoRef

\* Holds with booking_id IS NULL, and the audit rows of confirmed ones.
Active == {h \in DOMAIN holds : holds[h].booking_id = NoBooking}
Consumed == DOMAIN holds \ Active

\* Slip: the booking_id IS NULL filter is missing.
ExpiredOrConsumedAt(t) == {h \in DOMAIN holds : holds[h].expires_at <= t}

\* Slip: the time a hold was made is compared.
MadeAt(t) == {h \in Active : holds[h].created_at <= t}

\* booking_id IS NULL AND expires_at <= t
ExpiredAt(t) == {h \in Active : holds[h].expires_at <= t}

\* booking_id IS NOT NULL AND expires_at < cutoff, the cutoff taken from the
\* engine's clock; a retention of 0 purges nothing.
Purgeable(skew) ==
  {h \in Consumed : Retention > 0
                    /\ holds[h].expires_at < now + skew - Retention}

\* expires_at of a hold asked for at time t.
Expiries(t) == {t + skew + ttl : skew \in Skews, ttl \in Ttls}

-----------------------------------------------------------------------------
(* What each statement does to the tables.                                 *)

\* hold: UPDATE seat_inventory SET hold_ref; INSERT INTO seat_holds.
WriteHold(ref, seat, legs, created, expires) ==
  /\ inventory' = [r \in Rows |-> IF r \in Cover(seat, legs)
                                  THEN [inventory[r] EXCEPT !.hold_ref = ref]
                                  ELSE inventory[r]]
  /\ holds' = [h \in DOMAIN holds \cup {ref} |->
                 IF h = ref
                 THEN [seat |-> seat, legs |-> legs, booking_id |-> NoBooking,
                       created_at |-> created, expires_at |-> expires]
                 ELSE holds[h]]
  /\ issued' = issued \cup {ref}

\* Slip: the parameters of the inventory UPDATE are bound in the wrong order.
WriteBookingIntoHoldRef(ref, booking) ==
  /\ inventory' = [r \in Rows |-> IF inventory[r].hold_ref = ref
                                  THEN [booked |-> TRUE, hold_ref |-> booking]
                                  ELSE inventory[r]]
  /\ holds' = [holds EXCEPT ![ref].booking_id = booking]
  /\ UNCHANGED issued

\* Slip: the hold_ref of the booked rows is not cleared.
WriteBookingKeepingHoldRef(ref, booking) ==
  /\ inventory' = [r \in Rows |-> IF inventory[r].hold_ref = ref
                                  THEN [inventory[r] EXCEPT !.booked = TRUE]
                                  ELSE inventory[r]]
  /\ holds' = [holds EXCEPT ![ref].booking_id = booking]
  /\ UNCHANGED issued

\* Slip: the rows are found by the hold's seat and legs, not by hold_ref.
WriteBookingBySeat(ref, booking) ==
  /\ inventory' = [r \in Rows |-> IF r \in RowsOfHold(ref)
                                  THEN [booked |-> TRUE, hold_ref |-> NoRef]
                                  ELSE inventory[r]]
  /\ holds' = [holds EXCEPT ![ref].booking_id = booking]
  /\ UNCHANGED issued

\* confirm: book the rows that carry the hold_ref, mark the hold consumed.
WriteBooking(ref, booking) ==
  /\ inventory' = [r \in Rows |-> IF inventory[r].hold_ref = ref
                                  THEN [booked |-> TRUE, hold_ref |-> NoRef]
                                  ELSE inventory[r]]
  /\ holds' = [holds EXCEPT ![ref].booking_id = booking]
  /\ UNCHANGED issued

\* release and reaper: UPDATE seat_inventory SET hold_ref = NULL.
FreeRowsOf(refs) ==
  inventory' = [r \in Rows |-> IF inventory[r].hold_ref \in refs
                               THEN [inventory[r] EXCEPT !.hold_ref = NoRef]
                               ELSE inventory[r]]

\* release, reaper and purge: DELETE FROM seat_holds.
DeleteHolds(refs) ==
  /\ holds' = Restrict(holds, DOMAIN holds \ refs)
  /\ UNCHANGED issued

\* Slip: the hold row goes, its inventory rows keep the reference.
DeleteHoldsOnly(refs) == DeleteHolds(refs) /\ UNCHANGED inventory

\* A release, or the reaper's work on one batch.
DropHolds(refs) == FreeRowsOf(refs) /\ DeleteHolds(refs)

\* cancel-seats: clears whatever the named rows hold; seat_holds is not read.
ClearRows(seat, legs) ==
  /\ inventory' = [r \in Rows |-> IF r \in Cover(seat, legs)
                                  THEN [booked |-> FALSE, hold_ref |-> NoRef]
                                  ELSE inventory[r]]
  /\ UNCHANGED <<holds, issued>>

\* reaper, first statement: DELETE the audit rows past retention.
PurgeHolds(skew) ==
  /\ DeleteHolds(Purgeable(skew))
  /\ UNCHANGED inventory

-----------------------------------------------------------------------------
(* The read side: get_inventory_snapshot, one query over both tables.      *)

\* status of a leg: booked wins over held.
Status(r) ==
  CASE inventory[r].booked -> "booked"
    [] Free(r) -> "free"
    [] OTHER -> "held"

\* Slip: seat_holds is joined on the seat, not on hold_ref.
JoinedBySeat(r) == {h \in DOMAIN holds : holds[h].seat = r[1]}

\* LEFT JOIN seat_holds h ON h.hold_ref = i.hold_ref
Joined(r) == {h \in DOMAIN holds : h = inventory[r].hold_ref}

\* hold_expires_at of a leg, NoRef standing for null.
SnapshotExpiry(r) ==
  IF Status(r) = "held" /\ Joined(r) # {}
  THEN holds[CHOOSE h \in Joined(r) : TRUE].expires_at
  ELSE NoRef

Snapshot ==
  [r \in Rows |-> [status |-> Status(r), hold_expires_at |-> SnapshotExpiry(r)]]

-----------------------------------------------------------------------------

TablesInit ==
  /\ now = 0
  /\ inventory = [r \in Rows |-> [booked |-> FALSE, hold_ref |-> NoRef]]
  /\ holds = [h \in {} |-> NoRef]
  /\ issued = {}

Advance ==
  /\ now < MaxTime
  /\ now' = now + 1

-----------------------------------------------------------------------------
(* Properties of the tables, shared by the specifications that write them. *)

TablesTypeOK ==
  /\ now \in 0..MaxTime
  /\ inventory \in [Rows -> InventoryRow]
  /\ holds \in [DOMAIN holds -> HoldRow]
  /\ DOMAIN holds \subseteq issued
  /\ issued \subseteq Refs

(***************************************************************************)
(* An inventory row never carries the reference of a hold that is gone,    *)
(* already confirmed, or made for other seats: the engine leaves no orphan *)
(* hold_ref behind, so nobody has to clean one up.                         *)
(***************************************************************************)
NoOrphanHoldRef ==
  \A r \in Rows : inventory[r].hold_ref # NoRef =>
    /\ inventory[r].hold_ref \in Active
    /\ r \in RowsOfHold(inventory[r].hold_ref)

(***************************************************************************)
(* A row is never booked and held at once.  The snapshot reports such a    *)
(* row as booked, and a release of the hold would not free it.             *)
(***************************************************************************)
BookedNeverHeld ==
  \A r \in Rows : ~(inventory[r].booked /\ inventory[r].hold_ref # NoRef)

\* An active hold owns every row it asked for; a confirmed one has them booked.
HoldsOwnTheirRows ==
  \A h \in DOMAIN holds : \A r \in RowsOfHold(h) :
    IF h \in Active THEN inventory[r].hold_ref = h ELSE inventory[r].booked

(***************************************************************************)
(* No leg of a seat is sold or held twice: two holds in the table, active  *)
(* or confirmed, never cover the same row.                                 *)
(***************************************************************************)
NoDoubleSale ==
  \A h, k \in DOMAIN holds : h # k => RowsOfHold(h) \cap RowsOfHold(k) = {}

(***************************************************************************)
(* A seat map shows every hold as it stands: all its legs held until its   *)
(* own expiry, or all of them booked once it is confirmed, never a part.   *)
(***************************************************************************)
SnapshotShowsHolds ==
  \A h \in DOMAIN holds : \A r \in RowsOfHold(h) :
    Snapshot[r] = IF h \in Active
                  THEN [status |-> "held", hold_expires_at |-> holds[h].expires_at]
                  ELSE [status |-> "booked", hold_expires_at |-> NoRef]

=============================================================================
