------------------------------- MODULE Events -------------------------------
(***************************************************************************)
(* The events the engine publishes to Redis after its commits, and a       *)
(* subscriber that keeps a seat map: on every event it reads the legs the  *)
(* event names again.  Publishing is not part of the transaction: other    *)
(* commits come in between, a publish can fail, and a handler can be       *)
(* dropped with events still to publish.                                   *)
(*                                                                         *)
(* The transactions are the steps of the ledger, which EngineTxn           *)
(* implements; the wait for their locks is left out here, so a hold is     *)
(* inserted at the time it is asked for.                                   *)
(***************************************************************************)
EXTENDS SeatTables, Sequences

CONSTANTS
  Workers,      \* request handlers of all engine instances
  Reapers,      \* the reaper task of each engine instance
  MaxInFlight,  \* bound: events on their way when an operation is taken up
  MaxFaults     \* bound: failures in a run

Procs == Workers \cup Reapers

\* UUIDs are finitely many.
ASSUME EventsAssumption ==
  /\ IsFiniteSet(Refs)
  /\ Workers \cap Reapers = {}
  /\ MaxInFlight \in Nat
  /\ MaxFaults \in Nat

VARIABLES
  todo,         \* events each process has still to publish
  channel,      \* published, on their way to the subscriber
  view,         \* the subscriber's seat map
  lost,         \* rows of which an event was lost and none arrived since
  faults        \* failures so far

vars == <<now, tables, todo, channel, view, lost, faults>>

Ledger == INSTANCE SeatLedger

-----------------------------------------------------------------------------
(* events.rs                                                               *)

InventoryUpdated(seat, legs) ==
  [type |-> "inventory.updated", seat |-> seat, legs |-> legs]

\* Names seats, not legs.
HoldsReleased(seat) ==
  [type |-> "holds.released", seat |-> seat, legs |-> Legs]

Event == [type : {"inventory.updated", "holds.released"},
          seat : Seats, legs : SUBSET Legs]

\* emit_release_pair
ReleasePair(h) ==
  <<InventoryUpdated(holds[h].seat, holds[h].legs), HoldsReleased(holds[h].seat)>>

\* The rows of a batch, in the order the SELECT returned them.
Orders(refs) ==
  {s \in [1..Cardinality(refs) -> refs] : \A h \in refs : \E i \in DOMAIN s : s[i] = h}

\* Slip: one event for the whole batch, with the seat of its first hold.
ReapEventsOfFirst(order) == <<HoldsReleased(holds[order[1]].seat)>>

\* The reaper: one holds.released per hold, no inventory.updated.
ReapEvents(order) == [i \in DOMAIN order |-> HoldsReleased(holds[order[i]].seat)]

\* The rows an event names, and those a sequence of events names.
Named(e) == Cover(e.seat, e.legs)
NamedIn(events) == UNION {Named(events[i]) : i \in DOMAIN events}

Init ==
  /\ TablesInit
  /\ todo = [p \in Procs |-> <<>>]
  /\ channel = <<>>
  /\ view = Snapshot
  /\ lost = {}
  /\ faults = 0

\* The transaction of p has committed; it goes on to publish these events.
\* A process takes up its next operation when it is done with the last one.
Emit(p, events) ==
  /\ todo[p] = <<>>
  /\ Len(channel) < MaxInFlight
  /\ todo' = [todo EXCEPT ![p] = events]
  /\ UNCHANGED <<channel, view, lost, faults>>

\* PUBLISH succeeds.
Publish(p) ==
  /\ todo[p] # <<>>
  /\ todo' = [todo EXCEPT ![p] = Tail(@)]
  /\ channel' = Append(channel, Head(todo[p]))
  /\ UNCHANGED <<now, tables, view, lost, faults>>

Fault == faults < MaxFaults /\ faults' = faults + 1

\* Redis is out of reach: the event is dropped, the next one is tried.
PublishFails(p) ==
  /\ Fault
  /\ todo[p] # <<>>
  /\ todo' = [todo EXCEPT ![p] = Tail(@)]
  /\ lost' = lost \cup Named(Head(todo[p]))
  /\ UNCHANGED <<now, tables, channel, view>>

\* The client went away or the engine died: nothing more is published.
Dropped(p) ==
  /\ Fault
  /\ todo[p] # <<>>
  /\ todo' = [todo EXCEPT ![p] = <<>>]
  /\ lost' = lost \cup NamedIn(todo[p])
  /\ UNCHANGED <<now, tables, channel, view>>

-----------------------------------------------------------------------------
(* The operations, and what each publishes when it has committed.          *)

Hold(w, ref, seat, legs, expires) ==
  /\ Ledger!Hold(ref, seat, legs, now, expires)
  /\ Emit(w, <<InventoryUpdated(seat, legs)>>)

\* Slip: nothing is published.
ConfirmSilently(w, ref, booking) ==
  /\ Ledger!Confirm(ref, booking)
  /\ Emit(w, <<>>)

Confirm(w, ref, booking) ==
  /\ Ledger!Confirm(ref, booking)
  /\ Emit(w, <<InventoryUpdated(holds[ref].seat, holds[ref].legs)>>)

Release(w, ref) ==
  /\ Ledger!Release(ref)
  /\ Emit(w, ReleasePair(ref))

Cancel(w, seat, legs) ==
  /\ Ledger!Cancel(seat, legs)
  /\ Emit(w, <<InventoryUpdated(seat, legs)>>)

\* The reaper publishes after it has given up the advisory lock.
Reap(p, refs) ==
  /\ refs # {}
  /\ Ledger!Reap(refs)
  /\ \E order \in Orders(refs) : Emit(p, ReapEvents(order))

\* The purge of audit rows publishes nothing.
Purge(p, skew) ==
  /\ todo[p] = <<>>
  /\ Ledger!Purge(skew)
  /\ UNCHANGED <<todo, channel, view, lost, faults>>

Tick ==
  /\ Ledger!Tick
  /\ UNCHANGED <<todo, channel, view, lost, faults>>

-----------------------------------------------------------------------------
(* The subscriber: Redis delivers in the order of publishing.              *)

Receive ==
  /\ channel # <<>>
  /\ view' = [r \in Rows |-> IF r \in Named(Head(channel)) THEN Snapshot[r]
                                                           ELSE view[r]]
  /\ lost' = lost \ Named(Head(channel))
  /\ channel' = Tail(channel)
  /\ UNCHANGED <<now, tables, todo, faults>>

\* Pub/sub keeps nothing for a subscriber that loses its connection.
Disconnect ==
  /\ Fault
  /\ channel # <<>>
  /\ channel' = <<>>
  /\ lost' = lost \cup NamedIn(channel)
  /\ UNCHANGED <<now, tables, todo, view>>

Operate(w) ==
  \/ \E ref \in Refs, seat \in Seats, legs \in SUBSET Legs :
       \E expires \in Expiries(now) : Hold(w, ref, seat, legs, expires)
  \/ \E ref \in Refs, booking \in Bookings : Confirm(w, ref, booking)
  \/ \E ref \in Refs : Release(w, ref)
  \/ \E seat \in Seats, legs \in SUBSET Legs : Cancel(w, seat, legs)

Next ==
  \/ \E w \in Workers : Operate(w)
  \/ \E p \in Reapers :
       (\E refs \in SUBSET Refs : Reap(p, refs)) \/ (\E skew \in Skews : Purge(p, skew))
  \/ \E p \in Procs : Publish(p) \/ PublishFails(p) \/ Dropped(p)
  \/ Receive \/ Disconnect
  \/ Tick

Spec == Init /\ [][Next]_vars

(***************************************************************************)
(* A handler awaits its publishes right after the commit, the reaper's     *)
(* loop too; the subscriber reads its connection.                          *)
(***************************************************************************)
FairSpec ==
  /\ Spec
  /\ \A p \in Procs : WF_vars(Publish(p))
  /\ WF_vars(Receive)

-----------------------------------------------------------------------------
(* Properties *)

\* The queues hold events, the seat map and the losses are about real rows.
TypeOK ==
  /\ TablesTypeOK
  /\ todo \in [Procs -> Seq(Event)]
  /\ channel \in Seq(Event)
  /\ DOMAIN view = Rows
  /\ lost \subseteq Rows
  /\ faults \in 0..MaxFaults

Underway == NamedIn(channel) \cup UNION {NamedIn(todo[p]) : p \in Procs}

(***************************************************************************)
(* Every change of the seat map is announced, after it was made and for    *)
(* all its legs: a row that the subscriber shows otherwise than the        *)
(* snapshot endpoint would has an event under way, or lost its last one;   *)
(* the next event about that row mends the loss.                           *)
(***************************************************************************)
ViewCurrent ==
  \A r \in Rows : view[r] = Snapshot[r] \/ r \in Underway \/ r \in lost

(***************************************************************************)
(* "Order is guaranteed: inventory.updated -> holds.released for every     *)
(* release operation" (integration guide), the reaper's included: what an  *)
(* operation goes on to publish has no holds.released without an           *)
(* inventory.updated of the same seat before it.                           *)
(***************************************************************************)
Announces(events) ==
  \A i \in DOMAIN events : events[i].type = "holds.released" =>
    \E j \in 1..i : events[j].type = "inventory.updated"
                    /\ events[j].seat = events[i].seat

UpdateBeforeReleased ==
  [][\A p \in Procs : todo[p] = <<>> => Announces(todo'[p])]_vars

(***************************************************************************)
(* A change is shown in the end, or its event was lost.                    *)
(***************************************************************************)
ChangesShown ==
  \A r \in Rows : view[r] # Snapshot[r] ~> view[r] = Snapshot[r] \/ r \in lost

=============================================================================
