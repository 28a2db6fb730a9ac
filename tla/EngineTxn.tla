------------------------------ MODULE EngineTxn ------------------------------
(***************************************************************************)
(* The handlers of engine-core as PostgreSQL runs them: every operation is *)
(* a transaction of several statements, many run at once, and what keeps   *)
(* them apart is row locks (SELECT ... FOR UPDATE, UPDATE, DELETE) held to *)
(* the end of the transaction.                                             *)
(*                                                                         *)
(* Isolation is READ COMMITTED: a statement that waited for a row sees the *)
(* row as the last committer left it, so a guard here reads the tables     *)
(* when the lock is free.  Writes are invisible to others until the commit *)
(* and are made by the commit action.  now() is the transaction's start.   *)
(***************************************************************************)
EXTENDS SeatTables

CONSTANTS
  Workers,      \* request handlers of all engine instances
  Reapers,      \* the reaper task of each engine instance
  NoProc,       \* nobody has the lock
  Stale,        \* a session no task uses any more has the lock
  LegLists,     \* leg_indexes of requests, as [legs, len]: a set and its length
  MaxFaults     \* bound: failures in a run

Procs == Workers \cup Reapers

ASSUME EngineAssumption ==
  /\ Workers \cap Reapers = {}
  /\ NoProc \notin Procs
  /\ Stale \notin Procs \cup {NoProc}
  /\ LegLists \subseteq [legs : (SUBSET Legs) \ {{}}, len : Nat]
  /\ \A want \in LegLists :
       IsFiniteSet(want.legs) /\ Cardinality(want.legs) <= want.len
  /\ MaxFaults \in Nat

VARIABLES
  pc,           \* where each handler or reaper is
  req,          \* what it works on
  txNow,        \* now() of its transaction
  rowLock,      \* owner of each seat_inventory row lock
  holdLock,     \* owner of each seat_holds row lock
  advisory,     \* owner of pg_advisory_lock(hashtext('reservation_reaper'))
  faults        \* failures so far

vars == <<now, tables, pc, req, txNow, rowLock, holdLock, advisory, faults>>

NoReq == [kind |-> "none", refs |-> {}]

Requests ==
       [kind : {"none"}, refs : {{}}]
  \cup [kind : {"hold"}, refs : {{h} : h \in Refs}, seat : Seats,
        legs : SUBSET Legs, len : Nat, expires : Int]
  \cup [kind : {"confirm"}, refs : {{h} : h \in Refs}, booking : Bookings]
  \cup [kind : {"release"}, refs : {{h} : h \in Refs}]
  \cup [kind : {"cancel"}, refs : {{}}, seat : Seats, legs : SUBSET Legs]
  \cup [kind : {"reap"}, refs : SUBSET Refs]

Init ==
  /\ TablesInit
  /\ pc = [p \in Procs |-> "idle"]
  /\ req = [p \in Procs |-> NoReq]
  /\ txNow = [p \in Procs |-> 0]
  /\ rowLock = [r \in Rows |-> NoProc]
  /\ holdLock = [h \in Refs |-> NoProc]
  /\ advisory = NoProc
  /\ faults = 0

-----------------------------------------------------------------------------
(* Locks.                                                                  *)

At(p, kind, place) == pc[p] = place /\ req[p].kind = kind

\* The rows the statement of p locks: named by seat and legs, or found by
\* the references they carry (a row that lost its reference is skipped).
Wanted(p) ==
  IF req[p].kind \in {"hold", "cancel"}
  THEN Cover(req[p].seat, req[p].legs)
  ELSE {r \in Rows : inventory[r].hold_ref \in req[p].refs}

Missing(p) == {r \in Wanted(p) : rowLock[r] # p}

\* Slip: the hold's SELECT has no ORDER BY.
NextRowsUnordered(p) == Missing(p)

\* The row p locks next: ORDER BY leg_index in a hold, else as the plan scans.
NextRows(p) ==
  IF req[p].kind = "hold"
  THEN {r \in Missing(p) : \A q \in Missing(p) : r[2] <= q[2]}
  ELSE Missing(p)

\* Slip: the row is read without FOR UPDATE.
AcquireRowUnlocked(p, r) ==
  /\ pc[p] = "lock"
  /\ r \in NextRows(p)
  /\ rowLock' = [rowLock EXCEPT ![r] = p]
  /\ UNCHANGED <<now, tables, pc, req, txNow, holdLock, advisory, faults>>

AcquireRow(p, r) ==
  /\ pc[p] = "lock"
  /\ r \in NextRows(p)
  /\ rowLock[r] = NoProc
  /\ rowLock' = [rowLock EXCEPT ![r] = p]
  /\ UNCHANGED <<now, tables, pc, req, txNow, holdLock, advisory, faults>>

AllLocked(p) == pc[p] = "lock" /\ Missing(p) = {}

Unlocked(locks, p) == [x \in DOMAIN locks |-> IF locks[x] = p THEN NoProc ELSE locks[x]]

\* The transaction of p is over, by commit or by rollback.
EndTxn(p, place) ==
  /\ pc' = [pc EXCEPT ![p] = place]
  /\ req' = [req EXCEPT ![p] = NoReq]
  /\ txNow' = [txNow EXCEPT ![p] = 0]
  /\ rowLock' = Unlocked(rowLock, p)
  /\ holdLock' = Unlocked(holdLock, p)

Commit(p) ==
  /\ EndTxn(p, IF p \in Reapers THEN "unlock" ELSE "idle")
  /\ UNCHANGED <<now, advisory, faults>>

Rollback(p) == Commit(p) /\ UNCHANGED tables

\* A request arrives at an idle handler, which starts at the given place.
Arrive(w, place, r) ==
  /\ pc[w] = "idle"
  /\ r.kind \in Kinds
  /\ pc' = [pc EXCEPT ![w] = place]
  /\ req' = [req EXCEPT ![w] = r]
  /\ UNCHANGED <<now, tables, rowLock, holdLock, advisory, faults>>

\* The statement that locks the hold row (or rows) succeeds.
LockHolds(p, refs) ==
  /\ holdLock' = [h \in Refs |-> IF h \in refs THEN p ELSE holdLock[h]]
  /\ pc' = [pc EXCEPT ![p] = "lock"]
  /\ UNCHANGED <<now, tables, txNow, rowLock, advisory, faults>>

-----------------------------------------------------------------------------
(* hold.rs                                                                 *)

\* References of holds in flight; Uuid::new_v4 draws none of them again.
Drawn == (UNION {req[w].refs : w \in Workers}) \cup issued

\* The handler draws a reference and reads the engine clock.
AskHold(w, ref, seat, want, expires) ==
  /\ ref \notin Drawn
  /\ Arrive(w, "begin", [kind |-> "hold", refs |-> {ref}, seat |-> seat,
                         legs |-> want.legs, len |-> want.len,
                         expires |-> expires])
  /\ UNCHANGED txNow

\* A connection was free: BEGIN.
BeginHold(w) ==
  /\ At(w, "hold", "begin")
  /\ pc' = [pc EXCEPT ![w] = "lock"]
  /\ txNow' = [txNow EXCEPT ![w] = now]
  /\ UNCHANGED <<now, tables, req, rowLock, holdLock, advisory, faults>>

\* Slip: fewer rows than legs are enough.
WantedIsSome(w) == Cardinality(Wanted(w)) <= req[w].len

WantedIsComplete(w) == Cardinality(Wanted(w)) = req[w].len

HoldIncomplete(w) ==
  /\ AllLocked(w) /\ req[w].kind = "hold"
  /\ ~WantedIsComplete(w)
  /\ Rollback(w)

\* Slip: a conflict is retried until the seat is free.
HoldConflictRetried(w) ==
  /\ AllLocked(w) /\ req[w].kind = "hold"
  /\ WantedIsComplete(w)
  /\ \E r \in Wanted(w) : ~Free(r)
  /\ UNCHANGED vars

HoldConflict(w) ==
  /\ AllLocked(w) /\ req[w].kind = "hold"
  /\ WantedIsComplete(w)
  /\ \E r \in Wanted(w) : ~Free(r)
  /\ Rollback(w)

HoldPasses(w) ==
  /\ AllLocked(w) /\ req[w].kind = "hold"
  /\ WantedIsComplete(w)
  /\ \A r \in Wanted(w) : Free(r)
  /\ pc' = [pc EXCEPT ![w] = "write"]
  /\ UNCHANGED <<now, tables, req, txNow, rowLock, holdLock, advisory, faults>>

HoldCommit(w) ==
  /\ At(w, "hold", "write")
  /\ \E ref \in req[w].refs :
       WriteHold(ref, req[w].seat, req[w].legs, txNow[w], req[w].expires)
  /\ Commit(w)

-----------------------------------------------------------------------------
(* confirm.rs, release.rs, cancel.rs: the caller learnt ref from a hold.   *)

AskConfirm(w, ref, booking) ==
  /\ ref \in issued
  /\ Arrive(w, "select", [kind |-> "confirm", refs |-> {ref}, booking |-> booking])
  /\ txNow' = [txNow EXCEPT ![w] = now]

\* WHERE hold_ref = $1 AND expires_at > now()
ConfirmMatches(w) ==
  {h \in req[w].refs \cap DOMAIN holds : holds[h].expires_at > txNow[w]}

\* Slip: the hold is read without FOR UPDATE.
HoldRowRead(refs) == refs # {}

HoldRowFree(refs) == \A h \in refs : holdLock[h] = NoProc

\* HOLD_EXPIRED_OR_MISSING
ConfirmMissing(w) ==
  /\ At(w, "confirm", "select")
  /\ ConfirmMatches(w) = {}
  /\ Rollback(w)

\* HOLD_ALREADY_CONSUMED
ConfirmConsumed(w) ==
  /\ At(w, "confirm", "select")
  /\ \E h \in ConfirmMatches(w) : h \in Consumed
  /\ HoldRowFree(req[w].refs)
  /\ Rollback(w)

ConfirmSelect(w) ==
  /\ At(w, "confirm", "select")
  /\ \E h \in ConfirmMatches(w) : h \in Active
  /\ HoldRowFree(req[w].refs)
  /\ LockHolds(w, req[w].refs)
  /\ UNCHANGED req

ConfirmCommit(w) ==
  /\ AllLocked(w) /\ req[w].kind = "confirm"
  /\ \E ref \in req[w].refs : WriteBooking(ref, req[w].booking)
  /\ Commit(w)

AskRelease(w, ref) ==
  /\ ref \in issued
  /\ Arrive(w, "select", [kind |-> "release", refs |-> {ref}])
  /\ UNCHANGED txNow

ReleaseMissing(w) ==
  /\ At(w, "release", "select")
  /\ req[w].refs \cap Active = {}
  /\ Rollback(w)

\* Slip: the booking_id IS NULL filter is missing.
ReleaseSelectAny(w) ==
  /\ At(w, "release", "select")
  /\ req[w].refs \subseteq DOMAIN holds
  /\ HoldRowFree(req[w].refs)
  /\ LockHolds(w, req[w].refs)
  /\ UNCHANGED req

ReleaseSelect(w) ==
  /\ At(w, "release", "select")
  /\ req[w].refs \subseteq Active
  /\ HoldRowFree(req[w].refs)
  /\ LockHolds(w, req[w].refs)
  /\ UNCHANGED req

ReleaseCommit(w) ==
  /\ AllLocked(w) /\ req[w].kind = "release"
  /\ DropHolds(req[w].refs)
  /\ Commit(w)

AskCancel(w, seat, want) ==
  /\ Arrive(w, "lock", [kind |-> "cancel", refs |-> {}, seat |-> seat,
                        legs |-> want.legs])
  /\ UNCHANGED txNow

CancelCommit(w) ==
  /\ AllLocked(w) /\ req[w].kind = "cancel"
  /\ ClearRows(req[w].seat, req[w].legs)
  /\ Commit(w)

-----------------------------------------------------------------------------
(* reaper.rs                                                               *)

\* pg_try_advisory_lock; when it fails the task waits for its next interval.
TryLock(p) ==
  /\ pc[p] = "idle"
  /\ advisory = NoProc
  /\ advisory' = p
  /\ pc' = [pc EXCEPT ![p] = "purge"]
  /\ UNCHANGED <<now, tables, req, txNow, rowLock, holdLock, faults>>

\* Slip: the advisory lock is taken for the statement's transaction only.
PurgeEndsLock(p, skew) ==
  /\ pc[p] = "purge"
  /\ PurgeHolds(skew)
  /\ pc' = [pc EXCEPT ![p] = "select"]
  /\ advisory' = NoProc
  /\ UNCHANGED <<now, req, txNow, rowLock, holdLock, faults>>

Purge(p, skew) ==
  /\ pc[p] = "purge"
  /\ PurgeHolds(skew)
  /\ pc' = [pc EXCEPT ![p] = "select"]
  /\ UNCHANGED <<now, req, txNow, rowLock, holdLock, advisory, faults>>

\* FOR UPDATE SKIP LOCKED
Reapable == {h \in ExpiredAt(now) : holdLock[h] = NoProc}

ReapNothing(p) ==
  /\ pc[p] = "select"
  /\ Reapable = {}
  /\ Rollback(p)

\* LIMIT without ORDER BY: any BatchLimit of them, or all if they are fewer.
ReapSelect(p, batch) ==
  /\ pc[p] = "select"
  /\ batch # {} /\ batch \subseteq Reapable
  /\ Cardinality(batch) <= BatchLimit
  /\ batch = Reapable \/ Cardinality(batch) = BatchLimit
  /\ LockHolds(p, batch)
  /\ req' = [req EXCEPT ![p] = [kind |-> "reap", refs |-> batch]]

\* UPDATE ... WHERE hold_ref = ANY; DELETE ... AND booking_id IS NULL.
ReapCommit(p) ==
  /\ AllLocked(p) /\ req[p].kind = "reap"
  /\ FreeRowsOf(req[p].refs)
  /\ DeleteHolds(req[p].refs \cap Active)
  /\ Commit(p)

Unlock(p) ==
  /\ pc[p] = "unlock"
  /\ advisory' = NoProc
  /\ pc' = [pc EXCEPT ![p] = "idle"]
  /\ UNCHANGED <<now, tables, req, txNow, rowLock, holdLock, faults>>

-----------------------------------------------------------------------------
(* What can go wrong.                                                      *)

\* The rows and holds p waits for have these owners.
Blockers(p) ==
  (CASE pc[p] = "lock" -> {rowLock[r] : r \in NextRows(p)}
     [] At(p, "confirm", "select") -> {holdLock[h] : h \in ConfirmMatches(p)}
     [] At(p, "release", "select") -> {holdLock[h] : h \in req[p].refs \cap Active}
     [] OTHER -> {}) \ {NoProc}

Waiting(D) == \A p \in D : Blockers(p) \cap D # {}

\* A wait cycle: everybody in D waits for somebody in D, and D is minimal.
Cycle(D) ==
  /\ D # {}
  /\ Waiting(D)
  /\ \A E \in SUBSET D : Waiting(E) => E \in {{}, D}

\* PostgreSQL's deadlock detector aborts one member of a cycle.
DeadlockVictim(p) ==
  /\ \E D \in SUBSET Procs : p \in D /\ Cycle(D)
  /\ Rollback(p)

Fault == faults < MaxFaults /\ faults' = faults + 1

\* Slip: the connection goes back to the pool with its transaction open.
WorkerFailsInTxn(w) ==
  /\ Fault
  /\ pc[w] # "idle"
  /\ pc' = [pc EXCEPT ![w] = "idle"]
  /\ req' = [req EXCEPT ![w] = NoReq]
  /\ txNow' = [txNow EXCEPT ![w] = 0]
  /\ UNCHANGED <<now, tables, rowLock, holdLock, advisory>>

\* The client goes away, a statement fails or the engine dies: the handler
\* is dropped and its transaction rolled back.
WorkerFails(w) ==
  /\ Fault
  /\ pc[w] # "idle"
  /\ EndTxn(w, "idle")
  /\ UNCHANGED <<now, tables, advisory>>

\* Slip: the error is returned before the unlock.
ReaperFailsEarly(p) ==
  /\ Fault
  /\ pc[p] \in {"purge", "select", "lock"}
  /\ EndTxn(p, "idle")
  /\ UNCHANGED <<now, tables, advisory>>

\* A statement of run_reaper fails: the error is kept until after the unlock.
ReaperFails(p) ==
  /\ Fault
  /\ pc[p] \in {"purge", "select", "lock"}
  /\ EndTxn(p, "unlock")
  /\ UNCHANGED <<now, tables, advisory>>

\* The engine or its connection dies; the session's locks go with it.
ReaperDies(p) ==
  /\ Fault
  /\ pc[p] # "idle"
  /\ EndTxn(p, "idle")
  /\ advisory' = NoProc
  /\ UNCHANGED <<now, tables>>

\* The unlock statement fails and unwrap_or(false) hides it: the session
\* keeps the advisory lock until it ends.
UnlockFails(p) ==
  /\ Fault
  /\ pc[p] = "unlock"
  /\ advisory' = Stale
  /\ pc' = [pc EXCEPT ![p] = "idle"]
  /\ UNCHANGED <<now, tables, req, txNow, rowLock, holdLock>>

SessionEnds ==
  /\ advisory = Stale
  /\ advisory' = NoProc
  /\ UNCHANGED <<now, tables, pc, req, txNow, rowLock, holdLock, faults>>

Tick ==
  /\ Advance
  /\ UNCHANGED <<tables, pc, req, txNow, rowLock, holdLock, advisory, faults>>

-----------------------------------------------------------------------------

Ask(w) ==
  \/ \E ref \in Refs, seat \in Seats, want \in LegLists :
       \E expires \in Expiries(now) : AskHold(w, ref, seat, want, expires)
  \/ \E ref \in Refs, booking \in Bookings : AskConfirm(w, ref, booking)
  \/ \E ref \in Refs : AskRelease(w, ref)
  \/ \E seat \in Seats, want \in LegLists : AskCancel(w, seat, want)

Handle(w) ==
  \/ BeginHold(w) \/ HoldIncomplete(w) \/ HoldConflict(w)
  \/ HoldPasses(w) \/ HoldCommit(w)
  \/ ConfirmMissing(w) \/ ConfirmConsumed(w)
  \/ ConfirmSelect(w) \/ ConfirmCommit(w)
  \/ ReleaseMissing(w) \/ ReleaseSelect(w) \/ ReleaseCommit(w)
  \/ CancelCommit(w)
  \/ \E r \in Rows : AcquireRow(w, r)

Sweep(p) ==
  \/ TryLock(p)
  \/ \E skew \in Skews : Purge(p, skew)
  \/ ReapNothing(p)
  \/ \E batch \in SUBSET Refs : ReapSelect(p, batch)
  \/ \E r \in Rows : AcquireRow(p, r)
  \/ ReapCommit(p) \/ Unlock(p)

Next ==
  \/ \E w \in Workers : Ask(w) \/ Handle(w) \/ WorkerFails(w)
  \/ \E p \in Reapers :
       Sweep(p) \/ ReaperFails(p) \/ ReaperDies(p) \/ UnlockFails(p)
  \/ \E p \in Procs : DeadlockVictim(p)
  \/ SessionEnds
  \/ Tick

Spec == Init /\ [][Next]_vars

(***************************************************************************)
(* PostgreSQL grants a lock that keeps becoming free in the end and breaks *)
(* deadlocks; tokio runs every handler, and the reaper's interval fires    *)
(* for ever; a session nobody uses is closed (sqlx recycles connections,   *)
(* PostgreSQL drops dead ones).  Nobody has to send a request.             *)
(***************************************************************************)
Fairness ==
  /\ \A w \in Workers : SF_vars(Handle(w))
  /\ \A p \in Reapers : SF_vars(Sweep(p))
  /\ WF_vars(\E p \in Procs : DeadlockVictim(p))
  /\ WF_vars(SessionEnds)

FairSpec == Spec /\ Fairness

-----------------------------------------------------------------------------
(* Properties *)

Places == {"idle", "begin", "select", "lock", "write", "purge", "unlock"}

\* Control state, requests and lock tables have the expected shape.
TypeOK ==
  /\ TablesTypeOK
  /\ pc \in [Procs -> Places]
  /\ req \in [Procs -> Requests]
  /\ txNow \in [Procs -> 0..MaxTime]
  /\ rowLock \in [Rows -> Procs \cup {NoProc}]
  /\ holdLock \in [Refs -> Procs \cup {NoProc}]
  /\ advisory \in Reapers \cup {NoProc, Stale}
  /\ faults \in 0..MaxFaults

(***************************************************************************)
(* What a handler checked under its locks is still true when it writes:    *)
(* the rows of a hold about to be inserted are free and its own, the hold  *)
(* a confirm or release selected is still active (and, for a confirm, had  *)
(* not expired when it began), a reaper's batch is still expired and       *)
(* unconfirmed.                                                            *)
(***************************************************************************)
CheckedStillTrue ==
  \A p \in Procs :
    /\ pc[p] = "write" =>
         /\ req[p].refs \cap issued = {}
         /\ \A r \in Wanted(p) : Free(r) /\ rowLock[r] = p
    /\ pc[p] = "lock" => req[p].refs \cap issued \subseteq Active
    /\ At(p, "confirm", "lock") =>
         \A h \in req[p].refs : holds[h].expires_at > txNow[p]
    /\ At(p, "reap", "lock") => req[p].refs \subseteq ExpiredAt(now)

(***************************************************************************)
(* Two holds never wait for each other in a cycle, whatever legs they ask  *)
(* for: the comment in hold.rs on ORDER BY leg_index.  (Confirms, releases, *)
(* cancels and the reaper take rows in any order, and can deadlock.)       *)
(***************************************************************************)
HoldsNeverDeadlock ==
  \A D \in SUBSET Procs : Cycle(D) => \E p \in D : req[p].kind # "hold"

(***************************************************************************)
(* Nobody waits for a lock that no running transaction will give up.  Take *)
(* any processes that wait, say one and all it waits for through others:   *)
(* one of them waits for somebody else, who waits in turn or can go on, or *)
(* they contain a cycle, which the deadlock detector breaks.               *)
(***************************************************************************)
WaitingProcs == {p \in Procs : Blockers(p) # {}}

\* p has all its row locks, or can take the next one.
CanGoOn(p) ==
  \/ pc[p] = "write"
  \/ AllLocked(p)
  \/ pc[p] = "lock" /\ \E r \in NextRows(p) : rowLock[r] = NoProc

NeverStuck ==
  \A D \in (SUBSET WaitingProcs) \ {{}} :
    \/ \E p \in D : \E q \in Blockers(p) \ D : q \in WaitingProcs \/ CanGoOn(q)
    \/ \E C \in SUBSET D : Cycle(C)

(***************************************************************************)
(* At most one reaper of the fleet works at a time, whatever fails.        *)
(***************************************************************************)
SingleReaper ==
  \A p, q \in Reapers : pc[p] # "idle" /\ pc[q] # "idle" => p = q

(***************************************************************************)
(* The handlers implement the atomic ledger: interleaved, failing or       *)
(* retried, each takes effect in one step the ledger allows, or not at all. *)
(***************************************************************************)
Ledger == INSTANCE SeatLedger
RefinesLedger == Ledger!Spec

(***************************************************************************)
(* "Confirm valid -> booked + booking_id" (README.md), as the transactions *)
(* run: the commit that stores a booking id has every row of the hold      *)
(* booked.  It needs a deployment without cancels.                         *)
(***************************************************************************)
ConfirmsBookSeats == Ledger!ConfirmBooksSeats

(***************************************************************************)
(* Every request is answered: no handler waits for ever.                   *)
(***************************************************************************)
RequestsAnswered == \A w \in Workers : pc[w] # "idle" ~> pc[w] = "idle"

(***************************************************************************)
(* A hold whose time is up does not stay: it is reaped, released, or       *)
(* confirmed by a handler that had begun in time.  Deadlocks are the one   *)
(* thing that can keep the reaper from its work for ever: it has no claim  *)
(* to be spared as the victim.                                             *)
(***************************************************************************)
DeadlocksCease == <>[][\A p \in Procs : ~DeadlockVictim(p)]_vars

ExpiredHoldsEnd ==
  DeadlocksCease => \A h \in Refs : h \in ExpiredAt(now) ~> h \notin Active

=============================================================================
