--------------------------- MODULE EngineTxnProofs ---------------------------
(***************************************************************************)
(* The handlers and reapers as transactions, for any number of them and    *)
(* any seats, legs, holds and clocks: what the row locks and the advisory  *)
(* lock are for, and that the transactions implement the ledger.           *)
(***************************************************************************)
EXTENDS EngineTxn, FiniteSetTheorems, TLAPS

-----------------------------------------------------------------------------
(* The inductive invariant, by parts.                                      *)

\* Requests that lock rows of seat_holds first.
SelectsHolds(p) == req[p].kind \in {"confirm", "release", "reap"}

\* Where a handler or a reaper is says what it works on.
PlacesFit ==
  /\ \A w \in Workers :
       /\ pc[w] \in {"idle", "begin", "select", "lock", "write"}
       /\ pc[w] = "idle" => req[w].kind = "none"
       /\ pc[w] # "idle" => req[w].kind \in Kinds
       /\ pc[w] \in {"begin", "write"} => req[w].kind = "hold"
       /\ pc[w] = "select" => req[w].kind \in {"confirm", "release"}
  /\ \A p \in Reapers :
       /\ pc[p] \in {"idle", "purge", "select", "lock", "unlock"}
       /\ req[p].kind = IF pc[p] = "lock" THEN "reap" ELSE "none"

\* A reaper at work holds the advisory lock.
AdvisoryHeld == \A p \in Reapers : pc[p] # "idle" => advisory = p

\* Row locks belong to transactions that have come to their row statement.
LocksInTxn ==
  \A p \in Procs : pc[p] \notin {"lock", "write"} =>
    \A r \in Rows : rowLock[r] # p

\* A hold locks rows of its own only, and in the order of their legs.
LegOrder ==
  \A p \in Procs : req[p].kind = "hold" =>
    \A r \in Rows : rowLock[r] = p =>
      r \in Wanted(p) /\ \A m \in Missing(p) : r[2] < m[2]

\* The references of holds in flight are new, and no two are the same; the
\* others work on references the engine has issued.
RefsFit ==
  /\ \A w \in Workers : req[w].kind = "hold" => req[w].refs \cap issued = {}
  /\ \A v, w \in Workers :
       v # w /\ req[v].kind = "hold" /\ req[w].kind = "hold" =>
         req[v].refs \cap req[w].refs = {}
  /\ \A w \in Workers :
       req[w].kind \in {"confirm", "release"} => req[w].refs \subseteq issued

\* Selected holds are locked by who selected them, and stay as selected.
SelectedHeld ==
  \A p \in Procs : pc[p] = "lock" =>
    /\ SelectsHolds(p) =>
         \A h \in req[p].refs : h \in Active /\ holdLock[h] = p
    /\ req[p].kind = "confirm" =>
         \A h \in req[p].refs : holds[h].expires_at > txNow[p]
    /\ req[p].kind = "reap" =>
         /\ req[p].refs \subseteq ExpiredAt(now)
         /\ Cardinality(req[p].refs) <= BatchLimit

\* The rows of a hold that passed its checks are complete, locked and free.
PassedHeld ==
  \A w \in Workers : pc[w] = "write" =>
    /\ Cardinality(Wanted(w)) = req[w].len
    /\ \A r \in Wanted(w) : Free(r) /\ rowLock[r] = w

\* Legs and expiry of a hold are those it was asked with.
HoldAsked ==
  \A w \in Workers : req[w].kind = "hold" =>
    /\ [legs |-> req[w].legs, len |-> req[w].len] \in LegLists
    /\ \E asked \in 0..(IF pc[w] = "begin" THEN now ELSE txNow[w]) :
         req[w].expires \in Expiries(asked)

\* Nothing began or was made after now, and a confirm began after its hold.
TimesFit ==
  /\ \A p \in Procs : txNow[p] <= now
  /\ \A h \in DOMAIN holds : holds[h].created_at <= now
  /\ \A w \in Workers : req[w].kind = "confirm" =>
       \A h \in req[w].refs \cap DOMAIN holds : holds[h].created_at <= txNow[w]

EngineInv ==
  PlacesFit /\ AdvisoryHeld /\ LocksInTxn /\ LegOrder /\ RefsFit
  /\ SelectedHeld /\ PassedHeld /\ HoldAsked /\ TimesFit

-----------------------------------------------------------------------------
(* Requests and the ends of transactions.                                  *)

\* A request has the fields its kind needs.
LEMMA RequestFields ==
  ASSUME NEW r \in Requests
  PROVE  /\ r.kind \in {"none", "hold", "confirm", "release", "cancel", "reap"}
         /\ r.refs \in SUBSET Refs
         /\ r.kind \in {"none", "cancel"} => r.refs = {}
         /\ r.kind \in {"hold", "confirm", "release"} =>
              \E h \in Refs : r.refs = {h}
         /\ r.kind \in {"hold", "cancel"} => r.seat \in Seats /\ r.legs \in SUBSET Legs
         /\ r.kind = "hold" => r.len \in Nat /\ r.expires \in Int
         /\ r.kind = "confirm" => r.booking \in Bookings
  BY DEF Requests

\* Rows and holds that are unlocked belong to somebody else still, or nobody.
LEMMA UnlockedOwners ==
  ASSUME NEW locks, NEW p, NEW x \in DOMAIN locks
  PROVE  /\ DOMAIN Unlocked(locks, p) = DOMAIN locks
         /\ Unlocked(locks, p)[x] = IF locks[x] = p THEN NoProc ELSE locks[x]
  BY DEF Unlocked

ControlOK ==
  /\ pc \in [Procs -> Places]
  /\ req \in [Procs -> Requests]
  /\ txNow \in [Procs -> 0..MaxTime]
  /\ rowLock \in [Rows -> Procs \cup {NoProc}]
  /\ holdLock \in [Refs -> Procs \cup {NoProc}]

\* A transaction that ends leaves well-formed control state.
LEMMA EndTxnType ==
  ASSUME TypeOK, NEW p \in Procs, NEW place \in Places, EndTxn(p, place)
  PROVE  ControlOK'
<1>1. NoReq \in Requests
  BY DEF NoReq, Requests
<1>2. 0 \in 0..MaxTime
  BY TablesAssumption
<1> QED
  BY <1>1, <1>2 DEF ControlOK, TypeOK, EndTxn, Unlocked

\* A new request is well-formed.
LEMMA AskType ==
  ASSUME TypeOK, NEW w \in Workers, Ask(w)
  PROVE  TypeOK'
<1> USE TablesAssumption, EngineAssumption DEF Procs
<1>0. now \in 0..MaxTime /\ now \in Int
  BY DEF TypeOK, TablesTypeOK
<1>1. ASSUME NEW ref \in Refs, NEW seat \in Seats, NEW want \in LegLists,
             NEW expires \in Expiries(now), AskHold(w, ref, seat, want, expires)
      PROVE  TypeOK'
  <2> DEFINE r == [kind |-> "hold", refs |-> {ref}, seat |-> seat,
                   legs |-> want.legs, len |-> want.len, expires |-> expires]
  <2>1. expires \in Int
    BY <1>0 DEF Expiries
  <2>2. want.legs \in SUBSET Legs /\ want.len \in Nat
    OBVIOUS
  <2>3. r \in Requests
    BY <2>1, <2>2 DEF Requests
  <2> HIDE DEF r
  <2>4. pc' = [pc EXCEPT ![w] = "begin"] /\ req' = [req EXCEPT ![w] = r]
        /\ UNCHANGED <<now, tables, rowLock, holdLock, advisory, faults, txNow>>
    BY <1>1 DEF AskHold, Arrive, r
  <2> QED
    BY <2>3, <2>4 DEF TypeOK, TablesTypeOK, tables, Places
<1>2. ASSUME NEW ref \in Refs, NEW booking \in Bookings, AskConfirm(w, ref, booking)
      PROVE  TypeOK'
  <2> DEFINE r == [kind |-> "confirm", refs |-> {ref}, booking |-> booking]
  <2>1. r \in Requests
    BY DEF Requests
  <2> HIDE DEF r
  <2>2. pc' = [pc EXCEPT ![w] = "select"] /\ req' = [req EXCEPT ![w] = r]
        /\ txNow' = [txNow EXCEPT ![w] = now]
        /\ UNCHANGED <<now, tables, rowLock, holdLock, advisory, faults>>
    BY <1>2 DEF AskConfirm, Arrive, r
  <2> QED
    BY <1>0, <2>1, <2>2 DEF TypeOK, TablesTypeOK, tables, Places
<1>3. ASSUME NEW ref \in Refs, AskRelease(w, ref)
      PROVE  TypeOK'
  <2> DEFINE r == [kind |-> "release", refs |-> {ref}]
  <2>1. r \in Requests
    BY DEF Requests
  <2> HIDE DEF r
  <2>2. pc' = [pc EXCEPT ![w] = "select"] /\ req' = [req EXCEPT ![w] = r]
        /\ UNCHANGED <<now, tables, rowLock, holdLock, advisory, faults, txNow>>
    BY <1>3 DEF AskRelease, Arrive, r
  <2> QED
    BY <2>1, <2>2 DEF TypeOK, TablesTypeOK, tables, Places
<1>4. ASSUME NEW seat \in Seats, NEW want \in LegLists, AskCancel(w, seat, want)
      PROVE  TypeOK'
  <2> DEFINE r == [kind |-> "cancel", refs |-> {}, seat |-> seat, legs |-> want.legs]
  <2>1. r \in Requests
    BY DEF Requests
  <2> HIDE DEF r
  <2>2. pc' = [pc EXCEPT ![w] = "lock"] /\ req' = [req EXCEPT ![w] = r]
        /\ UNCHANGED <<now, tables, rowLock, holdLock, advisory, faults, txNow>>
    BY <1>4 DEF AskCancel, Arrive, r
  <2> QED
    BY <2>1, <2>2 DEF TypeOK, TablesTypeOK, tables, Places
<1> QED
  BY <1>1, <1>2, <1>3, <1>4 DEF Ask

-----------------------------------------------------------------------------
(* The kinds of step, by what they do to the locks of the process.         *)

\* A transaction of p writes what it is there for.
Writes(p) ==
  \/ /\ At(p, "hold", "write")
     /\ \E ref \in req[p].refs :
          WriteHold(ref, req[p].seat, req[p].legs, txNow[p], req[p].expires)
  \/ /\ AllLocked(p) /\ req[p].kind = "confirm"
     /\ \E ref \in req[p].refs : WriteBooking(ref, req[p].booking)
  \/ /\ AllLocked(p) /\ req[p].kind = "release"
     /\ DropHolds(req[p].refs)
  \/ /\ AllLocked(p) /\ req[p].kind = "cancel"
     /\ ClearRows(req[p].seat, req[p].legs)
  \/ /\ AllLocked(p) /\ req[p].kind = "reap"
     /\ FreeRowsOf(req[p].refs)
     /\ DeleteHolds(req[p].refs \cap Active)

\* The transaction of p ends, with or without effect; a reaper that is idle
\* afterwards died, and its advisory lock with it.
TxnEnds(p) ==
  /\ pc[p] # "idle"
  /\ now' = now
  /\ Writes(p) \/ UNCHANGED tables
  /\ \/ EndTxn(p, "idle") /\ p \in Workers /\ advisory' = advisory
     \/ EndTxn(p, "unlock") /\ p \in Reapers /\ advisory' = advisory
     \/ EndTxn(p, "idle") /\ p \in Reapers /\ advisory' = NoProc
  /\ faults' = faults \/ Fault

\* A confirm, a release or the reaper locks the holds it works on.
Selects(p, refs) ==
  /\ pc[p] = "select"
  /\ LockHolds(p, refs)
  /\ \A h \in refs : h \in Active /\ holdLock[h] = NoProc
  /\ \/ /\ p \in Workers /\ req' = req /\ refs = req[p].refs
        /\ req[p].kind = "confirm" => refs = ConfirmMatches(p)
     \/ /\ p \in Reapers /\ refs \subseteq ExpiredAt(now)
        /\ Cardinality(refs) <= BatchLimit
        /\ req' = [req EXCEPT ![p] = [kind |-> "reap", refs |-> refs]]

ReaperStep(p) ==
  \/ TryLock(p) \/ Unlock(p) \/ UnlockFails(p)
  \/ \E skew \in Skews : Purge(p, skew)

Background == SessionEnds \/ Tick \/ UNCHANGED vars

\* Every step is of one of few kinds: a request comes, a lock is taken, holds
\* are selected, a transaction ends, a reaper moves on, or the background.
LEMMA EngineSteps ==
  ASSUME TypeOK, PlacesFit, [Next]_vars
  PROVE  \/ \E w \in Workers : Ask(w) \/ BeginHold(w) \/ HoldPasses(w)
         \/ \E p \in Procs, r \in Rows : AcquireRow(p, r)
         \/ \E p \in Procs, refs \in SUBSET Refs : Selects(p, refs)
         \/ \E p \in Procs : TxnEnds(p)
         \/ \E p \in Reapers : ReaperStep(p)
         \/ Background
<1> USE EngineAssumption DEF Procs
<1>1. ASSUME NEW w \in Workers, Handle(w)
      PROVE  \/ BeginHold(w) \/ HoldPasses(w)
             \/ \E r \in Rows : AcquireRow(w, r)
             \/ \E refs \in SUBSET Refs : Selects(w, refs)
             \/ TxnEnds(w)
  <2>1. w \notin Reapers
    OBVIOUS
  <2>2. CASE HoldIncomplete(w) \/ HoldConflict(w) \/ ConfirmMissing(w)
             \/ ConfirmConsumed(w) \/ ReleaseMissing(w)
    BY <2>1, <2>2 DEF HoldIncomplete, HoldConflict, ConfirmMissing, ConfirmConsumed,
       ReleaseMissing, Rollback, Commit, TxnEnds, At, AllLocked
  <2>3. CASE HoldCommit(w) \/ ConfirmCommit(w) \/ ReleaseCommit(w) \/ CancelCommit(w)
    BY <2>1, <2>3 DEF HoldCommit, ConfirmCommit, ReleaseCommit, CancelCommit, Commit,
       TxnEnds, Writes, At, AllLocked
  <2>4. CASE ConfirmSelect(w)
    <3>1. PICK h \in Refs : req[w].refs = {h}
      BY <2>4, RequestFields DEF ConfirmSelect, At, TypeOK
    <3>2. ConfirmMatches(w) = {h} /\ h \in Active
      BY <2>4, <3>1 DEF ConfirmSelect, ConfirmMatches
    <3> QED
      BY <2>4, <3>1, <3>2 DEF ConfirmSelect, At, Selects, HoldRowFree
  <2>5. CASE ReleaseSelect(w)
    <3>1. req[w].refs \in SUBSET Refs
      BY RequestFields DEF TypeOK
    <3> QED
      BY <2>5, <3>1 DEF ReleaseSelect, At, Selects, HoldRowFree
  <2> QED
    BY <1>1, <2>2, <2>3, <2>4, <2>5 DEF Handle
<1>2. ASSUME NEW w \in Workers, WorkerFails(w)
      PROVE  TxnEnds(w)
  BY <1>2 DEF WorkerFails, TxnEnds
<1>3. ASSUME NEW p \in Reapers, Sweep(p)
      PROVE  \/ ReaperStep(p)
             \/ \E r \in Rows : AcquireRow(p, r)
             \/ \E refs \in SUBSET Refs : Selects(p, refs)
             \/ TxnEnds(p)
  <2>1. CASE ReapNothing(p)
    BY <2>1 DEF ReapNothing, Rollback, Commit, TxnEnds
  <2>2. CASE ReapCommit(p)
    BY <2>2 DEF ReapCommit, Commit, TxnEnds, Writes, AllLocked
  <2>3. ASSUME NEW batch \in SUBSET Refs, ReapSelect(p, batch)
        PROVE  Selects(p, batch)
    BY <2>3 DEF ReapSelect, Selects, Reapable, ExpiredAt
  <2> QED
    BY <1>3, <2>1, <2>2, <2>3 DEF Sweep, ReaperStep
<1>4. ASSUME NEW p \in Reapers, ReaperFails(p) \/ ReaperDies(p)
      PROVE  TxnEnds(p)
  BY <1>4 DEF ReaperFails, ReaperDies, TxnEnds
<1>5. ASSUME NEW p \in Procs, DeadlockVictim(p)
      PROVE  TxnEnds(p)
  <2>1. Blockers(p) # {}
    BY <1>5 DEF DeadlockVictim, Cycle, Waiting
  <2>2. pc[p] # "idle"
    BY <2>1 DEF Blockers, At
  <2> QED
    BY <1>5, <2>2 DEF DeadlockVictim, Rollback, Commit, TxnEnds
<1> QED
  BY <1>1, <1>2, <1>3, <1>4, <1>5 DEF Next, Background, ReaperStep

-----------------------------------------------------------------------------
(* What the step of one process leaves alone.                              *)

\* Others stay where they are, and keep the locks they have and no more.
OthersKept(p) ==
  \A q \in Procs \ {p} :
    /\ pc'[q] = pc[q] /\ req'[q] = req[q] /\ txNow'[q] = txNow[q]
    /\ \A r \in Rows : rowLock'[r] = q <=> rowLock[r] = q
    /\ \A h \in Refs : holdLock'[h] = q <=> holdLock[h] = q

\* Arrival, BEGIN and the checks of a hold touch their handler only.
LEMMA AskFrame ==
  ASSUME TypeOK, NEW w \in Workers, Ask(w) \/ BeginHold(w) \/ HoldPasses(w)
  PROVE  /\ OthersKept(w) /\ now' = now /\ UNCHANGED tables
         /\ UNCHANGED <<rowLock, holdLock, advisory>>
  BY DEF TypeOK, Procs, Ask, AskHold, AskConfirm, AskRelease, AskCancel, Arrive,
     BeginHold, HoldPasses, OthersKept

\* Taking a row lock adds that lock and touches nothing else.
LEMMA AcquireFrame ==
  ASSUME TypeOK, NEW p \in Procs, NEW r \in Rows, AcquireRow(p, r)
  PROVE  /\ OthersKept(p) /\ UNCHANGED <<now, tables, pc, req, txNow, holdLock, advisory>>
         /\ pc[p] = "lock" /\ r \in NextRows(p)
         /\ \A q \in Rows : rowLock'[q] = p <=> q = r \/ rowLock[q] = p
  BY EngineAssumption DEF TypeOK, AcquireRow, OthersKept

\* A SELECT ... FOR UPDATE locks what it selects and touches nothing else.
LEMMA SelectsFrame ==
  ASSUME TypeOK, NEW p \in Procs, NEW refs \in SUBSET Refs, Selects(p, refs)
  PROVE  /\ OthersKept(p) /\ UNCHANGED <<now, tables, txNow, rowLock, advisory>>
         /\ pc[p] = "select" /\ pc'[p] = "lock" /\ \A h \in refs : holdLock'[h] = p
         /\ \/ p \in Workers /\ req'[p] = req[p] /\ refs = req[p].refs
            \/ p \in Reapers /\ req'[p] = [kind |-> "reap", refs |-> refs]
<1> USE EngineAssumption
<1>1. \/ p \in Workers /\ req'[p] = req[p] /\ refs = req[p].refs
      \/ p \in Reapers /\ req'[p] = [kind |-> "reap", refs |-> refs]
  BY DEF TypeOK, Selects
<1>2. OthersKept(p) /\ UNCHANGED <<now, tables, txNow, rowLock, advisory>>
      /\ pc[p] = "select" /\ pc'[p] = "lock" /\ \A h \in refs : holdLock'[h] = p
  BY DEF TypeOK, Selects, LockHolds, OthersKept
<1> QED
  BY <1>1, <1>2

\* The end of a transaction lets go of its locks and touches no other process.
LEMMA EndsFrame ==
  ASSUME TypeOK, NEW p \in Procs, TxnEnds(p)
  PROVE  /\ OthersKept(p) /\ now' = now
         /\ pc'[p] \in {"idle", "unlock"} /\ (p \in Workers => pc'[p] = "idle")
         /\ req'[p] = NoReq /\ txNow'[p] = 0
         /\ \A r \in Rows : rowLock'[r] # p
<1> USE EngineAssumption DEF Procs
<1>1. PICK place \in {"idle", "unlock"} : EndTxn(p, place) /\ (p \in Workers => place = "idle")
  BY DEF TxnEnds
<1>2. \A r \in Rows : rowLock'[r] = IF rowLock[r] = p THEN NoProc ELSE rowLock[r]
  BY <1>1, UnlockedOwners DEF EndTxn, TypeOK
<1>3. \A h \in Refs : holdLock'[h] = IF holdLock[h] = p THEN NoProc ELSE holdLock[h]
  BY <1>1, UnlockedOwners DEF EndTxn, TypeOK
<1>4. OthersKept(p)
  BY <1>1, <1>2, <1>3 DEF OthersKept, EndTxn, TypeOK
<1> QED
  BY <1>1, <1>2, <1>4 DEF EndTxn, TypeOK, TxnEnds

\* The other steps of a reaper take no row locks, and purge at most.
LEMMA ReaperFrame ==
  ASSUME TypeOK, NEW p \in Reapers, ReaperStep(p)
  PROVE  /\ OthersKept(p) /\ UNCHANGED <<now, req, txNow, rowLock, holdLock>>
         /\ UNCHANGED tables \/ \E skew \in Skews : PurgeHolds(skew)
  BY DEF TypeOK, Procs, ReaperStep, TryLock, Unlock, UnlockFails, Purge, OthersKept,
     tables

\* The background changes the clock and the advisory lock at most.
LEMMA BackgroundFrame ==
  ASSUME TypeOK, Background
  PROVE  /\ UNCHANGED <<tables, pc, req, txNow, rowLock, holdLock>>
         /\ now' = now \/ now' = now + 1
  BY DEF Background, SessionEnds, Tick, Advance, vars

-----------------------------------------------------------------------------
(* Type correctness, with the places it needs.                             *)

\* Every write keeps the tables' schema.
LEMMA WritesType ==
  ASSUME TypeOK, NEW p \in Procs, now' = now, Writes(p)
  PROVE  TablesTypeOK'
<1> USE TablesAssumption DEF TypeOK, TablesTypeOK, InventoryRow
<1>0. req[p] \in Requests /\ txNow[p] \in Int /\ req[p].refs \in SUBSET Refs
  BY RequestFields
<1>1. CASE \E ref \in req[p].refs :
             WriteHold(ref, req[p].seat, req[p].legs, txNow[p], req[p].expires)
           /\ req[p].kind = "hold"
  <2> PICK ref \in req[p].refs :
        WriteHold(ref, req[p].seat, req[p].legs, txNow[p], req[p].expires)
    BY <1>1
  <2>1. req[p].seat \in Seats /\ req[p].legs \in SUBSET Legs /\ req[p].expires \in Int
    BY <1>0, <1>1, RequestFields
  <2>2. holds' \in [DOMAIN holds' -> HoldRow]
    BY <1>0, <2>1 DEF WriteHold, HoldRow
  <2> QED
    BY <1>0, <2>2 DEF WriteHold
<1>2. CASE req[p].kind = "confirm"
           /\ \E ref \in req[p].refs : WriteBooking(ref, req[p].booking)
  <2> PICK ref \in req[p].refs : WriteBooking(ref, req[p].booking)
    BY <1>2
  <2>1. req[p].booking \in Bookings
    BY <1>0, <1>2, RequestFields
  <2>2. \A row \in HoldRow : [row EXCEPT !.booking_id = req[p].booking] \in HoldRow
    BY <2>1 DEF HoldRow
  <2>3. holds' \in [DOMAIN holds' -> HoldRow]
    BY <2>2 DEF WriteBooking
  <2> QED
    BY <2>3 DEF WriteBooking
<1>3. ASSUME NEW refs, FreeRowsOf(req[p].refs), DeleteHolds(refs)
      PROVE  TablesTypeOK'
  BY <1>3 DEF FreeRowsOf, DeleteHolds, Restrict
<1>4. CASE ClearRows(req[p].seat, req[p].legs)
  BY <1>4 DEF ClearRows
<1> QED
  BY <1>1, <1>2, <1>3, <1>4 DEF Writes, At, DropHolds

\* Every step keeps the types.
LEMMA TypeStep ==
  ASSUME TypeOK, PlacesFit, [Next]_vars
  PROVE  TypeOK'
<1> USE TablesAssumption, EngineAssumption
<1>1. ASSUME NEW w \in Workers, Ask(w)
      PROVE  TypeOK'
  BY <1>1, AskType
<1>2. ASSUME NEW w \in Workers, BeginHold(w) \/ HoldPasses(w)
      PROVE  TypeOK'
  BY <1>2 DEF BeginHold, HoldPasses, TypeOK, TablesTypeOK, tables, Places, Procs
<1>3. ASSUME NEW p \in Procs, NEW r \in Rows, AcquireRow(p, r)
      PROVE  TypeOK'
  BY <1>3 DEF AcquireRow, TypeOK, TablesTypeOK, tables
<1>4. ASSUME NEW p \in Procs, NEW refs \in SUBSET Refs, Selects(p, refs)
      PROVE  TypeOK'
  <2>1. [kind |-> "reap", refs |-> refs] \in Requests
    BY DEF Requests
  <2>2. req' \in [Procs -> Requests]
    BY <1>4, <2>1 DEF Selects, TypeOK
  <2> QED
    BY <1>4, <2>2 DEF Selects, LockHolds, TypeOK, TablesTypeOK, tables, Places
<1>5. ASSUME NEW p \in Procs, TxnEnds(p)
      PROVE  TypeOK'
  <2>1. ControlOK'
    BY <1>5, EndTxnType DEF TxnEnds, Places
  <2>2. TablesTypeOK'
    BY <1>5, WritesType DEF TxnEnds, TypeOK, TablesTypeOK, tables
  <2>3. advisory' \in Reapers \cup {NoProc, Stale} /\ faults' \in 0..MaxFaults
    BY <1>5 DEF TxnEnds, TypeOK, Fault
  <2> QED
    BY <2>1, <2>2, <2>3 DEF ControlOK, TypeOK
<1>6. ASSUME NEW p \in Reapers, ReaperStep(p)
      PROVE  TypeOK'
  <2>1. TablesTypeOK'
    <3>1. now' = now /\ (UNCHANGED tables \/ \E skew \in Skews : PurgeHolds(skew))
      BY <1>6, ReaperFrame
    <3>2. CASE UNCHANGED tables
      BY <3>1, <3>2 DEF TypeOK, TablesTypeOK, tables
    <3>3. ASSUME NEW skew \in Skews, PurgeHolds(skew)
          PROVE  TablesTypeOK'
      BY <3>1, <3>3 DEF TypeOK, TablesTypeOK, PurgeHolds, DeleteHolds, Restrict
    <3> QED
      BY <3>1, <3>2, <3>3
  <2>2. faults' \in 0..MaxFaults
    BY <1>6 DEF ReaperStep, TryLock, Unlock, UnlockFails, Purge, Fault, TypeOK
  <2> QED
    BY <1>6, <2>1, <2>2
    DEF ReaperStep, TryLock, Unlock, UnlockFails, Purge, TypeOK, Places, Procs
<1>7. CASE Background
  BY <1>7 DEF Background, SessionEnds, Tick, Advance, vars, TypeOK, TablesTypeOK, tables
<1> QED
  BY <1>1, <1>2, <1>3, <1>4, <1>5, <1>6, <1>7, EngineSteps

\* Every step leaves a process where its request belongs.
LEMMA PlacesStep ==
  ASSUME TypeOK, PlacesFit, [Next]_vars
  PROVE  PlacesFit'
<1> USE EngineAssumption DEF Procs
<1>0. ASSUME NEW p \in Procs, OthersKept(p)
      PROVE  \A q \in Procs \ {p} : pc'[q] = pc[q] /\ req'[q] = req[q]
  BY <1>0 DEF OthersKept
<1>1. ASSUME NEW w \in Workers, Ask(w) \/ BeginHold(w) \/ HoldPasses(w)
      PROVE  PlacesFit'
  <2>1. /\ pc'[w] \in {"begin", "select", "lock", "write"}
        /\ req'[w].kind \in Kinds
        /\ pc'[w] \in {"begin", "write"} => req'[w].kind = "hold"
        /\ pc'[w] = "select" => req'[w].kind \in {"confirm", "release"}
    BY <1>1 DEF Ask, AskHold, AskConfirm, AskRelease, AskCancel, Arrive, BeginHold,
       HoldPasses, At, AllLocked, TypeOK, PlacesFit
  <2> QED
    BY <1>0, <1>1, <2>1, AskFrame DEF PlacesFit
<1>2. ASSUME NEW p \in Procs, NEW r \in Rows, AcquireRow(p, r)
      PROVE  PlacesFit'
  BY <1>2, AcquireFrame DEF PlacesFit
<1>3. ASSUME NEW p \in Procs, NEW refs \in SUBSET Refs, Selects(p, refs)
      PROVE  PlacesFit'
  <2>1. /\ OthersKept(p) /\ pc[p] = "select" /\ pc'[p] = "lock"
        /\ \/ p \in Workers /\ req'[p] = req[p]
           \/ p \in Reapers /\ req'[p] = [kind |-> "reap", refs |-> refs]
    BY <1>3, SelectsFrame
  <2> QED
    BY <1>0, <2>1 DEF PlacesFit
<1>4. ASSUME NEW p \in Procs, TxnEnds(p)
      PROVE  PlacesFit'
  <2>1. req'[p].kind = "none" /\ pc'[p] \in {"idle", "unlock"}
        /\ (p \in Workers => pc'[p] = "idle")
    BY <1>4, EndsFrame DEF NoReq
  <2> QED
    BY <1>0, <1>4, <2>1, EndsFrame DEF PlacesFit
<1>5. ASSUME NEW p \in Reapers, ReaperStep(p)
      PROVE  PlacesFit'
  <2>1. pc'[p] \in {"idle", "purge", "select", "unlock"} /\ pc[p] # "lock"
    BY <1>5 DEF ReaperStep, TryLock, Unlock, UnlockFails, Purge, TypeOK
  <2> QED
    BY <1>0, <1>5, <2>1, ReaperFrame DEF PlacesFit
<1>6. CASE Background
  BY <1>6, BackgroundFrame DEF PlacesFit
<1> QED
  BY <1>1, <1>2, <1>3, <1>4, <1>5, <1>6, EngineSteps

\* The types and the places hold at first.
LEMMA InitTyped == Init => TypeOK /\ PlacesFit
<1>1. NoReq \in Requests
  BY DEF NoReq, Requests
<1>2. Init => TypeOK
  BY <1>1, TablesAssumption, EngineAssumption
  DEF Init, TablesInit, TypeOK, TablesTypeOK, InventoryRow, HoldRow, Places
<1>3. Init => PlacesFit
  BY DEF Init, PlacesFit, NoReq, Procs
<1> QED
  BY <1>2, <1>3

(***************************************************************************)
(* Type correctness: control state, requests, lock tables and the database *)
(* tables keep their shape.                                                *)
(***************************************************************************)
THEOREM TypeCorrect == Spec => []TypeOK
<1>1. TypeOK /\ PlacesFit /\ [Next]_vars => TypeOK' /\ PlacesFit'
  BY TypeStep, PlacesStep
<1> QED
  BY <1>1, InitTyped, PTL DEF Spec

-----------------------------------------------------------------------------
(* The advisory lock: one reaper at a time.                                *)

\* Every step keeps the advisory lock with the reaper at work.
LEMMA AdvisoryStep ==
  ASSUME TypeOK, PlacesFit, AdvisoryHeld, [Next]_vars
  PROVE  AdvisoryHeld'
<1> USE EngineAssumption DEF Procs, AdvisoryHeld
<1>1. ASSUME NEW w \in Workers, Ask(w) \/ BeginHold(w) \/ HoldPasses(w)
      PROVE  AdvisoryHeld'
  BY <1>1, AskFrame DEF OthersKept
<1>2. ASSUME NEW p \in Procs, NEW r \in Rows, AcquireRow(p, r)
      PROVE  AdvisoryHeld'
  BY <1>2, AcquireFrame
<1>3. ASSUME NEW p \in Procs, NEW refs \in SUBSET Refs, Selects(p, refs)
      PROVE  AdvisoryHeld'
  <2>1. OthersKept(p) /\ pc[p] = "select" /\ advisory' = advisory
    BY <1>3, SelectsFrame
  <2> QED
    BY <2>1 DEF OthersKept
<1>4. ASSUME NEW p \in Procs, TxnEnds(p)
      PROVE  AdvisoryHeld'
  <2>1. OthersKept(p)
    BY <1>4, EndsFrame
  <2>2. CASE p \in Workers
    BY <1>4, <2>1, <2>2 DEF OthersKept, TxnEnds
  <2>3. CASE p \in Reapers
    <3>1. advisory = p
      BY <1>4, <2>3 DEF TxnEnds
    <3>2. pc' = [pc EXCEPT ![p] = "idle"] \/ advisory' = advisory
      BY <1>4, <2>3 DEF TxnEnds, EndTxn
    <3> QED
      BY <2>1, <2>3, <3>1, <3>2 DEF OthersKept, TypeOK
  <2> QED
    BY <2>2, <2>3
<1>5. ASSUME NEW p \in Reapers, ReaperStep(p)
      PROVE  AdvisoryHeld'
  <2>1. OthersKept(p)
    BY <1>5, ReaperFrame
  <2>2. TryLock(p) => AdvisoryHeld'
    BY <2>1 DEF TryLock, OthersKept
  <2>3. Unlock(p) \/ UnlockFails(p) => AdvisoryHeld'
    BY <2>1 DEF Unlock, UnlockFails, OthersKept, TypeOK
  <2>4. (\E skew \in Skews : Purge(p, skew)) => AdvisoryHeld'
    BY <2>1 DEF Purge, OthersKept
  <2> QED
    BY <1>5, <2>2, <2>3, <2>4 DEF ReaperStep
<1>6. CASE Background
  BY <1>6 DEF Background, SessionEnds, Tick, vars
<1> QED
  BY <1>1, <1>2, <1>3, <1>4, <1>5, <1>6, EngineSteps

\* At most one reaper of the fleet works at a time: a reaper at work holds the
\* advisory lock, and neither its death nor a failed unlock lets two have it.
THEOREM OneReaper == Spec => []SingleReaper
<1>1. Init => TypeOK /\ PlacesFit /\ AdvisoryHeld
  BY InitTyped DEF Init, AdvisoryHeld, Procs
<1>2. TypeOK /\ PlacesFit /\ AdvisoryHeld /\ [Next]_vars
      => TypeOK' /\ PlacesFit' /\ AdvisoryHeld'
  BY TypeStep, PlacesStep, AdvisoryStep
<1>3. AdvisoryHeld => SingleReaper
  BY DEF AdvisoryHeld, SingleReaper
<1> QED
  BY <1>1, <1>2, <1>3, PTL DEF Spec

-----------------------------------------------------------------------------
(* Row locks.                                                              *)

\* A row is a seat and a leg.
LEMMA RowIsPair ==
  ASSUME NEW r \in Rows
  PROVE  r = <<r[1], r[2]>> /\ r[1] \in Seats /\ r[2] \in Legs /\ r[2] \in Int
<1>1. r \in Seats \X Legs
  BY TablesAssumption
<1>2. r = <<r[1], r[2]>> /\ r[1] \in Seats /\ r[2] \in Legs
  BY <1>1
<1> QED
  BY <1>2, TablesAssumption

\* The row a hold locks next has the least leg of those it misses, and no
\* other row of its seat has that leg.
LEMMA NextIsLeast ==
  ASSUME TypeOK, NEW p \in Procs, req[p].kind = "hold",
         NEW r \in NextRows(p), NEW m \in Missing(p), m # r
  PROVE  r[2] < m[2]
<1>1. r \in Rows /\ m \in Rows /\ r[1] = m[1] /\ r[2] <= m[2]
  BY DEF NextRows, Missing, Wanted, Cover
<1>2. r = <<r[1], r[2]>> /\ m = <<m[1], m[2]>> /\ r[2] \in Int /\ m[2] \in Int
  BY <1>1, RowIsPair
<1>3. r[2] # m[2]
  BY <1>1, <1>2
<1> QED
  BY <1>1, <1>2, <1>3

\* Every step keeps the row locks within transactions and in order.
LEMMA LocksStep ==
  ASSUME TypeOK, PlacesFit, LocksInTxn, LegOrder, [Next]_vars
  PROVE  LocksInTxn' /\ LegOrder'
<1> USE EngineAssumption DEF Procs
<1>0. ASSUME NEW p \in Procs, OthersKept(p)
      PROVE  \A q \in Procs \ {p} :
               /\ pc'[q] = pc[q] /\ req'[q] = req[q]
               /\ \A r \in Rows : rowLock'[r] = q <=> rowLock[r] = q
               /\ req[q].kind = "hold" => Wanted(q)' = Wanted(q) /\ Missing(q)' = Missing(q)
  <2>1. ASSUME NEW q \in Procs \ {p}
        PROVE  /\ pc'[q] = pc[q] /\ req'[q] = req[q]
               /\ \A r \in Rows : rowLock'[r] = q <=> rowLock[r] = q
    BY <1>0 DEF OthersKept
  <2>2. ASSUME NEW q \in Procs \ {p}, req[q].kind = "hold"
        PROVE  Wanted(q)' = Wanted(q) /\ Missing(q)' = Missing(q)
    BY <2>1, <2>2 DEF Wanted, Missing, Cover
  <2> QED
    BY <2>1, <2>2
<1>1. ASSUME NEW p \in Procs, OthersKept(p),
             \A r \in Rows : rowLock'[r] # p
      PROVE  LocksInTxn' /\ LegOrder'
  BY <1>0, <1>1 DEF LocksInTxn, LegOrder
<1>2. ASSUME NEW w \in Workers, Ask(w) \/ BeginHold(w)
      PROVE  LocksInTxn' /\ LegOrder'
  <2>1. pc[w] \notin {"lock", "write"}
    BY <1>2 DEF Ask, AskHold, AskConfirm, AskRelease, AskCancel, Arrive, BeginHold, At
  <2>2. OthersKept(w) /\ rowLock' = rowLock
    BY <1>2, AskFrame
  <2> QED
    BY <1>1, <2>1, <2>2 DEF LocksInTxn
<1>3. ASSUME NEW w \in Workers, HoldPasses(w)
      PROVE  LocksInTxn' /\ LegOrder'
  <2>1. pc' = [pc EXCEPT ![w] = "write"] /\ UNCHANGED <<req, rowLock>> /\ pc[w] = "lock"
    BY <1>3 DEF HoldPasses, AllLocked
  <2>2. \A q \in Procs : pc'[q] \notin {"lock", "write"} => pc[q] \notin {"lock", "write"}
    BY <2>1 DEF TypeOK
  <2>3. \A q \in Procs : req[q].kind = "hold" =>
          Wanted(q)' = Wanted(q) /\ Missing(q)' = Missing(q)
    BY <2>1 DEF Wanted, Missing, Cover
  <2> QED
    BY <2>1, <2>2, <2>3 DEF LocksInTxn, LegOrder
<1>4. ASSUME NEW p \in Procs, NEW r \in Rows, AcquireRow(p, r)
      PROVE  LocksInTxn' /\ LegOrder'
  <2>1. /\ OthersKept(p) /\ UNCHANGED <<pc, req>> /\ pc[p] = "lock" /\ r \in NextRows(p)
        /\ \A q \in Rows : rowLock'[q] = p <=> q = r \/ rowLock[q] = p
    BY <1>4, AcquireFrame
  <2>2. LocksInTxn'
    BY <1>0, <2>1 DEF LocksInTxn
  <2>3. ASSUME req[p].kind = "hold"
        PROVE  /\ Wanted(p)' = Wanted(p) /\ r \in Wanted(p)
               /\ Missing(p)' = Missing(p) \ {r}
    BY <2>1, <2>3 DEF Wanted, Missing, NextRows, Cover
  <2>4. ASSUME req[p].kind = "hold", NEW q \in Rows, rowLock'[q] = p
        PROVE  q \in Wanted(p) /\ \A m \in Missing(p) \ {r} : q[2] < m[2]
    BY <2>1, <2>3, <2>4, NextIsLeast DEF LegOrder
  <2>5. LegOrder'
    BY <1>0, <2>1, <2>3, <2>4 DEF LegOrder
  <2> QED
    BY <2>2, <2>5
<1>5. ASSUME NEW p \in Procs, NEW refs \in SUBSET Refs, Selects(p, refs)
      PROVE  LocksInTxn' /\ LegOrder'
  <2>1. OthersKept(p) /\ pc[p] = "select" /\ rowLock' = rowLock
    BY <1>5, SelectsFrame
  <2> QED
    BY <1>1, <2>1 DEF LocksInTxn
<1>6. ASSUME NEW p \in Procs, TxnEnds(p)
      PROVE  LocksInTxn' /\ LegOrder'
  BY <1>1, <1>6, EndsFrame
<1>7. ASSUME NEW p \in Reapers, ReaperStep(p)
      PROVE  LocksInTxn' /\ LegOrder'
  <2>1. OthersKept(p) /\ rowLock' = rowLock
    BY <1>7, ReaperFrame
  <2>2. pc[p] \notin {"lock", "write"}
    BY <1>7 DEF ReaperStep, TryLock, Unlock, UnlockFails, Purge
  <2> QED
    BY <1>1, <2>1, <2>2 DEF LocksInTxn
<1>8. CASE Background
  <2>1. UNCHANGED <<pc, req, rowLock>>
    BY <1>8, BackgroundFrame
  <2>2. \A q \in Procs : req[q].kind = "hold" =>
          Wanted(q)' = Wanted(q) /\ Missing(q)' = Missing(q)
    BY <2>1 DEF Wanted, Missing, Cover
  <2> QED
    BY <2>1, <2>2 DEF LocksInTxn, LegOrder
<1> QED
  BY <1>2, <1>3, <1>4, <1>5, <1>6, <1>7, <1>8, EngineSteps

(***************************************************************************)
(* Holds do not deadlock among themselves, however many there are and      *)
(* whatever legs they ask for.  Each waits for a row of a higher leg than  *)
(* any it has, so the leg waited for rises along a chain of waits: the     *)
(* holds of a cycle that wait for a higher leg than one of them does wait  *)
(* among themselves, and are fewer.                                        *)
(***************************************************************************)
LEMMA NoHoldCycle ==
  ASSUME TypeOK, LegOrder
  PROVE  HoldsNeverDeadlock
<1> SUFFICES ASSUME NEW D \in SUBSET Procs, Cycle(D),
                    \A p \in D : req[p].kind = "hold"
             PROVE  FALSE
  BY DEF HoldsNeverDeadlock
<1>1. ASSUME NEW p \in D
      PROVE  \E r \in NextRows(p) : rowLock[r] \in D
  <2>1. Blockers(p) \cap D # {}
    BY DEF Cycle, Waiting
  <2>2. Blockers(p) \subseteq {rowLock[r] : r \in NextRows(p)}
    BY DEF Blockers, At
  <2> QED
    BY <2>1, <2>2
<1>2. PICK p \in D : TRUE
  BY DEF Cycle
<1>3. PICK r \in NextRows(p) : rowLock[r] \in D
  BY <1>1
<1>4. ASSUME NEW q \in D, NEW m \in NextRows(q)
      PROVE  /\ m \in Rows /\ m \in Missing(q) /\ m[2] \in Int
             /\ \A n \in NextRows(q) : n[2] = m[2]
  <2>1. NextRows(q) \subseteq Missing(q) /\ Missing(q) \subseteq Rows
    BY DEF NextRows, Missing, Wanted, Cover
  <2>2. \A n \in NextRows(q) : n[2] <= m[2] /\ m[2] <= n[2]
    BY <2>1 DEF NextRows
  <2>3. \A n \in NextRows(q) : n[2] \in Int
    BY <2>1, RowIsPair
  <2> QED
    BY <2>1, <2>2, <2>3
<1>5. ASSUME NEW q \in D, NEW m \in NextRows(q), rowLock[m] \in D
      PROVE  \E n \in NextRows(rowLock[m]) : m[2] < n[2]
  <2>1. PICK n \in NextRows(rowLock[m]) : TRUE
    BY <1>1, <1>5
  <2>2. m \in Rows /\ n \in Missing(rowLock[m]) /\ rowLock[m] \in Procs
    BY <1>4, <1>5
  <2>3. m[2] < n[2]
    BY <1>5, <2>2 DEF LegOrder
  <2> QED
    BY <2>3
<1> DEFINE E == {q \in D : \E m \in NextRows(q) : r[2] < m[2]}
<1>6. p \notin E
  BY <1>3, <1>4
<1>7. E # {}
  BY <1>3, <1>5
<1>8. Waiting(E)
  <2> SUFFICES ASSUME NEW q \in E PROVE Blockers(q) \cap E # {}
    BY DEF Waiting
  <2>1. PICK m \in NextRows(q) : rowLock[m] \in D
    BY <1>1
  <2>2. r[2] < m[2] /\ m \in Rows
    BY <1>4
  <2>3. rowLock[m] \in E
    <3>1. PICK n \in NextRows(rowLock[m]) : m[2] < n[2]
      BY <1>5, <2>1
    <3>2. r[2] \in Int /\ m[2] \in Int /\ n[2] \in Int
      BY <1>3, <1>4, <2>1
    <3> QED
      BY <2>1, <2>2, <3>1, <3>2
  <2>4. rowLock[m] \in Blockers(q)
    <3>1. pc[q] = "lock"
      BY DEF Blockers, At, Cycle, Waiting
    <3>2. rowLock[m] # NoProc
      BY <2>1, EngineAssumption
    <3>3. Blockers(q) = {rowLock[n] : n \in NextRows(q)} \ {NoProc}
      BY <3>1 DEF Blockers, At
    <3> QED
      BY <3>2, <3>3
  <2> QED
    BY <2>3, <2>4
<1> QED
  BY <1>2, <1>6, <1>7, <1>8 DEF Cycle

\* Holds take their row locks in the order of their legs, so no two of them,
\* nor any number, ever wait for each other in a cycle.
THEOREM HoldsDoNotDeadlock == Spec => []HoldsNeverDeadlock
<1>1. Init => TypeOK /\ PlacesFit /\ LocksInTxn /\ LegOrder
  BY InitTyped, EngineAssumption DEF Init, LocksInTxn, LegOrder, Procs, NoReq
<1>2. TypeOK /\ PlacesFit /\ LocksInTxn /\ LegOrder /\ [Next]_vars
      => TypeOK' /\ PlacesFit' /\ LocksInTxn' /\ LegOrder'
  BY TypeStep, PlacesStep, LocksStep
<1>3. TypeOK /\ LegOrder => HoldsNeverDeadlock
  BY NoHoldCycle
<1> QED
  BY <1>1, <1>2, <1>3, PTL DEF Spec

-----------------------------------------------------------------------------
(* What a transaction writes.                                              *)

\* It touches the holds it works on, it frees or takes rows of its own only,
\* and a new row of seat_holds carries its start.
LEMMA WritesEffect ==
  ASSUME TypeOK, NEW p \in Procs, Writes(p)
  PROVE  /\ \A h \in DOMAIN holds \ req[p].refs :
              h \in DOMAIN holds' /\ holds'[h] = holds[h]
         /\ issued' = IF req[p].kind = "hold" THEN issued \cup req[p].refs ELSE issued
         /\ \A h \in DOMAIN holds' :
              \/ h \in DOMAIN holds /\ holds'[h].created_at = holds[h].created_at
              \/ /\ req[p].kind = "hold" /\ h \in req[p].refs
                 /\ holds'[h].created_at = txNow[p]
         /\ \A r \in Rows :
              Free(r) /\ ~(req[p].kind = "hold" /\ r \in Wanted(p)) => Free(r)'
<1> USE TablesAssumption DEF TypeOK, TablesTypeOK, InventoryRow
<1>0. req[p] \in Requests /\ req[p].refs \in SUBSET Refs
  BY RequestFields
<1>1. CASE At(p, "hold", "write")
  <2>1. PICK ref \in req[p].refs :
          WriteHold(ref, req[p].seat, req[p].legs, txNow[p], req[p].expires)
    BY <1>1 DEF Writes, At, AllLocked
  <2>2. req[p].refs = {ref} /\ req[p].kind = "hold"
    BY <1>0, <1>1, <2>1, RequestFields DEF At
  <2>3. Wanted(p) = Cover(req[p].seat, req[p].legs)
    BY <2>2 DEF Wanted
  <2>4. \A h \in DOMAIN holds \ {ref} : h \in DOMAIN holds' /\ holds'[h] = holds[h]
    BY <2>1 DEF WriteHold
  <2>5. issued' = issued \cup {ref}
    BY <2>1 DEF WriteHold
  <2>6. \A h \in DOMAIN holds' :
           IF h = ref THEN holds'[h].created_at = txNow[p]
                      ELSE h \in DOMAIN holds /\ holds'[h] = holds[h]
    BY <2>1 DEF WriteHold
  <2>7. \A r \in Rows : r \notin Wanted(p) => inventory'[r] = inventory[r]
    BY <2>1, <2>3 DEF WriteHold
  <2> QED
    BY <2>2, <2>4, <2>5, <2>6, <2>7 DEF Free
<1>2. CASE AllLocked(p) /\ req[p].kind = "confirm"
  <2>1. PICK ref \in req[p].refs : WriteBooking(ref, req[p].booking)
    BY <1>2 DEF Writes, At, AllLocked
  <2>2. ref \in Refs
    BY <1>0
  <2>3. /\ DOMAIN holds' = DOMAIN holds /\ issued' = issued
        /\ \A h \in DOMAIN holds \ {ref} : holds'[h] = holds[h]
        /\ \A h \in DOMAIN holds : holds'[h].created_at = holds[h].created_at
    BY <2>1 DEF WriteBooking, HoldRow
  <2>4. \A r \in Rows : Free(r) => Free(r)'
    BY <2>1, <2>2 DEF WriteBooking, Free
  <2>5. \A h \in DOMAIN holds \ req[p].refs :
          h \in DOMAIN holds' /\ holds'[h] = holds[h]
    BY <2>1, <2>3
  <2>6. req[p].kind # "hold"
    BY <1>2
  <2> QED
    BY <2>3, <2>4, <2>5, <2>6
<1>3. ASSUME NEW refs \in SUBSET req[p].refs,
             FreeRowsOf(req[p].refs), DeleteHolds(refs), req[p].kind # "hold"
      PROVE  /\ \A h \in DOMAIN holds \ req[p].refs :
                  h \in DOMAIN holds' /\ holds'[h] = holds[h]
             /\ issued' = issued
             /\ \A h \in DOMAIN holds' :
                  h \in DOMAIN holds /\ holds'[h].created_at = holds[h].created_at
             /\ \A r \in Rows : Free(r) => Free(r)'
  <2>1. DOMAIN holds' = DOMAIN holds \ refs /\ issued' = issued
        /\ \A h \in DOMAIN holds' : holds'[h] = holds[h]
    BY <1>3 DEF DeleteHolds, Restrict
  <2>2. \A r \in Rows : Free(r) => inventory'[r] = inventory[r]
    BY <1>0, <1>3 DEF FreeRowsOf, Free
  <2> QED
    BY <2>1, <2>2 DEF Free
<1>4. CASE AllLocked(p) /\ req[p].kind = "release"
  BY <1>3, <1>4 DEF Writes, At, AllLocked, DropHolds
<1>5. CASE AllLocked(p) /\ req[p].kind = "cancel"
  <2>1. ClearRows(req[p].seat, req[p].legs)
    BY <1>5 DEF Writes, At, AllLocked
  <2> QED
    BY <1>5, <2>1 DEF ClearRows, Free
<1>6. CASE AllLocked(p) /\ req[p].kind = "reap"
  <2>1. FreeRowsOf(req[p].refs) /\ DeleteHolds(req[p].refs \cap Active)
    BY <1>6 DEF Writes, At, AllLocked
  <2> QED
    BY <1>3, <1>6, <2>1
<1> QED
  BY <1>1, <1>2, <1>4, <1>5, <1>6 DEF Writes

\* The purge touches no active hold, and no row.
LEMMA PurgeEffect ==
  ASSUME TypeOK, NEW skew \in Skews, PurgeHolds(skew)
  PROVE  /\ DOMAIN holds' \subseteq DOMAIN holds
         /\ \A h \in DOMAIN holds' : holds'[h] = holds[h]
         /\ Active \subseteq DOMAIN holds'
         /\ issued' = issued /\ inventory' = inventory
<1>1. DOMAIN holds' = DOMAIN holds \ Purgeable(skew)
      /\ \A h \in DOMAIN holds' : holds'[h] = holds[h]
  BY DEF PurgeHolds, DeleteHolds, Restrict
<1>2. Active \subseteq DOMAIN holds \ Purgeable(skew)
  BY DEF Active, Purgeable, Consumed
<1> QED
  BY <1>1, <1>2 DEF PurgeHolds, DeleteHolds

-----------------------------------------------------------------------------
(* References, and the holds and rows a transaction relies on.             *)

\* What a new request says.
LEMMA AskEffect ==
  ASSUME TypeOK, NEW w \in Workers, Ask(w)
  PROVE  \/ \E ref \in Refs \ Drawn, want \in LegLists, expires \in Expiries(now) :
              /\ req'[w].kind = "hold" /\ req'[w].refs = {ref}
              /\ req'[w].legs = want.legs /\ req'[w].len = want.len
              /\ req'[w].expires = expires
              /\ pc'[w] = "begin"
         \/ /\ req'[w].kind = "confirm" /\ req'[w].refs \subseteq issued
            /\ txNow'[w] = now /\ pc'[w] = "select"
         \/ /\ req'[w].kind = "release" /\ req'[w].refs \subseteq issued
            /\ pc'[w] = "select"
         \/ req'[w].kind = "cancel" /\ req'[w].refs = {} /\ pc'[w] = "lock"
<1> USE DEF Arrive, TypeOK, Procs
<1>1. ASSUME NEW ref \in Refs, NEW seat \in Seats, NEW want \in LegLists,
             NEW expires \in Expiries(now), AskHold(w, ref, seat, want, expires)
      PROVE  /\ ref \notin Drawn /\ pc'[w] = "begin"
             /\ req'[w].kind = "hold" /\ req'[w].refs = {ref}
             /\ req'[w].legs = want.legs /\ req'[w].len = want.len
             /\ req'[w].expires = expires
  BY <1>1 DEF AskHold
<1>2. ASSUME NEW ref \in Refs, NEW booking \in Bookings, AskConfirm(w, ref, booking)
      PROVE  /\ req'[w].kind = "confirm" /\ req'[w].refs \subseteq issued
             /\ txNow'[w] = now /\ pc'[w] = "select"
  BY <1>2 DEF AskConfirm
<1>3. ASSUME NEW ref \in Refs, AskRelease(w, ref)
      PROVE  /\ req'[w].kind = "release" /\ req'[w].refs \subseteq issued
             /\ pc'[w] = "select"
  BY <1>3 DEF AskRelease
<1>4. ASSUME NEW seat \in Seats, NEW want \in LegLists, AskCancel(w, seat, want)
      PROVE  req'[w].kind = "cancel" /\ req'[w].refs = {} /\ pc'[w] = "lock"
  BY <1>4 DEF AskCancel
<1> HIDE DEF Arrive, TypeOK, Procs
<1>5. CASE \E ref \in Refs, seat \in Seats, want \in LegLists :
             \E expires \in Expiries(now) : AskHold(w, ref, seat, want, expires)
  BY <1>1, <1>5
<1> QED
  BY <1>2, <1>3, <1>4, <1>5 DEF Ask

\* Only handlers work on holds of their own.
LEMMA HoldersAreWorkers ==
  ASSUME PlacesFit, NEW p \in Procs, req[p].kind \in {"hold", "confirm", "release"}
  PROVE  p \in Workers /\ pc[p] # "idle"
  BY EngineAssumption DEF PlacesFit, Procs

\* Every step keeps the references of holds in flight new and apart.
LEMMA RefsStep ==
  ASSUME TypeOK, PlacesFit, RefsFit, [Next]_vars
  PROVE  RefsFit'
<1> USE DEF RefsFit
<1>0. ASSUME NEW p \in Procs, OthersKept(p)
      PROVE  \A w \in Workers \ {p} : req'[w] = req[w]
  BY <1>0 DEF OthersKept, Procs
<1>1. ASSUME NEW w \in Workers, Ask(w)
      PROVE  RefsFit'
  <2>1. OthersKept(w) /\ issued' = issued
    BY <1>1, AskFrame DEF tables
  <2>2. \/ /\ req'[w].kind = "hold"
           /\ req'[w].refs \cap issued = {}
           /\ \A v \in Workers : req'[w].refs \cap req[v].refs = {}
        \/ req'[w].kind \in {"confirm", "release"} /\ req'[w].refs \subseteq issued
        \/ req'[w].kind = "cancel"
    <3>1. ASSUME NEW ref, ref \notin Drawn
          PROVE  ref \notin issued /\ \A v \in Workers : ref \notin req[v].refs
      BY <3>1 DEF Drawn
    <3> QED
      BY <1>1, <3>1, AskEffect
  <2> QED
    BY <1>0, <2>1, <2>2 DEF Procs
<1>2. ASSUME NEW w \in Workers, BeginHold(w) \/ HoldPasses(w)
      PROVE  RefsFit'
  BY <1>2 DEF BeginHold, HoldPasses, tables
<1>3. ASSUME NEW p \in Procs, NEW r \in Rows, AcquireRow(p, r)
      PROVE  RefsFit'
  BY <1>3 DEF AcquireRow, tables
<1>4. ASSUME NEW p \in Procs, NEW refs \in SUBSET Refs, Selects(p, refs)
      PROVE  RefsFit'
  <2>1. /\ OthersKept(p) /\ issued' = issued
        /\ \/ p \in Workers /\ req'[p] = req[p]
           \/ p \in Reapers
    BY <1>4, SelectsFrame DEF tables
  <2> QED
    BY <1>0, <2>1, EngineAssumption
<1>5. ASSUME NEW p \in Procs, TxnEnds(p)
      PROVE  RefsFit'
  <2>1. OthersKept(p) /\ req'[p].kind = "none"
    BY <1>5, EndsFrame DEF NoReq
  <2>2. issued' = issued \/ (req[p].kind = "hold" /\ issued' = issued \cup req[p].refs)
    BY <1>5, WritesEffect DEF TxnEnds, tables
  <2>3. req[p].kind = "hold" => p \in Workers
    BY HoldersAreWorkers
  <2> QED
    BY <1>0, <2>1, <2>2, <2>3
<1>6. ASSUME NEW p \in Reapers, ReaperStep(p)
      PROVE  RefsFit'
  BY <1>6, ReaperFrame, PurgeEffect DEF tables
<1>7. CASE Background
  BY <1>7, BackgroundFrame DEF tables
<1> QED
  BY <1>1, <1>2, <1>3, <1>4, <1>5, <1>6, <1>7, EngineSteps

\* Two transactions never work on the same hold.
LEMMA HoldsDisjoint ==
  ASSUME TypeOK, PlacesFit, RefsFit, SelectedHeld,
         NEW p \in Procs, NEW q \in Procs, p # q, Writes(p),
         pc[q] = "lock", SelectsHolds(q)
  PROVE  req[q].refs \cap req[p].refs = {}
<1> SUFFICES ASSUME NEW h, h \in req[q].refs, h \in req[p].refs PROVE FALSE
  OBVIOUS
<1>1. h \in Active /\ holdLock[h] = q
  BY DEF SelectedHeld
<1>2. h \in issued
  BY <1>1 DEF Active, TypeOK, TablesTypeOK
<1>3. CASE req[p].kind = "hold"
  BY <1>2, <1>3, HoldersAreWorkers DEF RefsFit
<1>4. CASE SelectsHolds(p)
  <2>1. pc[p] = "lock"
    BY <1>4 DEF Writes, SelectsHolds, At, AllLocked
  <2> QED
    BY <1>1, <1>4, <2>1 DEF SelectedHeld
<1>5. CASE req[p].kind = "cancel"
  BY <1>5, RequestFields DEF TypeOK
<1> QED
  BY <1>3, <1>4, <1>5 DEF Writes, SelectsHolds, At

\* What q has selected stays as it was while another process ends or a purge
\* runs: they touch other holds, or no active one.
LEMMA SelectedKept ==
  ASSUME TypeOK, SelectedHeld, NEW q \in Procs, pc[q] = "lock", pc'[q] = "lock",
         req'[q] = req[q], txNow'[q] = txNow[q],
         \A h \in Refs : holdLock'[h] = q <=> holdLock[h] = q,
         SelectsHolds(q) =>
           \A h \in req[q].refs : h \in DOMAIN holds' /\ holds'[h] = holds[h],
         now' = now \/ now' = now + 1
  PROVE  /\ SelectsHolds(q)' =>
              \A h \in req'[q].refs : h \in Active' /\ holdLock'[h] = q
         /\ req'[q].kind = "confirm" =>
              \A h \in req'[q].refs : holds'[h].expires_at > txNow'[q]
         /\ req'[q].kind = "reap" =>
              /\ req'[q].refs \subseteq ExpiredAt(now)'
              /\ Cardinality(req'[q].refs) <= BatchLimit
<1> USE DEF SelectsHolds
<1>1. SelectsHolds(q)' <=> SelectsHolds(q)
  OBVIOUS
<1>2. ASSUME SelectsHolds(q), NEW h, h \in req[q].refs
      PROVE  h \in Active' /\ holdLock'[h] = q /\ holds'[h] = holds[h]
  <2>1. h \in Active /\ holdLock[h] = q /\ h \in Refs
    BY <1>2, RequestFields DEF SelectedHeld, TypeOK
  <2> QED
    BY <1>2, <2>1 DEF Active
<1>3. ASSUME req[q].kind = "reap"
      PROVE  req[q].refs \subseteq ExpiredAt(now)' /\ Cardinality(req[q].refs) <= BatchLimit
  <2>1. req[q].refs \subseteq ExpiredAt(now) /\ Cardinality(req[q].refs) <= BatchLimit
    BY <1>3 DEF SelectedHeld
  <2>2. ASSUME NEW h \in req[q].refs PROVE h \in ExpiredAt(now)'
    <3>1. h \in Active' /\ holds'[h] = holds[h] /\ holds[h].expires_at <= now
      BY <1>2, <1>3, <2>1 DEF ExpiredAt
    <3>2. holds[h].expires_at \in Int /\ now \in Int
      BY <1>3, <2>1 DEF ExpiredAt, Active, TypeOK, TablesTypeOK, HoldRow
    <3> QED
      BY <3>1, <3>2 DEF ExpiredAt
  <2> QED
    BY <2>1, <2>2
<1>4. req[q].kind = "confirm" =>
        \A h \in req[q].refs : holds'[h].expires_at > txNow[q]
  BY <1>2 DEF SelectedHeld
<1> QED
  BY <1>1, <1>2, <1>3, <1>4

\* Nobody else's step touches a hold that is selected.
LEMMA SelectedStep ==
  ASSUME TypeOK, PlacesFit, RefsFit, SelectedHeld, [Next]_vars
  PROVE  SelectedHeld'
<1> USE EngineAssumption
<1> DEFINE Kept(q) ==
      /\ SelectsHolds(q)' =>
           \A h \in req'[q].refs : h \in Active' /\ holdLock'[h] = q
      /\ req'[q].kind = "confirm" =>
           \A h \in req'[q].refs : holds'[h].expires_at > txNow'[q]
      /\ req'[q].kind = "reap" =>
           /\ req'[q].refs \subseteq ExpiredAt(now)'
           /\ Cardinality(req'[q].refs) <= BatchLimit
<1>0. SelectedHeld' <=> \A q \in Procs : pc'[q] = "lock" => Kept(q)
  BY DEF SelectedHeld
<1>a. ASSUME NEW q \in Procs, NEW p \in Procs \ {q}, OthersKept(p), pc'[q] = "lock",
             SelectsHolds(q) =>
               \A h \in req[q].refs : h \in DOMAIN holds' /\ holds'[h] = holds[h],
             now' = now
      PROVE  Kept(q)
  <2>1. /\ pc[q] = "lock" /\ req'[q] = req[q] /\ txNow'[q] = txNow[q]
        /\ \A h \in Refs : holdLock'[h] = q <=> holdLock[h] = q
    BY <1>a DEF OthersKept
  <2> QED
    BY <1>a, <2>1, SelectedKept
<1>b. ASSUME NEW q \in Procs, pc[q] = "lock", SelectsHolds(q), NEW h \in req[q].refs
      PROVE  h \in Active /\ h \in DOMAIN holds
  BY <1>b DEF SelectedHeld, Active
<1> HIDE DEF Kept
<1>1. ASSUME NEW w \in Workers, Ask(w) \/ BeginHold(w) \/ HoldPasses(w)
      PROVE  SelectedHeld'
  <2>0. w \in Procs
    BY DEF Procs
  <2>1. OthersKept(w) /\ now' = now /\ holds' = holds
    BY <1>1, AskFrame DEF tables
  <2>2. pc'[w] = "lock" => req'[w].kind \in {"hold", "cancel"}
    <3>1. Ask(w) => (pc'[w] = "lock" => req'[w].kind \in {"hold", "cancel"})
      BY AskEffect
    <3>2. BeginHold(w) \/ HoldPasses(w) => (pc'[w] = "lock" => req'[w].kind = "hold")
      BY <2>0 DEF BeginHold, HoldPasses, At, TypeOK
    <3> QED
      BY <1>1, <3>1, <3>2
  <2>3. pc'[w] = "lock" => Kept(w)
    BY <2>2 DEF Kept, SelectsHolds
  <2>4. ASSUME NEW q \in Procs \ {w}, pc'[q] = "lock" PROVE Kept(q)
    <3>1. pc[q] = "lock"
      BY <2>1, <2>4 DEF OthersKept
    <3> QED
      BY <1>a, <1>b, <2>0, <2>1, <2>4, <3>1
  <2> QED
    BY <1>0, <2>3, <2>4
<1>2. ASSUME NEW p \in Procs, NEW r \in Rows, AcquireRow(p, r)
      PROVE  SelectedHeld'
  <2>1. UNCHANGED <<now, tables, pc, req, txNow, holdLock>>
    BY <1>2, AcquireFrame
  <2> QED
    BY <2>1 DEF SelectedHeld, SelectsHolds, Active, ExpiredAt, tables
<1>3. ASSUME NEW p \in Procs, NEW refs \in SUBSET Refs, Selects(p, refs)
      PROVE  SelectedHeld'
  <2>1. /\ OthersKept(p) /\ UNCHANGED <<now, tables, txNow>> /\ pc[p] = "select"
        /\ \A h \in refs : holdLock'[h] = p
        /\ \/ p \in Workers /\ req'[p] = req[p] /\ refs = req[p].refs
           \/ p \in Reapers /\ req'[p] = [kind |-> "reap", refs |-> refs]
    BY <1>3, SelectsFrame
  <2>2. \A h \in refs : h \in Active
    BY <1>3 DEF Selects
  <2>3. Active' = Active /\ ExpiredAt(now)' = ExpiredAt(now) /\ holds' = holds
    BY <2>1 DEF Active, ExpiredAt, tables
  <2>4. Kept(p)
    <3>1. CASE p \in Workers
      <4>1. req'[p] = req[p] /\ refs = req[p].refs /\ req[p].kind \in {"confirm", "release"}
        BY <2>1, <3>1 DEF PlacesFit
      <4>2. req[p].kind = "confirm" => refs = ConfirmMatches(p)
        BY <1>3, <3>1 DEF Selects
      <4>3. req[p].kind = "confirm" => \A h \in refs : holds[h].expires_at > txNow[p]
        BY <4>2 DEF ConfirmMatches
      <4> QED
        BY <2>1, <2>2, <2>3, <4>1, <4>3 DEF Kept, SelectsHolds
    <3>2. CASE p \in Reapers
      <4>1. refs \subseteq ExpiredAt(now) /\ Cardinality(refs) <= BatchLimit
        BY <1>3, <3>2 DEF Selects
      <4>2. req'[p] = [kind |-> "reap", refs |-> refs]
        BY <2>1, <3>2
      <4> QED
        BY <2>1, <2>2, <2>3, <4>1, <4>2 DEF Kept, SelectsHolds
    <3> QED
      BY <3>1, <3>2 DEF Procs
  <2>5. ASSUME NEW q \in Procs \ {p}, pc'[q] = "lock" PROVE Kept(q)
    <3>1. pc[q] = "lock"
      BY <2>1, <2>5 DEF OthersKept
    <3> QED
      BY <1>a, <1>b, <2>1, <2>3, <2>5, <3>1
  <2> QED
    BY <1>0, <2>4, <2>5
<1>4. ASSUME NEW p \in Procs, TxnEnds(p)
      PROVE  SelectedHeld'
  <2>1. OthersKept(p) /\ now' = now /\ pc'[p] # "lock"
    BY <1>4, EndsFrame
  <2>2. ASSUME NEW q \in Procs \ {p}, pc'[q] = "lock", SelectsHolds(q),
               NEW h \in req[q].refs
        PROVE  h \in DOMAIN holds' /\ holds'[h] = holds[h]
    <3>1. pc[q] = "lock"
      BY <2>1, <2>2 DEF OthersKept
    <3>2. h \in DOMAIN holds
      BY <1>b, <2>2, <3>1
    <3>3. Writes(p) => h \notin req[p].refs
      BY <2>2, <3>1, HoldsDisjoint
    <3>4. Writes(p) \/ UNCHANGED tables
      BY <1>4 DEF TxnEnds
    <3> QED
      BY <3>2, <3>3, <3>4, WritesEffect DEF tables
  <2>3. ASSUME NEW q \in Procs \ {p}, pc'[q] = "lock" PROVE Kept(q)
    BY <1>a, <2>1, <2>2, <2>3
  <2> QED
    BY <1>0, <2>1, <2>3
<1>5. ASSUME NEW p \in Reapers, ReaperStep(p)
      PROVE  SelectedHeld'
  <2>0. p \in Procs
    BY DEF Procs
  <2>1. OthersKept(p) /\ now' = now /\ (UNCHANGED tables \/ \E skew \in Skews : PurgeHolds(skew))
    BY <1>5, ReaperFrame
  <2>2. pc'[p] # "lock"
    BY <1>5, <2>0 DEF ReaperStep, TryLock, Unlock, UnlockFails, Purge, TypeOK
  <2>3. ASSUME NEW h \in Active PROVE h \in DOMAIN holds' /\ holds'[h] = holds[h]
    BY <2>1, PurgeEffect DEF tables, Active
  <2>4. ASSUME NEW q \in Procs \ {p}, pc'[q] = "lock" PROVE Kept(q)
    <3>1. pc[q] = "lock"
      BY <2>1, <2>4 DEF OthersKept
    <3> QED
      BY <1>a, <1>b, <2>0, <2>1, <2>3, <2>4, <3>1
  <2> QED
    BY <1>0, <2>2, <2>4
<1>6. CASE Background
  <2>1. UNCHANGED <<tables, pc, req, txNow, holdLock>> /\ (now' = now \/ now' = now + 1)
    BY <1>6, BackgroundFrame
  <2>2. ASSUME NEW q \in Procs, pc'[q] = "lock" PROVE Kept(q)
    BY <1>b, <2>1, <2>2, SelectedKept DEF Kept, tables
  <2> QED
    BY <1>0, <2>2
<1> QED
  BY <1>1, <1>2, <1>3, <1>4, <1>5, <1>6, EngineSteps

\* Nobody else's step touches the rows of a hold that passed its checks.
LEMMA PassedStep ==
  ASSUME TypeOK, PlacesFit, PassedHeld, [Next]_vars
  PROVE  PassedHeld'
<1> USE EngineAssumption
<1> DEFINE Kept(w) == /\ Cardinality(Wanted(w)') = req'[w].len
                      /\ \A r \in Wanted(w)' : Free(r)' /\ rowLock'[r] = w
<1>0. PassedHeld' <=> \A w \in Workers : pc'[w] = "write" => Kept(w)
  BY DEF PassedHeld
<1>a. ASSUME NEW w \in Workers, pc[w] = "write" \/ pc'[w] = "write", req'[w] = req[w],
             req[w].kind = "hold"
      PROVE  Wanted(w)' = Wanted(w)
  BY <1>a DEF Wanted, Cover
<1>b. ASSUME NEW w \in Workers, NEW p \in Procs \ {w}, OthersKept(p), pc'[w] = "write",
             \A r \in Wanted(w) : Free(r)'
      PROVE  Kept(w)
  <2>1. /\ pc[w] = "write" /\ req'[w] = req[w] /\ req[w].kind = "hold"
        /\ \A r \in Rows : rowLock'[r] = w <=> rowLock[r] = w
    BY <1>b DEF OthersKept, Procs, PlacesFit
  <2>2. Wanted(w) \subseteq Rows
    BY <2>1 DEF Wanted, Cover
  <2> QED
    BY <1>a, <1>b, <2>1, <2>2 DEF PassedHeld
<1>c. ASSUME NEW w \in Workers, NEW p \in Procs \ {w}, OthersKept(p), pc'[w] = "write"
      PROVE  pc[w] = "write" /\ req[w].kind = "hold" /\ Wanted(w) \subseteq Rows
             /\ \A r \in Wanted(w) : Free(r) /\ rowLock[r] = w
  BY <1>c DEF OthersKept, Procs, PlacesFit, PassedHeld, Wanted, Cover
<1>d. ASSUME inventory' = inventory PROVE \A r : Free(r)' <=> Free(r)
  BY <1>d DEF Free
<1>e. ASSUME NEW p \in Procs, OthersKept(p), inventory' = inventory,
             p \in Workers => pc'[p] # "write" \/ Kept(p)
      PROVE  PassedHeld'
  BY <1>0, <1>b, <1>c, <1>d, <1>e
<1> HIDE DEF Kept
<1>1. ASSUME NEW w \in Workers, Ask(w) \/ BeginHold(w)
      PROVE  PassedHeld'
  <2>1. w \in Procs /\ OthersKept(w) /\ inventory' = inventory
    BY <1>1, AskFrame DEF tables, Procs
  <2>2. pc'[w] # "write"
    BY <1>1, <2>1, AskEffect DEF BeginHold, TypeOK
  <2> QED
    BY <1>e, <2>1, <2>2
<1>2. ASSUME NEW w \in Workers, HoldPasses(w)
      PROVE  PassedHeld'
  <2>1. w \in Procs /\ OthersKept(w) /\ inventory' = inventory /\ req' = req
        /\ rowLock' = rowLock /\ req[w].kind = "hold"
    BY <1>2, AskFrame DEF tables, Procs, HoldPasses
  <2>2. /\ Cardinality(Wanted(w)) = req[w].len
        /\ \A r \in Wanted(w) : Free(r) /\ rowLock[r] = w
    BY <1>2 DEF HoldPasses, WantedIsComplete, AllLocked, Missing
  <2>3. Wanted(w)' = Wanted(w)
    BY <2>1 DEF Wanted, Cover
  <2>4. Kept(w)
    BY <1>d, <2>1, <2>2, <2>3 DEF Kept
  <2> QED
    BY <1>e, <2>1, <2>4
<1>3. ASSUME NEW p \in Procs, NEW r \in Rows, AcquireRow(p, r)
      PROVE  PassedHeld'
  <2>1. OthersKept(p) /\ UNCHANGED <<tables, pc>> /\ pc[p] = "lock"
    BY <1>3, AcquireFrame
  <2> QED
    BY <1>e, <2>1 DEF tables
<1>4. ASSUME NEW p \in Procs, NEW refs \in SUBSET Refs, Selects(p, refs)
      PROVE  PassedHeld'
  <2>1. OthersKept(p) /\ UNCHANGED tables /\ pc'[p] = "lock"
    BY <1>4, SelectsFrame
  <2> QED
    BY <1>e, <2>1 DEF tables
<1>5. ASSUME NEW p \in Procs, TxnEnds(p)
      PROVE  PassedHeld'
  <2>1. OthersKept(p) /\ pc'[p] # "write" /\ (Writes(p) \/ UNCHANGED tables)
    BY <1>5, EndsFrame DEF TxnEnds
  <2>2. CASE UNCHANGED tables
    BY <1>e, <2>1, <2>2 DEF tables
  <2>3. CASE Writes(p)
    <3>1. ASSUME NEW w \in Workers \ {p}, pc'[w] = "write" PROVE Kept(w)
      <4>1. ASSUME NEW r \in Wanted(w) PROVE Free(r)'
        <5>1. r \in Rows /\ Free(r) /\ rowLock[r] = w
          BY <1>c, <2>1, <3>1
        <5>2. ~(req[p].kind = "hold" /\ r \in Wanted(p))
          <6> SUFFICES ASSUME req[p].kind = "hold", r \in Wanted(p) PROVE FALSE
            OBVIOUS
          <6>1. p \in Workers /\ pc[p] = "write"
            BY <2>3, HoldersAreWorkers DEF Writes, At, AllLocked
          <6> QED
            BY <3>1, <5>1, <6>1 DEF PassedHeld
        <5> QED
          BY <2>3, <5>1, <5>2, WritesEffect
      <4> QED
        BY <1>b, <2>1, <3>1, <4>1
    <3> QED
      BY <1>0, <2>1, <3>1
  <2> QED
    BY <2>1, <2>2, <2>3
<1>6. ASSUME NEW p \in Reapers, ReaperStep(p)
      PROVE  PassedHeld'
  <2>1. p \in Procs /\ p \notin Workers /\ OthersKept(p)
    BY <1>6, ReaperFrame DEF Procs
  <2>2. inventory' = inventory
    BY <1>6, ReaperFrame, PurgeEffect DEF tables
  <2> QED
    BY <1>e, <2>1, <2>2
<1>7. CASE Background
  <2>1. UNCHANGED <<tables, pc, req, rowLock>>
    BY <1>7, BackgroundFrame
  <2>2. \A w \in Workers : Wanted(w)' = Wanted(w)
    BY <2>1 DEF Wanted, Cover, tables
  <2> QED
    BY <1>d, <2>1, <2>2 DEF PassedHeld, tables
<1> QED
  BY <1>1, <1>2, <1>3, <1>4, <1>5, <1>6, <1>7, EngineSteps

\* Every step leaves legs and expiry of a hold as they were asked.
LEMMA AskedStep ==
  ASSUME TypeOK, PlacesFit, HoldAsked, [Next]_vars
  PROVE  HoldAsked'
<1> USE EngineAssumption DEF Procs
<1> DEFINE Kept(w) ==
      /\ [legs |-> req'[w].legs, len |-> req'[w].len] \in LegLists
      /\ \E asked \in 0..(IF pc'[w] = "begin" THEN now' ELSE txNow'[w]) :
           req'[w].expires \in Expiries(asked)
<1>0. HoldAsked' <=> \A w \in Workers : req'[w].kind = "hold" => Kept(w)
  BY DEF HoldAsked, Expiries
<1>a. ASSUME NEW w \in Workers, req[w].kind = "hold", req'[w] = req[w],
             pc'[w] = "begin" <=> pc[w] = "begin", txNow'[w] = txNow[w],
             now' = now \/ now' = now + 1
      PROVE  Kept(w)
  <2>1. now \in Int
    BY DEF TypeOK, TablesTypeOK
  <2> QED
    BY <1>a, <2>1 DEF HoldAsked
<1>b. ASSUME NEW p \in Procs, OthersKept(p), now' = now,
             p \in Workers /\ req'[p].kind = "hold" => Kept(p)
      PROVE  HoldAsked'
  BY <1>0, <1>a, <1>b DEF OthersKept
<1> HIDE DEF Kept
<1>1. ASSUME NEW w \in Workers, Ask(w)
      PROVE  HoldAsked'
  <2>1. OthersKept(w) /\ now' = now
    BY <1>1, AskFrame
  <2>2. req'[w].kind = "hold" => Kept(w)
    <3> SUFFICES ASSUME req'[w].kind = "hold" PROVE Kept(w)
      OBVIOUS
    <3>1. PICK want \in LegLists, expires \in Expiries(now) :
            /\ req'[w].legs = want.legs /\ req'[w].len = want.len
            /\ req'[w].expires = expires /\ pc'[w] = "begin"
      BY <1>1, AskEffect
    <3>2. want = [legs |-> want.legs, len |-> want.len]
      OBVIOUS
    <3>3. now \in 0..now'
      BY <2>1 DEF TypeOK, TablesTypeOK
    <3> QED
      BY <3>1, <3>2, <3>3 DEF Kept
  <2> QED
    BY <1>b, <2>1, <2>2
<1>2. ASSUME NEW w \in Workers, BeginHold(w)
      PROVE  HoldAsked'
  <2>1. OthersKept(w) /\ now' = now
    BY <1>2, AskFrame
  <2>2. /\ pc[w] = "begin" /\ pc'[w] = "lock" /\ req'[w] = req[w] /\ txNow'[w] = now
        /\ req[w].kind = "hold"
    BY <1>2 DEF BeginHold, At, TypeOK
  <2>3. Kept(w)
    BY <2>2 DEF Kept, HoldAsked
  <2> QED
    BY <1>b, <2>1, <2>3
<1>3. ASSUME NEW w \in Workers, HoldPasses(w)
      PROVE  HoldAsked'
  <2>1. OthersKept(w) /\ now' = now
    BY <1>3, AskFrame
  <2>2. /\ pc[w] = "lock" /\ pc'[w] = "write" /\ req'[w] = req[w] /\ txNow'[w] = txNow[w]
        /\ req[w].kind = "hold"
    BY <1>3 DEF HoldPasses, AllLocked, TypeOK
  <2>3. Kept(w)
    BY <1>a, <2>1, <2>2
  <2> QED
    BY <1>b, <2>1, <2>3
<1>4. ASSUME NEW p \in Procs, NEW r \in Rows, AcquireRow(p, r)
      PROVE  HoldAsked'
  <2>1. UNCHANGED <<now, pc, req, txNow>>
    BY <1>4, AcquireFrame
  <2> QED
    BY <1>0, <1>a, <2>1
<1>5. ASSUME NEW p \in Procs, NEW refs \in SUBSET Refs, Selects(p, refs)
      PROVE  HoldAsked'
  <2>1. /\ OthersKept(p) /\ now' = now /\ pc[p] = "select"
        /\ \/ p \in Workers /\ req'[p] = req[p]
           \/ p \in Reapers
    BY <1>5, SelectsFrame
  <2>2. p \in Workers => req'[p].kind # "hold"
    BY <2>1 DEF PlacesFit
  <2> QED
    BY <1>b, <2>1, <2>2
<1>6. ASSUME NEW p \in Procs, TxnEnds(p)
      PROVE  HoldAsked'
  <2>1. OthersKept(p) /\ now' = now /\ req'[p].kind = "none"
    BY <1>6, EndsFrame DEF NoReq
  <2> QED
    BY <1>b, <2>1
<1>7. ASSUME NEW p \in Reapers, ReaperStep(p)
      PROVE  HoldAsked'
  <2>1. OthersKept(p) /\ now' = now
    BY <1>7, ReaperFrame
  <2> QED
    BY <1>b, <2>1
<1>8. CASE Background
  <2>1. UNCHANGED <<pc, req, txNow>> /\ (now' = now \/ now' = now + 1)
    BY <1>8, BackgroundFrame
  <2> QED
    BY <1>0, <1>a, <2>1
<1> QED
  BY <1>1, <1>2, <1>3, <1>4, <1>5, <1>6, <1>7, <1>8, EngineSteps

\* Transactions and holds begin no later than the database clock, and a
\* confirm no earlier than the hold it was told of.
LEMMA TimesStep ==
  ASSUME TypeOK, PlacesFit, RefsFit, TimesFit, [Next]_vars
  PROVE  TimesFit'
<1> USE EngineAssumption DEF Procs
<1>0. /\ now \in Int /\ \A p \in Procs : txNow[p] \in Int
      /\ \A h \in DOMAIN holds : holds[h].created_at \in Int
  BY DEF TypeOK, TablesTypeOK, HoldRow
<1>a. ASSUME now' = now \/ now' = now + 1,
             \A p \in Procs : req'[p] = req[p] /\ txNow'[p] = txNow[p],
             DOMAIN holds' \subseteq DOMAIN holds,
             \A h \in DOMAIN holds' : holds'[h] = holds[h]
      PROVE  TimesFit'
  BY <1>0, <1>a DEF TimesFit
<1>b. ASSUME NEW p \in Procs, OthersKept(p), UNCHANGED <<now, holds>>,
             txNow'[p] \in {txNow[p], now},
             req'[p].kind = "confirm" =>
               txNow'[p] = now \/ (req'[p] = req[p] /\ txNow'[p] = txNow[p])
      PROVE  TimesFit'
  <2>1. \A q \in Procs : txNow'[q] \in {txNow[q], now}
    BY <1>b DEF OthersKept
  <2>2. \A q \in Procs : req'[q].kind = "confirm" =>
          txNow'[q] = now \/ (req'[q] = req[q] /\ txNow'[q] = txNow[q])
    BY <1>b DEF OthersKept
  <2> QED
    BY <1>0, <1>b, <2>1, <2>2 DEF TimesFit
<1>1. ASSUME NEW w \in Workers, Ask(w) \/ BeginHold(w) \/ HoldPasses(w)
      PROVE  TimesFit'
  <2>1. OthersKept(w) /\ UNCHANGED <<now, holds>>
    BY <1>1, AskFrame DEF tables
  <2>2. txNow'[w] \in {txNow[w], now}
    BY <1>1 DEF Ask, AskHold, AskConfirm, AskRelease, AskCancel, Arrive, BeginHold,
       HoldPasses, TypeOK
  <2>3. CASE Ask(w)
    <3>1. req'[w].kind = "confirm" => txNow'[w] = now
      BY <2>3, AskEffect
    <3> QED
      BY <1>b, <2>1, <2>2, <3>1
  <2>4. CASE BeginHold(w) \/ HoldPasses(w)
    <3>1. req'[w].kind # "confirm"
      BY <2>4 DEF BeginHold, HoldPasses, At
    <3> QED
      BY <1>b, <2>1, <2>2, <3>1
  <2> QED
    BY <1>1, <2>3, <2>4
<1>2. ASSUME NEW p \in Procs, NEW r \in Rows, AcquireRow(p, r)
      PROVE  TimesFit'
  BY <1>a, <1>2, AcquireFrame DEF tables
<1>3. ASSUME NEW p \in Procs, NEW refs \in SUBSET Refs, Selects(p, refs)
      PROVE  TimesFit'
  <2>1. OthersKept(p) /\ UNCHANGED <<now, tables, txNow>>
    BY <1>3, SelectsFrame
  <2>2. req'[p] = req[p] \/ req'[p] = [kind |-> "reap", refs |-> refs]
    BY <1>3, SelectsFrame
  <2>3. req'[p].kind = "confirm" => req'[p] = req[p]
    BY <2>2
  <2> QED
    BY <1>b, <2>1, <2>3 DEF tables
<1>4. ASSUME NEW p \in Procs, TxnEnds(p)
      PROVE  TimesFit'
  <2>1. OthersKept(p) /\ now' = now /\ req'[p].kind = "none" /\ txNow'[p] = 0
    BY <1>4, EndsFrame DEF NoReq
  <2>2. 0 <= now
    BY DEF TypeOK, TablesTypeOK
  <2>3. \A q \in Procs : txNow'[q] <= now
    BY <2>1, <2>2 DEF OthersKept, TimesFit
  <2>4. \A h \in DOMAIN holds' :
          \/ h \in DOMAIN holds /\ holds'[h].created_at = holds[h].created_at
          \/ /\ req[p].kind = "hold" /\ h \in req[p].refs
             /\ holds'[h].created_at = txNow[p]
    BY <1>4, WritesEffect DEF TxnEnds, tables
  <2>5. \A h \in DOMAIN holds' : holds'[h].created_at <= now
    BY <2>4 DEF TimesFit
  <2>6. ASSUME NEW w \in Workers, req'[w].kind = "confirm",
               NEW h \in req'[w].refs \cap DOMAIN holds'
        PROVE  holds'[h].created_at <= txNow'[w]
    <3>1. w # p /\ req'[w] = req[w] /\ txNow'[w] = txNow[w]
      BY <2>1, <2>6 DEF OthersKept
    <3>2. h \in issued
      BY <2>6, <3>1 DEF RefsFit
    <3>3. ~(req[p].kind = "hold" /\ h \in req[p].refs)
      BY <3>2, HoldersAreWorkers DEF RefsFit
    <3> QED
      BY <2>4, <2>6, <3>1, <3>3 DEF TimesFit
  <2> QED
    BY <2>1, <2>3, <2>5, <2>6 DEF TimesFit
<1>5. ASSUME NEW p \in Reapers, ReaperStep(p)
      PROVE  TimesFit'
  <2>1. UNCHANGED <<now, req, txNow>> /\ (UNCHANGED tables \/ \E skew \in Skews : PurgeHolds(skew))
    BY <1>5, ReaperFrame
  <2>2. /\ DOMAIN holds' \subseteq DOMAIN holds
        /\ \A h \in DOMAIN holds' : holds'[h] = holds[h]
    BY <2>1, PurgeEffect DEF tables
  <2> QED
    BY <1>a, <2>1, <2>2
<1>6. CASE Background
  BY <1>a, <1>6, BackgroundFrame DEF tables
<1> QED
  BY <1>1, <1>2, <1>3, <1>4, <1>5, <1>6, EngineSteps

-----------------------------------------------------------------------------
(* The inductive invariant.                                                *)

\* The invariant holds at first.
LEMMA InitInv == Init => EngineInv
<1> SUFFICES ASSUME Init PROVE EngineInv
  OBVIOUS
<1>1. PlacesFit
  BY InitTyped
<1>2. DOMAIN holds = {} /\ issued = {} /\ now = 0
      /\ \A p \in Procs : /\ pc[p] = "idle" /\ req[p].kind = "none" /\ txNow[p] = 0
                          /\ \A r \in Rows : rowLock[r] # p
  BY EngineAssumption DEF Init, TablesInit, NoReq
<1>3. AdvisoryHeld /\ LocksInTxn /\ LegOrder /\ SelectedHeld
  BY <1>2 DEF AdvisoryHeld, LocksInTxn, LegOrder, SelectedHeld, Procs
<1>4. RefsFit /\ PassedHeld /\ HoldAsked
  BY <1>2 DEF RefsFit, PassedHeld, HoldAsked, Procs
<1>5. TimesFit
  BY <1>2 DEF TimesFit, Procs
<1> QED
  BY <1>1, <1>3, <1>4, <1>5 DEF EngineInv

\* Every step keeps the invariant.
LEMMA InvStep ==
  ASSUME TypeOK, EngineInv, [Next]_vars
  PROVE  EngineInv'
BY PlacesStep, AdvisoryStep, LocksStep, RefsStep, SelectedStep, PassedStep, AskedStep,
   TimesStep DEF EngineInv

(***************************************************************************)
(* Whatever handlers, reapers, failures and deadlocks do to each other,    *)
(* the parts of the invariant hold together in every state.                *)
(***************************************************************************)
THEOREM InvariantHolds == Spec => []EngineInv
<1>1. TypeOK /\ EngineInv /\ [Next]_vars => EngineInv'
  BY InvStep
<1> QED
  BY <1>1, InitInv, TypeCorrect, PTL DEF Spec

(***************************************************************************)
(* What a handler or the reaper checked under its locks is still true when *)
(* it writes, although every check and every write is a statement of its   *)
(* own and any number of transactions run in between.                      *)
(***************************************************************************)
THEOREM ChecksHold == Spec => []CheckedStillTrue
<1> USE EngineAssumption DEF Procs
<1>1. ASSUME TypeOK, EngineInv, NEW p \in Procs
      PROVE  /\ pc[p] = "write" =>
                  /\ req[p].refs \cap issued = {}
                  /\ \A r \in Wanted(p) : Free(r) /\ rowLock[r] = p
             /\ pc[p] = "lock" => req[p].refs \cap issued \subseteq Active
             /\ At(p, "confirm", "lock") =>
                  \A h \in req[p].refs : holds[h].expires_at > txNow[p]
             /\ At(p, "reap", "lock") => req[p].refs \subseteq ExpiredAt(now)
  <2>1. PlacesFit /\ RefsFit /\ SelectedHeld /\ PassedHeld
    BY <1>1 DEF EngineInv
  <2>2. pc[p] = "write" =>
          /\ req[p].refs \cap issued = {}
          /\ \A r \in Wanted(p) : Free(r) /\ rowLock[r] = p
    BY <2>1 DEF PlacesFit, RefsFit, PassedHeld
  <2>3. pc[p] = "lock" => req[p].refs \cap issued \subseteq Active
    <3>1. req[p].kind \in {"hold", "confirm", "release", "cancel", "reap"}
             \/ req[p].refs = {}
      BY <1>1, RequestFields DEF TypeOK
    <3>2. req[p].kind = "cancel" => req[p].refs = {}
      BY <1>1, RequestFields DEF TypeOK
    <3>3. req[p].kind = "hold" => req[p].refs \cap issued = {}
      BY <2>1, HoldersAreWorkers DEF RefsFit
    <3> QED
      BY <2>1, <3>1, <3>2, <3>3 DEF SelectedHeld, SelectsHolds
  <2> QED
    BY <2>1, <2>2, <2>3 DEF SelectedHeld, At
<1>2. TypeOK /\ EngineInv => CheckedStillTrue
  BY <1>1 DEF CheckedStillTrue
<1> QED
  BY <1>2, TypeCorrect, InvariantHolds, PTL

-----------------------------------------------------------------------------
(* Waiting ends.                                                           *)

\* Locks on holds belong to transactions that selected them.
HoldLocksInTxn ==
  \A p \in Procs : ~(pc[p] = "lock" /\ SelectsHolds(p)) =>
    \A h \in Refs : holdLock[h] # p

\* Every step keeps the locks on holds within transactions.
LEMMA HoldLocksStep ==
  ASSUME TypeOK, EngineInv, HoldLocksInTxn, [Next]_vars
  PROVE  HoldLocksInTxn'
<1> USE EngineAssumption DEF Procs, SelectsHolds, EngineInv
<1>1. ASSUME NEW p \in Procs, OthersKept(p),
             ~(pc'[p] = "lock" /\ SelectsHolds(p)') => \A h \in Refs : holdLock'[h] # p
      PROVE  HoldLocksInTxn'
  BY <1>1 DEF HoldLocksInTxn, OthersKept
<1>2. ASSUME NEW w \in Workers, Ask(w) \/ BeginHold(w) \/ HoldPasses(w)
      PROVE  HoldLocksInTxn'
  <2>1. OthersKept(w) /\ holdLock' = holdLock
    BY <1>2, AskFrame
  <2>2. ~(pc[w] = "lock" /\ SelectsHolds(w))
    BY <1>2 DEF Ask, AskHold, AskConfirm, AskRelease, AskCancel, Arrive, BeginHold,
       HoldPasses, At
  <2> QED
    BY <1>1, <2>1, <2>2 DEF HoldLocksInTxn
<1>3. ASSUME NEW p \in Procs, NEW r \in Rows, AcquireRow(p, r)
      PROVE  HoldLocksInTxn'
  BY <1>3, AcquireFrame DEF HoldLocksInTxn
<1>4. ASSUME NEW p \in Procs, NEW refs \in SUBSET Refs, Selects(p, refs)
      PROVE  HoldLocksInTxn'
  <2>1. OthersKept(p) /\ pc'[p] = "lock" /\ pc[p] = "select"
        /\ \/ p \in Workers /\ req'[p] = req[p]
           \/ p \in Reapers /\ req'[p] = [kind |-> "reap", refs |-> refs]
    BY <1>4, SelectsFrame
  <2>2. SelectsHolds(p)'
    BY <2>1 DEF PlacesFit
  <2> QED
    BY <1>1, <2>1, <2>2
<1>5. ASSUME NEW p \in Procs, TxnEnds(p)
      PROVE  HoldLocksInTxn'
  <2>1. PICK place \in {"idle", "unlock"} : EndTxn(p, place)
    BY <1>5 DEF TxnEnds
  <2>2. \A h \in Refs : holdLock'[h] # p
    BY <2>1, UnlockedOwners DEF EndTxn, TypeOK
  <2> QED
    BY <1>1, <1>5, <2>2, EndsFrame
<1>6. ASSUME NEW p \in Reapers, ReaperStep(p)
      PROVE  HoldLocksInTxn'
  <2>1. OthersKept(p) /\ UNCHANGED holdLock
    BY <1>6, ReaperFrame
  <2>2. pc[p] # "lock"
    BY <1>6 DEF ReaperStep, TryLock, Unlock, UnlockFails, Purge
  <2> QED
    BY <1>1, <2>1, <2>2 DEF HoldLocksInTxn
<1>7. CASE Background
  BY <1>7, BackgroundFrame DEF HoldLocksInTxn
<1> QED
  BY <1>2, <1>3, <1>4, <1>5, <1>6, <1>7, EngineSteps

LEMMA HoldLocksHold == Spec => []HoldLocksInTxn
<1>1. Init => HoldLocksInTxn
  BY EngineAssumption DEF Init, HoldLocksInTxn
<1>2. TypeOK /\ EngineInv /\ HoldLocksInTxn /\ [Next]_vars => HoldLocksInTxn'
  BY HoldLocksStep
<1> QED
  BY <1>1, <1>2, TypeCorrect, InvariantHolds, PTL DEF Spec

\* Whom a process waits for is in a transaction, at its row statement or past it.
LEMMA BlockersWork ==
  ASSUME TypeOK, LocksInTxn, HoldLocksInTxn, NEW p \in Procs, NEW q \in Blockers(p)
  PROVE  q \in Procs /\ pc[q] \in {"lock", "write"}
<1>1. CASE \E r \in NextRows(p) : rowLock[r] = q
  <2>1. PICK r \in Rows : rowLock[r] = q
    BY <1>1 DEF NextRows, Missing, Wanted, Cover
  <2>2. q \in Procs
    BY <2>1 DEF Blockers, TypeOK
  <2> QED
    BY <2>1, <2>2 DEF LocksInTxn
<1>2. CASE \E h \in req[p].refs : holdLock[h] = q
  <2>1. PICK h \in Refs : holdLock[h] = q
    BY <1>2, RequestFields DEF TypeOK
  <2>2. q \in Procs
    BY <2>1 DEF Blockers, TypeOK
  <2> QED
    BY <2>1, <2>2 DEF HoldLocksInTxn
<1> QED
  BY <1>1, <1>2 DEF Blockers, At, ConfirmMatches

\* Among some subsets of a finite set one contains no other.
LEMMA SmallestSubset ==
  ASSUME NEW S, IsFiniteSet(S), NEW T \in SUBSET (SUBSET S), T # {}
  PROVE  \E C \in T : \A E \in T : E \subseteq C => E = C
<1>1. IsWellFoundedOn(StrictSubsetOrdering(S), SUBSET S)
  BY FS_StrictSubsetOrderingWellFounded, FS_FiniteSubsetsOfFinite
<1>2. PICK C \in T : \A E \in T : <<E, C>> \notin StrictSubsetOrdering(S)
  BY <1>1, WFMin
<1> QED
  BY <1>2 DEF StrictSubsetOrdering

\* A hold that misses rows has a row to lock next: its legs are finitely many.
LEMMA HasNextRow ==
  ASSUME TypeOK, PlacesFit, HoldAsked, NEW p \in Procs, Missing(p) # {}
  PROVE  NextRows(p) # {}
<1>1. CASE req[p].kind # "hold"
  BY <1>1 DEF NextRows
<1>2. CASE req[p].kind = "hold"
  <2> DEFINE all == {req[p].seat} \X req[p].legs
             want == [legs |-> req[p].legs, len |-> req[p].len]
             Below(m) == {r \in Missing(p) : r[2] < m[2]}
             T == {Below(m) : m \in Missing(p)}
  <2>1. want \in LegLists
    BY <1>2, HoldersAreWorkers DEF HoldAsked
  <2>2. IsFiniteSet(want.legs)
    BY <2>1, EngineAssumption
  <2>3. IsFiniteSet(all)
    BY <2>2, FS_Singleton, FS_Product
  <2>4. Missing(p) \subseteq all /\ Missing(p) \subseteq Rows
    <3>1. Missing(p) \subseteq {r \in Rows : r[1] = req[p].seat /\ r[2] \in req[p].legs}
      BY <1>2 DEF Missing, Wanted, Cover
    <3> QED
      BY <3>1, RowIsPair
  <2>5. IsFiniteSet(Missing(p))
    BY <2>3, <2>4, FS_Subset
  <2>6. PICK C \in T : \A E \in T : E \subseteq C => E = C
    <3>1. T \in SUBSET (SUBSET Missing(p)) /\ T # {}
      OBVIOUS
    <3> HIDE DEF T
    <3> QED
      BY <2>5, <3>1, SmallestSubset
  <2>7. PICK m \in Missing(p) : C = Below(m)
    BY <2>6
  <2>8. ASSUME NEW r \in Missing(p), r[2] < m[2]
        PROVE  FALSE
    <3>1. \A x \in Missing(p) : x[2] \in Int
      BY <2>4, RowIsPair
    <3>2. Below(r) \subseteq Below(m)
      BY <2>8, <3>1
    <3>3. r \in Below(m) /\ r \notin Below(r)
      BY <2>8, <3>1
    <3> QED
      BY <2>6, <2>7, <3>2, <3>3
  <2>9. \A r \in Missing(p) : r[2] \in Int
    BY <2>4, RowIsPair
  <2>10. m \in NextRows(p)
    BY <1>2, <2>8, <2>9 DEF NextRows
  <2> QED
    BY <2>10
<1> QED
  BY <1>1, <1>2

\* At its row statement or past it, a transaction waits or can go on.
LEMMA WaitsOrGoesOn ==
  ASSUME TypeOK, PlacesFit, HoldAsked, NEW p \in Procs, pc[p] \in {"lock", "write"}
  PROVE  p \in WaitingProcs \/ CanGoOn(p)
<1>1. CASE Missing(p) = {}
  BY <1>1 DEF CanGoOn, AllLocked
<1>2. CASE Missing(p) # {} /\ pc[p] = "lock"
  <2>1. PICK r \in NextRows(p) : TRUE
    BY <1>2, HasNextRow
  <2>2. CASE rowLock[r] = NoProc
    BY <1>2, <2>1, <2>2 DEF CanGoOn
  <2>3. CASE rowLock[r] # NoProc
    BY <1>2, <2>1, <2>3 DEF WaitingProcs, Blockers, At
  <2> QED
    BY <2>2, <2>3
<1> QED
  BY <1>1, <1>2 DEF CanGoOn

\* If all that wait in a finite set wait for others in it, it has a cycle.
LEMMA WaitersCycle ==
  ASSUME NEW D, IsFiniteSet(D), D # {}, Waiting(D)
  PROVE  \E C \in SUBSET D : Cycle(C)
<1> DEFINE T == {E \in SUBSET D : E # {} /\ Waiting(E)}
<1>1. T \in SUBSET (SUBSET D) /\ D \in T
  OBVIOUS
<1>2. PICK C \in T : \A E \in T : E \subseteq C => E = C
  <2> HIDE DEF T
  <2> QED
    BY <1>1, SmallestSubset
<1>3. Cycle(C)
  BY <1>2 DEF Cycle
<1> QED
  BY <1>2, <1>3

(***************************************************************************)
(* However many requests there are, nobody waits for a lock that no        *)
(* running transaction will give up: locks belong to transactions at their *)
(* row statement or past it, and those wait themselves or can go on.       *)
(***************************************************************************)
THEOREM NobodyStuck ==
  ASSUME IsFiniteSet(Procs)
  PROVE  Spec => []NeverStuck
<1>1. ASSUME TypeOK, EngineInv, HoldLocksInTxn
      PROVE  NeverStuck
  <2> SUFFICES ASSUME NEW D \in (SUBSET WaitingProcs) \ {{}}
               PROVE  \/ \E p \in D : \E q \in Blockers(p) \ D :
                           q \in WaitingProcs \/ CanGoOn(q)
                      \/ \E C \in SUBSET D : Cycle(C)
    BY DEF NeverStuck
  <2>1. D \in SUBSET Procs /\ \A p \in D : Blockers(p) # {}
    BY DEF WaitingProcs
  <2>2. CASE Waiting(D)
    <3>1. IsFiniteSet(D)
      BY <2>1, FS_Subset
    <3> QED
      BY <2>2, <3>1, WaitersCycle
  <2>3. CASE ~Waiting(D)
    <3>1. PICK p \in D : Blockers(p) \cap D = {}
      BY <2>3 DEF Waiting
    <3>2. PICK q \in Blockers(p) \ D : TRUE
      BY <2>1, <3>1
    <3>3. q \in Procs /\ pc[q] \in {"lock", "write"}
      BY <1>1, <2>1, BlockersWork DEF EngineInv
    <3>4. q \in WaitingProcs \/ CanGoOn(q)
      BY <1>1, <3>3, WaitsOrGoesOn DEF EngineInv
    <3> QED
      BY <3>4
  <2> QED
    BY <2>2, <2>3
<1>2. TypeOK /\ EngineInv /\ HoldLocksInTxn => NeverStuck
  BY <1>1
<1> QED
  BY <1>2, TypeCorrect, InvariantHolds, HoldLocksHold, PTL

-----------------------------------------------------------------------------
(* The transactions implement the ledger.                                  *)

\* A hold that found as many rows as it asked for found a row for every leg.
LEMMA CompleteHold ==
  ASSUME TypeOK, HoldAsked, PassedHeld, NEW w \in Workers, At(w, "hold", "write")
  PROVE  /\ req[w].legs # {} /\ req[w].legs \in SUBSET Legs /\ req[w].seat \in Seats
         /\ {req[w].seat} \X req[w].legs \subseteq Rows
<1> DEFINE seat == req[w].seat
           legs == req[w].legs
           want == [legs |-> legs, len |-> req[w].len]
<1>1. want \in LegLists /\ Cardinality(Wanted(w)) = req[w].len
  BY DEF HoldAsked, PassedHeld, At
<1>2. want.legs # {} /\ IsFiniteSet(want.legs) /\ Cardinality(want.legs) <= want.len
  BY <1>1, EngineAssumption
<1>3. legs # {} /\ IsFiniteSet(legs) /\ Cardinality(legs) <= req[w].len
  BY <1>2
<1>4. seat \in Seats /\ legs \in SUBSET Legs /\ req[w].len \in Nat
  BY RequestFields DEF TypeOK, Procs, At
<1> DEFINE all == {seat} \X legs
<1>5. /\ IsFiniteSet(all) /\ Cardinality(all) \in Nat
      /\ Cardinality(all) = Cardinality(legs)
  <2>1. IsFiniteSet({seat}) /\ Cardinality({seat}) = 1
    BY FS_Singleton
  <2>2. IsFiniteSet(all) /\ Cardinality(all) = Cardinality({seat}) * Cardinality(legs)
    BY <1>3, <2>1, FS_Product
  <2>3. Cardinality(legs) \in Nat
    BY <1>3, FS_CardinalityType
  <2> QED
    BY <2>1, <2>2, <2>3
<1>6. Wanted(w) \subseteq all /\ Wanted(w) \subseteq Rows
  <2>1. Wanted(w) = {r \in Rows : r[1] = seat /\ r[2] \in legs}
    BY DEF Wanted, Cover, At
  <2> QED
    BY <2>1, RowIsPair
<1>7. all = Wanted(w)
  <2> HIDE DEF all
  <2>1. Cardinality(Wanted(w)) <= Cardinality(all)
    BY <1>5, <1>6, FS_Subset
  <2>2. Cardinality(all) = Cardinality(Wanted(w))
    BY <1>1, <1>3, <1>4, <1>5, <2>1
  <2> QED
    BY <1>5, <1>6, <2>2, FS_Subset
<1> QED
  BY <1>3, <1>4, <1>6, <1>7

\* What a transaction writes, one operation of the ledger would have written.
LEMMA WritesLedger ==
  ASSUME TypeOK, EngineInv, NEW p \in Procs, now' = now, Writes(p)
  PROVE  Ledger!Next
<1> USE EngineAssumption DEF EngineInv
<1>0. /\ req[p].refs \in SUBSET Refs /\ now \in Int /\ txNow[p] \in Nat
      /\ req[p].kind \in {"hold", "confirm", "release"} =>
           \E h \in Refs : req[p].refs = {h}
  BY RequestFields DEF TypeOK, TablesTypeOK
<1>1. CASE At(p, "hold", "write")
  <2> DEFINE seat == req[p].seat
             legs == req[p].legs
             created == txNow[p]
             expires == req[p].expires
  <2>1. p \in Workers
    BY <1>1, HoldersAreWorkers DEF At
  <2>2. PICK ref \in req[p].refs : WriteHold(ref, seat, legs, created, expires)
    BY <1>1 DEF Writes, At, AllLocked
  <2>3. ref \in Refs /\ ref \notin issued
    BY <1>0, <1>1, <2>1 DEF RefsFit, At
  <2>4. "hold" \in Kinds
    BY <1>1, <2>1 DEF PlacesFit, At
  <2>5. seat \in Seats /\ legs \in SUBSET Legs /\ legs # {} /\ {seat} \X legs \subseteq Rows
    BY <1>1, <2>1, CompleteHold
  <2>6. \A r \in Cover(seat, legs) : Free(r)
    BY <1>1, <2>1 DEF PassedHeld, Wanted, At
  <2>7. created \in 0..now
    BY <1>0 DEF TimesFit
  <2>8. PICK asked \in 0..created : expires \in Expiries(asked)
    BY <1>1, <2>1 DEF HoldAsked, At
  <2>9. Ledger!Hold(ref, seat, legs, created, expires)
    BY <2>2, <2>3, <2>4, <2>5, <2>6 DEF Ledger!Hold, Ledger!Cover, Cover, Ledger!Free,
       Free, Ledger!WriteHold, WriteHold
  <2>10. expires \in Ledger!Expiries(asked)
    BY <2>8 DEF Ledger!Expiries, Expiries
  <2> HIDE DEF seat, legs, created, expires
  <2> QED
    BY <2>3, <2>5, <2>7, <2>8, <2>9, <2>10 DEF Ledger!Next
<1>2. CASE AllLocked(p) /\ req[p].kind = "confirm"
  <2>1. PICK ref \in req[p].refs : WriteBooking(ref, req[p].booking)
    BY <1>2 DEF Writes, At, AllLocked
  <2>2. p \in Workers /\ pc[p] = "lock"
    BY <1>2, HoldersAreWorkers DEF AllLocked
  <2>3. "confirm" \in Kinds
    BY <1>2, <2>2 DEF PlacesFit
  <2>4. ref \in Active /\ ref \in Refs /\ holds[ref].expires_at > txNow[p]
    BY <1>0, <1>2, <2>1, <2>2 DEF SelectedHeld, SelectsHolds
  <2>5. holds[ref].created_at <= txNow[p]
    BY <1>2, <2>1, <2>2, <2>4 DEF TimesFit, Active
  <2>6. holds[ref].expires_at \in Int /\ holds[ref].created_at \in Int
    BY <2>4 DEF TypeOK, TablesTypeOK, HoldRow, Active
  <2>7. holds[ref].expires_at > holds[ref].created_at
    BY <1>0, <2>4, <2>5, <2>6
  <2>8. req[p].booking \in Bookings
    BY <1>2, RequestFields DEF TypeOK
  <2>9. Ledger!Confirm(ref, req[p].booking)
    BY <2>1, <2>3, <2>4, <2>7 DEF Ledger!Confirm, Ledger!Active, Active,
       Ledger!WriteBooking, WriteBooking
  <2> QED
    BY <2>4, <2>8, <2>9 DEF Ledger!Next
<1>3. CASE AllLocked(p) /\ req[p].kind = "release"
  <2>1. PICK ref \in Refs : req[p].refs = {ref}
    BY <1>0, <1>3
  <2>2. DropHolds({ref})
    BY <1>3, <2>1 DEF Writes, At, AllLocked
  <2>3. p \in Workers /\ pc[p] = "lock"
    BY <1>3, HoldersAreWorkers DEF AllLocked
  <2>4. "release" \in Kinds
    BY <1>3, <2>3 DEF PlacesFit
  <2>5. ref \in Active
    BY <1>3, <2>1, <2>3 DEF SelectedHeld, SelectsHolds
  <2>6. Ledger!Release(ref)
    BY <2>2, <2>4, <2>5 DEF Ledger!Release, Ledger!Active, Active, Ledger!DropHolds,
       DropHolds, Ledger!FreeRowsOf, FreeRowsOf, Ledger!DeleteHolds, DeleteHolds,
       Ledger!Restrict, Restrict
  <2> QED
    BY <2>6 DEF Ledger!Next
<1>4. CASE AllLocked(p) /\ req[p].kind = "cancel"
  <2>1. ClearRows(req[p].seat, req[p].legs)
    BY <1>4 DEF Writes, At, AllLocked
  <2>2. "cancel" \in Kinds
    BY <1>4 DEF PlacesFit, AllLocked, Procs
  <2>3. req[p].seat \in Seats /\ req[p].legs \in SUBSET Legs
    BY <1>4, RequestFields DEF TypeOK
  <2>4. Ledger!Cancel(req[p].seat, req[p].legs)
    BY <2>1, <2>2 DEF Ledger!Cancel, Ledger!ClearRows, ClearRows, Ledger!Cover, Cover
  <2> QED
    BY <2>3, <2>4 DEF Ledger!Next
<1>5. CASE AllLocked(p) /\ req[p].kind = "reap"
  <2> DEFINE refs == req[p].refs
  <2>1. FreeRowsOf(refs) /\ DeleteHolds(refs \cap Active)
    BY <1>5 DEF Writes, At, AllLocked
  <2>2. refs \subseteq ExpiredAt(now) /\ Cardinality(refs) <= BatchLimit
    BY <1>5 DEF SelectedHeld, AllLocked
  <2>3. refs \cap Active = refs
    BY <2>2 DEF ExpiredAt
  <2>4. DropHolds(refs)
    BY <2>1, <2>3 DEF DropHolds
  <2>5. Ledger!Reap(refs)
    BY <2>2, <2>4 DEF Ledger!Reap, Ledger!ExpiredAt, ExpiredAt, Ledger!Active, Active,
       Ledger!Cardinality, Cardinality, Ledger!DropHolds, DropHolds, Ledger!FreeRowsOf,
       FreeRowsOf, Ledger!DeleteHolds, DeleteHolds, Ledger!Restrict, Restrict
  <2> QED
    BY <1>0, <2>5 DEF Ledger!Next
<1> QED
  BY <1>1, <1>2, <1>3, <1>4, <1>5 DEF Writes

\* Every step of a handler, a reaper or the clock is a step of the ledger, or
\* leaves its state alone.
LEMMA LedgerStep ==
  ASSUME TypeOK, EngineInv, [Next]_vars
  PROVE  [Ledger!Next]_(Ledger!vars)
<1> USE DEF Ledger!vars, Ledger!tables
<1>1. ASSUME NEW p \in Procs, TxnEnds(p)
      PROVE  Ledger!Next \/ UNCHANGED <<now, tables>>
  BY <1>1, WritesLedger DEF TxnEnds
<1>2. ASSUME NEW p \in Reapers, ReaperStep(p)
      PROVE  Ledger!Next \/ UNCHANGED <<now, tables>>
  <2>1. now' = now /\ (UNCHANGED tables \/ \E skew \in Skews : PurgeHolds(skew))
    BY <1>2, ReaperFrame
  <2>2. ASSUME NEW skew \in Skews, PurgeHolds(skew)
        PROVE  Ledger!Purge(skew)
    BY <2>1, <2>2 DEF Ledger!Purge, Ledger!PurgeHolds, PurgeHolds, Ledger!Purgeable,
       Purgeable, Ledger!Consumed, Consumed, Ledger!Active, Active,
       Ledger!DeleteHolds, DeleteHolds, Ledger!Restrict, Restrict
  <2> QED
    BY <2>1, <2>2 DEF Ledger!Next
<1>3. CASE Background
  BY <1>3 DEF Background, SessionEnds, Tick, vars, Advance, Ledger!Next, Ledger!Tick,
     Ledger!Advance, tables
<1>4. ASSUME NEW w \in Workers, Ask(w) \/ BeginHold(w) \/ HoldPasses(w)
      PROVE  UNCHANGED <<now, tables>>
  BY <1>4, AskFrame
<1>5. ASSUME NEW p \in Procs, NEW r \in Rows, AcquireRow(p, r)
      PROVE  UNCHANGED <<now, tables>>
  BY <1>5, AcquireFrame
<1>6. ASSUME NEW p \in Procs, NEW refs \in SUBSET Refs, Selects(p, refs)
      PROVE  UNCHANGED <<now, tables>>
  BY <1>6, SelectsFrame
<1>7. UNCHANGED <<now, tables>> => UNCHANGED Ledger!vars
  BY DEF tables
<1> QED
  BY <1>1, <1>2, <1>3, <1>4, <1>5, <1>6, <1>7, EngineSteps DEF EngineInv

(***************************************************************************)
(* The handlers and reapers, statement by statement and with everything    *)
(* that can go wrong between two statements, do nothing the atomic ledger  *)
(* of SeatLedger does not do in one step.                                  *)
(***************************************************************************)
THEOREM EngineImplementsLedger == Spec => RefinesLedger
<1>1. Init => Ledger!Init
  BY DEF Init, TablesInit, Ledger!Init, Ledger!TablesInit
<1>2. TypeOK /\ EngineInv /\ [Next]_vars => [Ledger!Next]_(Ledger!vars)
  BY LedgerStep
<1> QED
  BY <1>1, <1>2, TypeCorrect, InvariantHolds, PTL DEF Spec, RefinesLedger, Ledger!Spec

-----------------------------------------------------------------------------
(* So they keep what the ledger keeps.                                     *)

L == INSTANCE SeatLedgerProofs

\* The engine is a behaviour of the ledger that SeatLedgerProofs is about.
LEMMA LedgerSpec == Spec => L!Spec
<1>1. Ledger!Init => L!Init
  BY DEF Ledger!Init, Ledger!TablesInit, L!Init, L!TablesInit
<1>2. [Ledger!Next]_(Ledger!vars) => [L!Next]_(L!vars)
  <2>1. ASSUME NEW ref, NEW seat, NEW legs, NEW created, NEW expires,
               Ledger!Hold(ref, seat, legs, created, expires)
        PROVE  L!Hold(ref, seat, legs, created, expires)
    BY <2>1 DEF Ledger!Hold, L!Hold, Ledger!Cover, L!Cover, Ledger!Free, L!Free,
       Ledger!WriteHold, L!WriteHold
  <2>2. ASSUME NEW ref, NEW booking, Ledger!Confirm(ref, booking)
        PROVE  L!Confirm(ref, booking)
    BY <2>2 DEF Ledger!Confirm, L!Confirm, Ledger!Active, L!Active,
       Ledger!WriteBooking, L!WriteBooking
  <2> USE DEF Ledger!DropHolds, L!DropHolds, Ledger!FreeRowsOf, L!FreeRowsOf,
              Ledger!DeleteHolds, L!DeleteHolds, Ledger!Restrict, L!Restrict,
              Ledger!Active, L!Active
  <2>3. ASSUME NEW ref, Ledger!Release(ref) PROVE L!Release(ref)
    BY <2>3 DEF Ledger!Release, L!Release
  <2>4. ASSUME NEW seat, NEW legs, Ledger!Cancel(seat, legs) PROVE L!Cancel(seat, legs)
    BY <2>4 DEF Ledger!Cancel, L!Cancel, Ledger!ClearRows, L!ClearRows, Ledger!Cover,
       L!Cover
  <2>5. ASSUME NEW refs, Ledger!Reap(refs) PROVE L!Reap(refs)
    BY <2>5 DEF Ledger!Reap, L!Reap, Ledger!ExpiredAt, L!ExpiredAt,
       Ledger!Cardinality, L!Cardinality
  <2>6. ASSUME NEW skew, Ledger!Purge(skew) PROVE L!Purge(skew)
    BY <2>6 DEF Ledger!Purge, L!Purge, Ledger!PurgeHolds, L!PurgeHolds,
       Ledger!Purgeable, L!Purgeable, Ledger!Consumed, L!Consumed
  <2>7. Ledger!Tick => L!Tick
    BY DEF Ledger!Tick, L!Tick, Ledger!Advance, L!Advance, Ledger!tables, L!tables
  <2>8. \A t : Ledger!Expiries(t) = L!Expiries(t)
    BY DEF Ledger!Expiries, L!Expiries
  <2>9. UNCHANGED Ledger!vars => UNCHANGED L!vars
    BY DEF Ledger!vars, Ledger!tables, L!vars, L!tables
  <2> HIDE DEF Ledger!DropHolds, L!DropHolds, Ledger!FreeRowsOf, L!FreeRowsOf,
              Ledger!DeleteHolds, L!DeleteHolds, Ledger!Restrict, L!Restrict,
              Ledger!Active, L!Active
  <2> QED
    BY <2>1, <2>2, <2>3, <2>4, <2>5, <2>6, <2>7, <2>8, <2>9 DEF Ledger!Next, L!Next
<1> QED
  BY <1>1, <1>2, EngineImplementsLedger, PTL
  DEF RefinesLedger, Ledger!Spec, L!Spec

\* The constants are the ledger's.
LEMMA LedgerAssumption == L!TablesAssumption
  BY TablesAssumption DEF L!TablesAssumption, L!AllKinds, AllKinds

(***************************************************************************)
(* In a deployment that never cancels, no interleaving of handlers,        *)
(* reapers, timeouts and failures sells or holds a leg of a seat twice.    *)
(***************************************************************************)
THEOREM SoldOnce ==
  ASSUME "cancel" \notin Kinds
  PROVE  Spec => []NoDoubleSale
<1>1. L!Spec => []L!NoDoubleSale
  BY LedgerAssumption, L!SoldOnce
<1>2. L!NoDoubleSale => NoDoubleSale
  BY DEF L!NoDoubleSale, NoDoubleSale, L!RowsOfHold, RowsOfHold, L!Cover, Cover
<1> QED
  BY <1>1, <1>2, LedgerSpec, PTL

(***************************************************************************)
(* And every seat map shows every hold as it stands, all of it or nothing, *)
(* whichever statements of other transactions it falls between.            *)
(***************************************************************************)
THEOREM SnapshotWhole ==
  ASSUME "cancel" \notin Kinds
  PROVE  Spec => []SnapshotShowsHolds
<1>1. L!Spec => []L!SnapshotShowsHolds
  BY LedgerAssumption, L!SnapshotWhole
<1>2. L!SnapshotShowsHolds => SnapshotShowsHolds
  BY DEF L!SnapshotShowsHolds, SnapshotShowsHolds, L!RowsOfHold, RowsOfHold, L!Cover,
     Cover, L!Snapshot, Snapshot, L!Status, Status, L!SnapshotExpiry, SnapshotExpiry,
     L!Joined, Joined, L!Free, Free, L!Active, Active
<1> QED
  BY <1>1, <1>2, LedgerSpec, PTL

(***************************************************************************)
(* Cancels or not, no interleaving leaves a hold_ref on a row that no      *)
(* active hold covers.                                                     *)
(***************************************************************************)
THEOREM NoOrphans == Spec => []NoOrphanHoldRef
<1>1. L!Spec => []L!NoOrphanHoldRef
  BY LedgerAssumption, L!NoOrphans
<1>2. L!NoOrphanHoldRef => NoOrphanHoldRef
  BY DEF L!NoOrphanHoldRef, NoOrphanHoldRef, L!Active, Active, L!RowsOfHold,
     RowsOfHold, L!Cover, Cover
<1> QED
  BY <1>1, <1>2, LedgerSpec, PTL

(***************************************************************************)
(* Nor does any interleaving leave a row booked and held at once.          *)
(***************************************************************************)
THEOREM NeverBookedAndHeld == Spec => []BookedNeverHeld
<1>1. L!Spec => []L!BookedNeverHeld
  BY LedgerAssumption, L!NeverBookedAndHeld
<1>2. L!BookedNeverHeld => BookedNeverHeld
  BY DEF L!BookedNeverHeld, BookedNeverHeld
<1> QED
  BY <1>1, <1>2, LedgerSpec, PTL

(***************************************************************************)
(* No statement of any transaction alters the row of a confirmed hold, and *)
(* only the reaper's purge removes it, after its retention.                *)
(***************************************************************************)
THEOREM AuditTrail == Spec => L!AuditTrailKept
<1>1. L!Spec => L!AuditTrailKept
  BY LedgerAssumption, L!AuditTrail
<1> QED
  BY <1>1, LedgerSpec

(***************************************************************************)
(* A held row is booked, freed or given to another hold together with its  *)
(* own hold only, or cleared by a cancel, wherever the transactions meet.  *)
(***************************************************************************)
THEOREM RowsFollow == Spec => L!RowsFollowTheirHold
<1>1. L!Spec => L!RowsFollowTheirHold
  BY LedgerAssumption, L!RowsFollow
<1> QED
  BY <1>1, LedgerSpec

(***************************************************************************)
(* The handlers and reapers keep the contract of SeatSale: what callers    *)
(* see of the seats changes as they are told, one operation at a time.     *)
(***************************************************************************)
THEOREM EngineKeepsContract == Spec => L!ImplementsSale
<1>1. L!Spec => L!ImplementsSale
  BY LedgerAssumption, L!LedgerImplementsSale
<1> QED
  BY <1>1, LedgerSpec

(***************************************************************************)
(* Where nobody cancels, a confirm that commits has booked every leg of    *)
(* its hold, however it was interleaved with reapers and other handlers.   *)
(***************************************************************************)
THEOREM ConfirmsBookAll ==
  ASSUME "cancel" \notin Kinds
  PROVE  Spec => ConfirmsBookSeats
<1>1. L!Spec => L!ConfirmBooksSeats
  BY LedgerAssumption, L!ConfirmsBookAll
<1>2. [\A h \in L!Active \cap L!Consumed' :
          \A r \in L!RowsOfHold(h) : inventory'[r].booked]_(L!vars)
      => [\A h \in Ledger!Active \cap Ledger!Consumed' :
            \A r \in Ledger!RowsOfHold(h) : inventory'[r].booked]_(Ledger!vars)
  BY DEF L!Active, Ledger!Active, L!Consumed, Ledger!Consumed, L!RowsOfHold,
         Ledger!RowsOfHold, L!Cover, Ledger!Cover, L!vars, Ledger!vars,
         L!tables, Ledger!tables
<1> QED
  BY <1>1, <1>2, LedgerSpec, PTL
  DEF ConfirmsBookSeats, Ledger!ConfirmBooksSeats, L!ConfirmBooksSeats

=============================================================================
