--------------------------- MODULE SignedApiProofs ---------------------------
(***************************************************************************)
(* The HTTP layer under signed requests, for any number of handlers,       *)
(* services, keys, bodies and clocks: what a cache entry is, how long it   *)
(* stands for its run, and why no request is carried out a second time.    *)
(***************************************************************************)
EXTENDS SignedApi, SequenceTheorems, TLAPS

-----------------------------------------------------------------------------
(* The inductive invariant, by parts.                                      *)

SignedRequests == {Signed(rq, ts) : rq \in Requests(Refs), ts \in Int}

Statuses == {200, 201, 400, 409, 422, 500}

Whats == {"BAD_REQUEST", "INCOMPLETE_INVENTORY", "SEAT_CONFLICT",
          "HOLD_EXPIRED_OR_MISSING", "HOLD_ALREADY_CONSUMED", "error",
          "confirmed", "not_released", "released", "cancelled"} \cup Refs

Responses == [status : Statuses, what : Whats, until : Int]

Finished == [rq : SignedRequests, resp : Responses]

Calls ==
       [at : {"idle"}]
  \cup [at : {"get", "run"}, rq : SignedRequests, since : Nat]
  \cup [at : {"put"}, rq : SignedRequests, resp : Responses]

\* Calls, entries and histories have the expected shape; only keyed requests
\* are looked up, and only some of their responses are stored.
CallsFit ==
  /\ now \in Nat /\ issued \subseteq Refs
  /\ call \in [Workers -> Calls]
  /\ \A w \in Workers : At(w, "get") => call[w].rq.key # NoKey
  /\ \A w \in Workers : At(w, "put") =>
       call[w].rq.key # NoKey /\ Cacheable(call[w].resp)
  /\ ran \in Seq(Finished) /\ times \in Seq(Nat) /\ Len(times) = Len(ran)
  /\ \A i \in 1..Len(ran) : times[i] <= now
  /\ \A k \in DOMAIN cache : cache[k].expires_at \in Int /\ Cacheable(cache[k].resp)

\* A response to be stored, and every entry, is what a run of that key gave
\* to that body.
EntriesOwn ==
  /\ \A w \in Workers : At(w, "put") =>
       \E i \in 1..Len(ran) : ran[i] = [rq |-> call[w].rq, resp |-> call[w].resp]
  /\ \A k \in DOMAIN cache : \E i \in 1..Len(ran) :
       /\ ScopedKey(ran[i].rq) = k
       /\ ran[i].rq.body = cache[k].body /\ ran[i].resp = cache[k].resp

\* Two calls at once under one key are on record.
ContendedNoted ==
  \A v, w \in Workers :
    v # w /\ ~At(v, "idle") /\ ~At(w, "idle") /\ Handled(v) = Handled(w) =>
      Handled(w) \in disturbed

\* A call that was looked up in vain has its key to itself: still no entry.
MissStands ==
  \A w \in Workers :
    /\ call[w].at \in {"run", "put"}
    /\ call[w].rq.key # NoKey
    /\ Handled(w) \notin disturbed
    => ~Live(Handled(w))

\* The window of run i by the engine clock that stored it is over, or there
\* is an entry until then.
Stands(i, skew) ==
  LET k == ScopedKey(ran[i].rq)
      until == times[i] + CacheTtl + skew
  IN  now >= until \/ (k \in DOMAIN cache /\ cache[k].expires_at >= until)

\* A settled run is about to be stored, or stands.
Answered ==
  \A i \in 1..Len(ran) : Settled(i) =>
    \/ \E w \in Workers : At(w, "put") /\ Handled(w) = ScopedKey(ran[i].rq)
    \/ \E skew \in Skews : Stands(i, skew)

\* What the HMAC layer saw to: no request was signed long after its delivery,
\* nor long before it, and it is looked up soon.
SignedInTime ==
  /\ \A w \in Workers : ~At(w, "idle") =>
       \E skew \in Skews : call[w].rq.ts <= now + skew + HmacSkew
  /\ \A w \in Workers : At(w, "get") =>
       /\ now <= call[w].since + LookupTime
       /\ \E skew \in Skews : call[w].since + skew <= call[w].rq.ts + HmacSkew
  /\ \A i \in 1..Len(ran) :
       \E skew \in Skews : ran[i].rq.ts <= times[i] + skew + HmacSkew

\* A request about to run is none that has a settled run.
NotAgain ==
  \A w \in Workers : At(w, "run") /\ Handled(w) \notin disturbed =>
    \A i \in 1..Len(ran) : Settled(i) => ran[i].rq # call[w].rq

SignedInv ==
  CallsFit /\ EntriesOwn /\ ContendedNoted /\ MissStands /\ Answered
  /\ SignedInTime /\ NotAgain /\ OneRunPerKey /\ AtMostOnce

-----------------------------------------------------------------------------
(* Requests, and the kinds of step.                                        *)

\* A request has the reference and the body its kind needs.
LEMMA RequestFields ==
  ASSUME NEW rq \in SignedRequests
  PROVE  /\ rq.ts \in Int
         /\ rq.kind \in {"hold", "confirm", "release", "cancel"}
         /\ rq.kind \in {"hold", "cancel"} =>
              rq.body.seat \in Seats /\ rq.body.legs \in SUBSET Legs
         /\ rq.kind = "hold" => rq.body.ttl \in Ttls
         /\ rq.kind = "confirm" => rq.ref \in Refs /\ rq.body \in Bookings
         /\ rq.kind = "release" => rq.ref \in Refs
<1>1. PICK r \in Requests(Refs), ts \in Int : rq = Signed(r, ts)
  BY DEF SignedRequests
<1>2. rq.ts = ts /\ rq.kind = r.kind /\ rq.ref = r.ref /\ rq.body = r.body
  BY <1>1 DEF Signed
<1>3. CASE r \in HoldRequests
  BY <1>2, <1>3, ApiAssumption DEF HoldRequests, HoldBody
<1>4. CASE r \in CancelRequests
  BY <1>2, <1>4, ApiAssumption DEF CancelRequests
<1>5. CASE r \in ConfirmRequests(Refs)
  BY <1>2, <1>5 DEF ConfirmRequests
<1>6. CASE r \in ReleaseRequests(Refs)
  BY <1>2, <1>6 DEF ReleaseRequests
<1> QED
  BY <1>1, <1>3, <1>4, <1>5, <1>6 DEF Requests

\* A delivered request was signed with a reference the engine has issued.
LEMMA DeliveredFits ==
  ASSUME CallsFit, NEW rq \in Requests(issued), NEW ts \in Timestamps
  PROVE  Signed(rq, ts) \in SignedRequests
<1>1. rq \in Requests(Refs)
  BY DEF CallsFit, Requests, ConfirmRequests, ReleaseRequests
<1>2. ts \in Int
  BY SignedAssumption DEF CallsFit, Timestamps
<1> QED
  BY <1>1, <1>2 DEF SignedRequests

\* What the shape of a call says of its fields.
LEMMA CallFields ==
  ASSUME NEW c \in Calls
  PROVE  /\ c.at \in {"idle", "get", "run", "put"}
         /\ c.at # "idle" => c.rq \in SignedRequests
         /\ c.at \in {"get", "run"} => c.since \in Nat
         /\ c.at = "put" => c.resp \in Responses
  BY DEF Calls

\* A call ends without a run of its handler: it is answered from the cache,
\* its response was not stored, or it was dropped.
Leaves(w) ==
  /\ ~At(w, "idle")
  /\ Goto(w, [at |-> "idle"])
  /\ UNCHANGED <<now, cache, ran>>

\* A handler finishes.
Answers(w) ==
  /\ At(w, "run")
  /\ now' = now
  /\ \E resp \in Responses : Finish(w, resp)

\* The reaper, the clock, and the steps of others.
Background ==
  /\ UNCHANGED <<cache, call, ran>>
  /\ \/ now' = now
     \/ /\ now' = now + 1
        /\ \A w \in Workers : At(w, "get") => now < call[w].since + LookupTime

\* Every step is of one of few kinds, as the cache and the histories see it.
LEMMA ApiSteps ==
  ASSUME CallsFit, SignedNext
  PROVE  /\ \/ \E w \in Workers, rq \in SignedRequests : Deliver(w, rq)
            \/ \E w \in Workers : Leaves(w) \/ Miss(w) \/ Answers(w)
            \/ \E w \in Workers, skew \in Skews : Put(w, skew)
            \/ Sweep
            \/ Background
         /\ Recorded
<1>1. ASSUME NEW w \in Workers, NEW rq \in Requests(issued), NEW ts \in Timestamps,
             Deliver(w, Signed(rq, ts))
      PROVE  \E r \in SignedRequests : Deliver(w, r)
  BY <1>1, DeliveredFits
<1>2. ASSUME NEW w \in Workers,
             Replay(w) \/ Mismatch(w) \/ PutFails(w) \/ Dropped(w)
      PROVE  Leaves(w)
  BY <1>2 DEF Replay, Mismatch, PutFails, Dropped, Leaves, At
<1>3. ASSUME NEW w \in Workers, Handle(w) \/ HandlerFails(w)
      PROVE  Answers(w)
  <2>0. ASSUME NEW status \in Statuses,
               NEW what \in Whats,
               At(w, "run"), now' = now, Respond(w, status, what)
        PROVE  Answers(w)
    BY <2>0 DEF Answers, Respond, Responses
  <2> USE DEF Runs, Statuses, Whats
  <2>1. CASE HoldRefused(w)
    BY <2>0, <2>1 DEF HoldRefused
  <2>2. ASSUME NEW ref \in Refs, HoldMade(w, ref) PROVE Answers(w)
    <3> DEFINE b == call[w].rq.body
    <3>1. call[w].rq \in SignedRequests /\ call[w].rq.kind = "hold"
          /\ call[w].since \in Nat /\ now \in Nat
      BY <2>2, CallFields DEF HoldMade, CallsFit, At
    <3>2. PICK asked \in call[w].since..now, skew \in Skews :
            \E created \in asked..now :
              /\ Ledger!Hold(ref, b.seat, b.legs, created, asked + skew + b.ttl)
              /\ Finish(w, [status |-> 201, what |-> ref, until |-> asked + skew + b.ttl])
      BY <2>2 DEF HoldMade
    <3>3. asked + skew + b.ttl \in Int
      <4>1. b.ttl \in Ttls
        BY <3>1, RequestFields
      <4>2. b.ttl \in Int /\ skew \in Int /\ asked \in Int
        BY <3>1, <3>2, <4>1, TablesAssumption
      <4> HIDE DEF b
      <4> QED
        BY <4>2
    <3>4. now' = now /\ At(w, "run")
      BY <2>2, <3>2 DEF HoldMade, Ledger!Hold
    <3> QED
      BY <3>2, <3>3, <3>4 DEF Answers, Responses
  <2>3. CASE ConfirmRefused(w)
    BY <2>0, <2>3 DEF ConfirmRefused
  <2>4. CASE Confirmed(w)
    BY <2>0, <2>4 DEF Confirmed, Ledger!Confirm
  <2>5. CASE ReleaseMissed(w)
    BY <2>0, <2>5 DEF ReleaseMissed
  <2>6. CASE Released(w)
    BY <2>0, <2>6 DEF Released, Ledger!Release
  <2>7. CASE Cancelled(w)
    BY <2>0, <2>7 DEF Cancelled, Ledger!Cancel
  <2>8. CASE HandlerFails(w)
    BY <2>0, <2>8 DEF HandlerFails
  <2> QED
    BY <1>3, <2>1, <2>2, <2>3, <2>4, <2>5, <2>6, <2>7, <2>8 DEF Handle
<1>4. ASSUME NEW refs \in SUBSET Refs, Reap(refs)
      PROVE  Background
  BY <1>4 DEF Reap, Ledger!Reap, Background
<1>5. ASSUME SignedTick PROVE Background
  BY <1>5 DEF SignedTick, Tick, Ledger!Tick, Ledger!Advance, Background
<1>6. Recorded
  BY DEF SignedNext
<1>7. \/ \E w \in Workers :
           \/ \E rq \in Requests(issued), ts \in Timestamps : Deliver(w, Signed(rq, ts))
           \/ Replay(w) \/ Mismatch(w) \/ Miss(w)
           \/ Handle(w)
           \/ \E skew \in Skews : Put(w, skew)
           \/ HandlerFails(w) \/ PutFails(w) \/ Dropped(w)
      \/ Sweep
      \/ \E refs \in SUBSET Refs : Reap(refs)
      \/ SignedTick
  BY DEF SignedNext
<1> QED
  BY <1>1, <1>2, <1>3, <1>4, <1>5, <1>6, <1>7

-----------------------------------------------------------------------------
(* The tables change as the ledger changes them.                           *)

L == INSTANCE SeatLedgerProofs

\* Under the HTTP layer the tables take a step of the seat ledger, or none.
LEMMA LedgerStep ==
  ASSUME CallsFit, [SignedNext]_signedVars
  PROVE  [L!Next]_(L!vars) /\ issued' \subseteq Refs
<1> USE DEF L!vars, L!tables, tables
<1> DEFINE Goal == (L!Next \/ UNCHANGED L!vars) /\ issued' \subseteq Refs
<1>0. issued \subseteq Refs /\ now \in Nat
  BY DEF CallsFit
<1>a. ASSUME NEW w \in Workers, call[w].at # "idle"
      PROVE  call[w].rq \in SignedRequests
  BY <1>a, CallFields DEF CallsFit
<1>1. ASSUME NEW w \in Workers, NEW ref \in Refs, HoldMade(w, ref)
      PROVE  Goal
  <2> DEFINE b == call[w].rq.body
  <2>1. b.seat \in Seats /\ b.legs \in SUBSET Legs /\ b.ttl \in Ttls
    BY <1>1, <1>a, RequestFields DEF HoldMade, Runs, At
  <2>2. PICK asked \in call[w].since..now, skew \in Skews :
          \E created \in asked..now :
            Ledger!Hold(ref, b.seat, b.legs, created, asked + skew + b.ttl)
    BY <1>1 DEF HoldMade
  <2>a. PICK created \in asked..now :
          Ledger!Hold(ref, b.seat, b.legs, created, asked + skew + b.ttl)
    BY <2>2
  <2>b. call[w].since \in Nat
    BY <1>1, CallFields DEF HoldMade, Runs, At, CallsFit
  <2> HIDE DEF b
  <2>3. L!Hold(ref, b.seat, b.legs, created, asked + skew + b.ttl)
    BY <2>a DEF Ledger!Hold, L!Hold, Ledger!Cover, L!Cover, Ledger!Free, L!Free,
       Ledger!WriteHold, L!WriteHold
  <2>4. /\ created \in 0..now /\ asked \in 0..created
        /\ asked + skew + b.ttl \in L!Expiries(asked)
    <3>1. asked + skew + b.ttl \in L!Expiries(asked)
      BY <2>1 DEF L!Expiries
    <3> QED
      BY <1>0, <2>2, <2>a, <2>b, <3>1
  <2>5. L!Next
    BY <2>1, <2>3, <2>4 DEF L!Next
  <2>6. issued' = issued \cup {ref}
    BY <2>3 DEF L!Hold, L!WriteHold
  <2> QED
    BY <1>0, <2>5, <2>6
<1>2. ASSUME NEW w \in Workers, Confirmed(w)
      PROVE  Goal
  <2> DEFINE rq == call[w].rq
  <2>1. rq.ref \in Refs /\ rq.body \in Bookings
    BY <1>2, <1>a, RequestFields DEF Confirmed, Runs, At
  <2>2. Ledger!Confirm(rq.ref, rq.body)
    BY <1>2 DEF Confirmed
  <2> HIDE DEF rq
  <2>3. L!Confirm(rq.ref, rq.body)
    BY <2>2 DEF Ledger!Confirm, L!Confirm, Ledger!Active, L!Active,
       Ledger!WriteBooking, L!WriteBooking
  <2> QED
    BY <1>0, <2>1, <2>3 DEF L!Next, L!Confirm, L!WriteBooking
<1>3. ASSUME NEW w \in Workers, Released(w)
      PROVE  Goal
  <2> DEFINE ref == call[w].rq.ref
  <2>1. ref \in Refs
    BY <1>3, <1>a, RequestFields DEF Released, Runs, At
  <2>2. Ledger!Release(ref)
    BY <1>3 DEF Released
  <2> HIDE DEF ref
  <2>3. L!Release(ref) /\ issued' = issued
    BY <2>2 DEF Ledger!Release, L!Release, Ledger!Active, L!Active, Ledger!DropHolds,
       L!DropHolds, Ledger!FreeRowsOf, L!FreeRowsOf, Ledger!DeleteHolds, L!DeleteHolds,
       Ledger!Restrict, L!Restrict
  <2> QED
    BY <1>0, <2>1, <2>3 DEF L!Next
<1>4. ASSUME NEW w \in Workers, Cancelled(w)
      PROVE  Goal
  <2> DEFINE b == call[w].rq.body
  <2>1. b.seat \in Seats /\ b.legs \in SUBSET Legs
    BY <1>4, <1>a, RequestFields DEF Cancelled, Runs, At
  <2>2. Ledger!Cancel(b.seat, b.legs)
    BY <1>4 DEF Cancelled
  <2> HIDE DEF b
  <2>3. L!Cancel(b.seat, b.legs) /\ issued' = issued
    BY <2>2 DEF Ledger!Cancel, L!Cancel, Ledger!ClearRows, L!ClearRows, Ledger!Cover,
       L!Cover
  <2> QED
    BY <1>0, <2>1, <2>3 DEF L!Next
<1>5. ASSUME NEW refs \in SUBSET Refs, Reap(refs)
      PROVE  Goal
  <2>1. L!Reap(refs) /\ issued' = issued
    BY <1>5 DEF Reap, Ledger!Reap, L!Reap, Ledger!ExpiredAt, L!ExpiredAt,
       Ledger!Active, L!Active, Ledger!Cardinality, L!Cardinality, Ledger!DropHolds,
       L!DropHolds, Ledger!FreeRowsOf, L!FreeRowsOf, Ledger!DeleteHolds, L!DeleteHolds,
       Ledger!Restrict, L!Restrict
  <2> QED
    BY <1>0, <2>1 DEF L!Next
<1>6. ASSUME SignedTick
      PROVE  Goal
  BY <1>0, <1>6 DEF SignedTick, Tick, Ledger!Tick, Ledger!Advance, Ledger!tables,
     L!Tick, L!Advance, L!Next
<1>7. ASSUME UNCHANGED <<now, tables>>
      PROVE  Goal
  BY <1>0, <1>7
<1>8. ASSUME NEW w \in Workers,
             HoldRefused(w) \/ ConfirmRefused(w) \/ ReleaseMissed(w) \/ HandlerFails(w)
      PROVE  UNCHANGED <<now, tables>>
  BY <1>8 DEF HoldRefused, ConfirmRefused, ReleaseMissed, HandlerFails
<1>9. ASSUME NEW w \in Workers, NEW rq, Deliver(w, rq)
      PROVE  UNCHANGED <<now, tables>>
  BY <1>9 DEF Deliver, Send
<1>10. ASSUME NEW w \in Workers,
              \/ Replay(w) \/ Mismatch(w) \/ Miss(w) \/ PutFails(w) \/ Dropped(w)
              \/ \E skew \in Skews : Put(w, skew)
       PROVE  UNCHANGED <<now, tables>>
  BY <1>10 DEF Replay, Mismatch, Miss, PutFails, Dropped, Put
<1>11. Sweep \/ UNCHANGED signedVars => UNCHANGED <<now, tables>>
  BY DEF Sweep, signedVars, vars
<1> HIDE DEF Goal
<1>12. SignedNext => Goal
  BY <1>1, <1>2, <1>3, <1>4, <1>5, <1>6, <1>7, <1>8, <1>9, <1>10, <1>11
  DEF SignedNext, Handle
<1> QED
  BY <1>7, <1>11, <1>12 DEF Goal

-----------------------------------------------------------------------------
(* Shapes.                                                                 *)

\* What a finished handler adds to the histories and leaves to be stored.
LEMMA AnswerEffect ==
  ASSUME CallsFit, Recorded, NEW w \in Workers, Answers(w)
  PROVE  \E resp \in Responses :
           LET run == [rq |-> call[w].rq, resp |-> resp] IN
           /\ run \in Finished
           /\ ran' = Append(ran, run) /\ times' = Append(times, now)
           /\ Len(ran') = Len(ran) + 1 /\ Len(times') = Len(times) + 1
           /\ \A i \in 1..Len(ran) : ran'[i] = ran[i] /\ times'[i] = times[i]
           /\ ran'[Len(ran')] = run /\ times'[Len(ran')] = now
           /\ Len(ran) < MaxRuns
           /\ call' = [call EXCEPT ![w] =
                         IF call[w].rq.key # NoKey /\ Cacheable(resp)
                         THEN [at |-> "put", rq |-> call[w].rq, resp |-> resp]
                         ELSE [at |-> "idle"]]
           /\ cache' = cache /\ now' = now
<1>1. PICK resp \in Responses : Finish(w, resp)
  BY DEF Answers
<1> DEFINE run == [rq |-> call[w].rq, resp |-> resp]
<1>2. resp \in Responses /\ call[w].rq \in SignedRequests
  BY CallFields DEF Answers, At, CallsFit
<1>3. run \in Finished
  BY <1>2 DEF Finished
<1>4. /\ ran' = Append(ran, run) /\ cache' = cache /\ now' = now
      /\ Len(ran) < MaxRuns
      /\ call' = [call EXCEPT ![w] =
                    IF call[w].rq.key # NoKey /\ Cacheable(resp)
                    THEN [at |-> "put", rq |-> call[w].rq, resp |-> resp]
                    ELSE [at |-> "idle"]]
  BY <1>1 DEF Finish, Goto, Answers
<1> HIDE DEF run
<1>5. /\ Len(ran') = Len(ran) + 1 /\ ran'[Len(ran')] = run
      /\ \A i \in 1..Len(ran) : ran'[i] = ran[i]
  BY <1>3, <1>4 DEF CallsFit
<1>6. times' = Append(times, now)
  BY <1>5 DEF Recorded, CallsFit
<1>7. /\ Len(times') = Len(times) + 1 /\ times'[Len(ran')] = now
      /\ \A i \in 1..Len(ran) : times'[i] = times[i]
  BY <1>5, <1>6 DEF CallsFit
<1> QED
  BY <1>2, <1>3, <1>4, <1>5, <1>6, <1>7 DEF run

\* The other steps leave the histories alone.
LEMMA QuietSteps ==
  ASSUME Recorded, ran' = ran
  PROVE  times' = times
  BY DEF Recorded

\* Every step keeps the shapes.
LEMMA CallsStep ==
  ASSUME CallsFit, [SignedNext]_signedVars
  PROVE  CallsFit'
<1> USE DEF At
<1>0. issued' \subseteq Refs
  BY LedgerStep
<1>a. ASSUME NEW w \in Workers, NEW c \in Calls, Goto(w, c),
             c.at = "get" => c.rq.key # NoKey,
             c.at = "put" => c.rq.key # NoKey /\ Cacheable(c.resp)
      PROVE  /\ call' \in [Workers -> Calls]
             /\ \A v \in Workers : call'[v].at = "get" => call'[v].rq.key # NoKey
             /\ \A v \in Workers : call'[v].at = "put" =>
                  call'[v].rq.key # NoKey /\ Cacheable(call'[v].resp)
  BY <1>a DEF CallsFit, Goto
<1>b. [at |-> "idle"] \in Calls
  BY DEF Calls
<1>1. ASSUME NEW w \in Workers, NEW rq \in SignedRequests, Deliver(w, rq), Recorded
      PROVE  CallsFit'
  <2> DEFINE c == [at |-> IF rq.key = NoKey THEN "run" ELSE "get",
                   rq |-> rq, since |-> now]
  <2>1. c \in Calls
    BY DEF Calls, CallsFit
  <2>2. Goto(w, c) /\ UNCHANGED <<now, cache, ran>>
    BY <1>1 DEF Deliver, Send
  <2>3. (c.at = "get" => c.rq.key # NoKey) /\ c.at # "put"
    OBVIOUS
  <2> HIDE DEF c
  <2> QED
    BY <1>0, <1>1, <1>a, <2>1, <2>2, <2>3, QuietSteps DEF CallsFit
<1>2. ASSUME NEW w \in Workers, Leaves(w), Recorded
      PROVE  CallsFit'
  BY <1>0, <1>2, <1>a, <1>b, QuietSteps DEF CallsFit, Leaves
<1>3. ASSUME NEW w \in Workers, Miss(w), Recorded
      PROVE  CallsFit'
  <2> DEFINE c == [call[w] EXCEPT !.at = "run", !.since = now]
  <2>1. c \in Calls /\ c.at = "run"
    BY <1>3 DEF Miss, CallsFit, Calls
  <2>2. Goto(w, c) /\ UNCHANGED <<now, cache, ran>>
    BY <1>3 DEF Miss
  <2> HIDE DEF c
  <2> QED
    BY <1>0, <1>3, <1>a, <2>1, <2>2, QuietSteps DEF CallsFit
<1>4. ASSUME NEW w \in Workers, Answers(w), Recorded
      PROVE  CallsFit'
  <2>1. PICK resp \in Responses :
          LET run == [rq |-> call[w].rq, resp |-> resp] IN
          /\ run \in Finished
          /\ ran' = Append(ran, run) /\ times' = Append(times, now)
          /\ Len(ran') = Len(ran) + 1 /\ Len(times') = Len(times) + 1
          /\ \A i \in 1..Len(ran) : times'[i] = times[i]
          /\ times'[Len(ran')] = now
          /\ call' = [call EXCEPT ![w] =
                        IF call[w].rq.key # NoKey /\ Cacheable(resp)
                        THEN [at |-> "put", rq |-> call[w].rq, resp |-> resp]
                        ELSE [at |-> "idle"]]
          /\ cache' = cache /\ now' = now
    BY <1>4, AnswerEffect
  <2> DEFINE c == IF call[w].rq.key # NoKey /\ Cacheable(resp)
                  THEN [at |-> "put", rq |-> call[w].rq, resp |-> resp]
                  ELSE [at |-> "idle"]
  <2>2. c \in Calls /\ c.at # "get"
        /\ (c.at = "put" => c.rq.key # NoKey /\ Cacheable(c.resp))
    BY <1>4, CallFields DEF Calls, CallsFit, Answers
  <2>3. Goto(w, c)
    BY <2>1 DEF Goto
  <2>4. ran' \in Seq(Finished) /\ times' \in Seq(Nat) /\ Len(times') = Len(ran')
    BY <2>1 DEF CallsFit
  <2>5. \A i \in 1..Len(ran') : times'[i] <= now'
    BY <2>1 DEF CallsFit
  <2> HIDE DEF c
  <2> QED
    BY <1>0, <1>a, <2>1, <2>2, <2>3, <2>4, <2>5 DEF CallsFit
<1>5. ASSUME NEW w \in Workers, NEW skew \in Skews, Put(w, skew), Recorded
      PROVE  CallsFit'
  <2> DEFINE k == ScopedKey(call[w].rq)
  <2>1. /\ Goto(w, [at |-> "idle"]) /\ UNCHANGED <<now, ran>>
        /\ cache' = [x \in DOMAIN cache \cup {k} |->
                       IF x = k /\ ~Live(k) THEN Entry(w, skew) ELSE cache[x]]
        /\ call[w].at = "put"
    BY <1>5 DEF Put
  <2>2. Entry(w, skew).expires_at \in Int /\ Cacheable(Entry(w, skew).resp)
    BY <2>1, TablesAssumption, ApiAssumption DEF Entry, CallsFit
  <2>3. \A x \in DOMAIN cache' :
          cache'[x].expires_at \in Int /\ Cacheable(cache'[x].resp)
    <3> SUFFICES ASSUME NEW x \in DOMAIN cache'
                 PROVE  cache'[x].expires_at \in Int /\ Cacheable(cache'[x].resp)
      OBVIOUS
    <3>1. cache'[x] = Entry(w, skew) \/ (x \in DOMAIN cache /\ cache'[x] = cache[x])
      BY <2>1 DEF Live
    <3> QED
      BY <2>2, <3>1 DEF CallsFit
  <2> QED
    BY <1>0, <1>5, <1>a, <1>b, <2>1, <2>3, QuietSteps DEF CallsFit
<1>6. ASSUME Sweep, Recorded
      PROVE  CallsFit'
  <2>1. /\ UNCHANGED <<now, call, ran>> /\ DOMAIN cache' \subseteq DOMAIN cache
        /\ \A x \in DOMAIN cache' : cache'[x] = cache[x]
    BY <1>6 DEF Sweep, Restrict
  <2> QED
    BY <1>0, <1>6, <2>1, QuietSteps DEF CallsFit
<1>7. ASSUME Background, Recorded
      PROVE  CallsFit'
  BY <1>0, <1>7, QuietSteps DEF CallsFit, Background
<1>8. CASE UNCHANGED signedVars
  BY <1>0, <1>8 DEF CallsFit, signedVars, vars
<1> QED
  BY <1>1, <1>2, <1>3, <1>4, <1>5, <1>6, <1>7, <1>8, ApiSteps

\* The shapes hold at first: no call, no entry, no run.
LEMMA InitFits == SignedInit => CallsFit
  BY DEF SignedInit, Init, TablesInit, CallsFit, Calls, At

\* The shapes always hold.
LEMMA CallsInvariant == SignedSpec => []CallsFit
<1>1. CallsFit /\ [SignedNext]_signedVars => CallsFit'
  BY CallsStep
<1> QED
  BY <1>1, InitFits, PTL DEF SignedSpec

\* Runs and failures stay within their bounds.
LEMMA BoundsStep ==
  ASSUME CallsFit, Len(ran) <= MaxRuns, faults \in 0..MaxFaults,
         [SignedNext]_signedVars
  PROVE  Len(ran') <= MaxRuns /\ faults' \in 0..MaxFaults
<1> USE ApiAssumption
<1>1. Len(ran') <= MaxRuns
  <2>1. ASSUME NEW w \in Workers, Answers(w), Recorded
        PROVE  Len(ran') <= MaxRuns
    <3>1. Len(ran') = Len(ran) + 1 /\ Len(ran) < MaxRuns
      BY <2>1, AnswerEffect
    <3>2. Len(ran) \in Nat
      BY DEF CallsFit
    <3> QED
      BY <3>1, <3>2
  <2>2. ran' = ran => Len(ran') <= MaxRuns
    OBVIOUS
  <2>3. ASSUME NEW w \in Workers
        PROVE  /\ \A rq : Deliver(w, rq) => ran' = ran
               /\ Leaves(w) \/ Miss(w) => ran' = ran
               /\ \A skew : Put(w, skew) => ran' = ran
    BY DEF Deliver, Send, Leaves, Miss, Put
  <2>4. Sweep \/ Background \/ UNCHANGED signedVars => ran' = ran
    BY DEF Sweep, Background, signedVars, vars
  <2> QED
    BY <2>1, <2>2, <2>3, <2>4, ApiSteps
<1>2. faults' = faults \/ Fault
  <2>1. ASSUME NEW w \in Workers, Handle(w) PROVE faults' = faults
    BY <2>1 DEF Handle, HoldRefused, HoldMade, ConfirmRefused, Confirmed, ReleaseMissed,
       Released, Cancelled
  <2>2. ASSUME NEW w \in Workers, HandlerFails(w) \/ PutFails(w) \/ Dropped(w)
        PROVE  Fault
    BY <2>2 DEF HandlerFails, PutFails, Dropped
  <2>3. ASSUME NEW w \in Workers
        PROVE  /\ \A rq : Deliver(w, rq) => faults' = faults
               /\ Replay(w) \/ Mismatch(w) \/ Miss(w) => faults' = faults
               /\ \A skew : Put(w, skew) => faults' = faults
    BY DEF Deliver, Send, Replay, Mismatch, Miss, Put
  <2>4. ASSUME NEW refs, Reap(refs) PROVE faults' = faults
    BY <2>4 DEF Reap
  <2>5. Sweep \/ SignedTick \/ UNCHANGED signedVars => faults' = faults
    BY DEF Sweep, SignedTick, Tick, signedVars, vars
  <2> QED
    BY <2>1, <2>2, <2>3, <2>4, <2>5 DEF SignedNext
<1> QED
  BY <1>1, <1>2 DEF Fault

\* The HTTP layer is a behaviour of the ledger that SeatLedgerProofs is about.
LEMMA LedgerSpec == SignedSpec => L!Spec
<1>1. SignedInit => L!Init
  BY DEF SignedInit, Init, TablesInit, L!Init, L!TablesInit
<1>2. CallsFit /\ [SignedNext]_signedVars => [L!Next]_(L!vars)
  BY LedgerStep
<1> QED
  BY <1>1, <1>2, CallsInvariant, PTL DEF SignedSpec, L!Spec

\* The constants are the ledger's.
LEMMA LedgerAssumption == L!TablesAssumption
  BY TablesAssumption DEF L!TablesAssumption, L!AllKinds, AllKinds

(***************************************************************************)
(* The tables keep their schema under the HTTP layer, only answers that    *)
(* can be stored are in the cache, and every run has its time.             *)
(***************************************************************************)
THEOREM TypeCorrect == SignedSpec => []TypeOK
<1> DEFINE Bounds == Len(ran) <= MaxRuns /\ faults \in 0..MaxFaults
<1>1. SignedInit => Bounds
  BY ApiAssumption DEF SignedInit, Init
<1>2. CallsFit /\ Bounds /\ [SignedNext]_signedVars => Bounds'
  BY BoundsStep
<1>3. L!Spec => []L!TypeOK
  BY LedgerAssumption, L!TypeCorrect
<1>4. CallsFit /\ Bounds /\ L!TypeOK => TypeOK
  BY DEF L!TypeOK, L!TablesTypeOK, TablesTypeOK, L!InventoryRow, InventoryRow,
     L!HoldRow, HoldRow, TypeOK, CallsFit
<1> QED
  BY <1>1, <1>2, <1>3, <1>4, CallsInvariant, LedgerSpec, PTL DEF SignedSpec

(***************************************************************************)
(* Retries, late duplicates and dropped requests included, the seats       *)
(* change only as the contract of SeatSale allows.                         *)
(***************************************************************************)
THEOREM ApiKeepsContract == SignedSpec => L!ImplementsSale
<1>1. L!Spec => L!ImplementsSale
  BY LedgerAssumption, L!LedgerImplementsSale
<1> QED
  BY <1>1, LedgerSpec

-----------------------------------------------------------------------------
(* The cache.                                                              *)

\* A store answers its key with a live entry, and leaves the others alone.
LEMMA PutEffect ==
  ASSUME CallsFit, NEW w \in Workers, NEW skew \in Skews, Put(w, skew)
  PROVE  LET k == ScopedKey(call[w].rq) IN
         /\ DOMAIN cache' = DOMAIN cache \cup {k}
         /\ \A x \in DOMAIN cache : x # k \/ Live(k) => cache'[x] = cache[x]
         /\ ~Live(k) => /\ cache'[k] = Entry(w, skew)
                        /\ cache'[k].expires_at = now + skew + CacheTtl
         /\ cache'[k].expires_at > now
         /\ now' = now /\ ran' = ran /\ Goto(w, [at |-> "idle"]) /\ At(w, "put")
<1> DEFINE k == ScopedKey(call[w].rq)
<1>1. /\ cache' = [x \in DOMAIN cache \cup {k} |->
                     IF x = k /\ ~Live(k) THEN Entry(w, skew) ELSE cache[x]]
      /\ now' = now /\ ran' = ran /\ Goto(w, [at |-> "idle"]) /\ At(w, "put")
  BY DEF Put
<1> HIDE DEF k
<1>2. Entry(w, skew).expires_at = now + skew + CacheTtl
  BY DEF Entry
<1>3. now + skew + CacheTtl > now
  BY SignedAssumption, TablesAssumption, ApiAssumption DEF CallsFit
<1>4. ~Live(k) => cache'[k] = Entry(w, skew)
  BY <1>1
<1>5. Live(k) => cache'[k].expires_at > now
  BY <1>1 DEF Live
<1>6. \A x \in DOMAIN cache : x # k \/ Live(k) => cache'[x] = cache[x]
  BY <1>1
<1> QED
  BY <1>1, <1>2, <1>3, <1>4, <1>5, <1>6 DEF k

\* A step that is no store keeps the cache, or drops entries that are over.
LEMMA OtherSteps ==
  ASSUME CallsFit, [SignedNext]_signedVars,
         \A w \in Workers, skew \in Skews : ~Put(w, skew)
  PROVE  /\ DOMAIN cache' \subseteq DOMAIN cache
         /\ \A k \in DOMAIN cache' : cache'[k] = cache[k]
         /\ \A k \in DOMAIN cache : Live(k) => k \in DOMAIN cache'
<1>1. Sweep => /\ DOMAIN cache' = {k \in DOMAIN cache : Live(k)}
               /\ \A k \in DOMAIN cache' : cache'[k] = cache[k]
  BY DEF Sweep, Restrict
<1>2. ASSUME NEW w \in Workers
      PROVE  /\ \A rq : Deliver(w, rq) => cache' = cache
             /\ Leaves(w) \/ Miss(w) \/ Answers(w) => cache' = cache
  BY DEF Deliver, Send, Leaves, Miss, Answers, Finish
<1>3. Background \/ UNCHANGED signedVars => cache' = cache
  BY DEF Background, signedVars, vars
<1> QED
  BY <1>1, <1>2, <1>3, ApiSteps

\* No step changes or drops a live entry.
LEMMA LiveKept ==
  ASSUME CallsFit, [SignedNext]_signedVars, NEW k \in DOMAIN cache, Live(k)
  PROVE  k \in DOMAIN cache' /\ cache'[k] = cache[k]
<1>1. ASSUME NEW w \in Workers, NEW skew \in Skews, Put(w, skew)
      PROVE  k \in DOMAIN cache' /\ cache'[k] = cache[k]
  BY <1>1, PutEffect
<1> QED
  BY <1>1, OtherSteps

(***************************************************************************)
(* A live entry never changes, however slow the duplicate that comes to    *)
(* store a second response.                                                *)
(***************************************************************************)
THEOREM LiveEntriesStay == SignedSpec => LiveEntryKept
<1> DEFINE Kept == \A k \in DOMAIN cache : Live(k) =>
                     k \in DOMAIN cache' /\ cache'[k] = cache[k]
<1>1. CallsFit /\ [SignedNext]_signedVars => Kept
  BY LiveKept
<1> HIDE DEF Kept
<1>2. Kept => [Kept]_vars
  OBVIOUS
<1> QED
  BY <1>1, <1>2, CallsInvariant, PTL DEF SignedSpec, LiveEntryKept, Kept

(***************************************************************************)
(* After a store the key has a live entry, whatever was there before.      *)
(***************************************************************************)
THEOREM StoresAreFound == SignedSpec => StoredIsFound
<1> DEFINE Found == \A w \in Workers, skew \in Skews :
                      LET k == ScopedKey(call[w].rq) IN
                      Put(w, skew) => k \in DOMAIN cache' /\ cache'[k].expires_at > now'
<1>1. CallsFit => Found
  BY PutEffect
<1> HIDE DEF Found
<1>2. Found => [Found]_vars
  OBVIOUS
<1> QED
  BY <1>1, <1>2, CallsInvariant, PTL DEF StoredIsFound, Found

-----------------------------------------------------------------------------
(* What happens to one call, and to the histories.                         *)

\* What a step can do to one call.
LEMMA CallMoves ==
  ASSUME CallsFit, [SignedNext]_signedVars, NEW w \in Workers
  PROVE  \/ call'[w] = call[w]
         \/ ~At(w, "idle") /\ call'[w].at = "idle"
         \/ /\ At(w, "idle") /\ UNCHANGED <<now, cache, ran>>
            /\ \E rq \in SignedRequests :
                 /\ call'[w].at = IF rq.key = NoKey THEN "run" ELSE "get"
                 /\ call'[w].rq = rq /\ call'[w].since = now
                 /\ \E skew \in Skews : Verified(rq, now + skew)
         \/ /\ Miss(w) /\ UNCHANGED <<now, cache, ran>>
            /\ call'[w].at = "run" /\ call'[w].rq = call[w].rq
         \/ /\ Answers(w) /\ Recorded /\ UNCHANGED <<now, cache>>
            /\ call'[w].at = "put" /\ call'[w].rq = call[w].rq
<1> USE DEF Goto, At
<1>0. call \in [Workers -> Calls]
  BY DEF CallsFit
<1>1. ASSUME NEW v \in Workers, NEW rq \in SignedRequests, Deliver(v, rq), v = w
      PROVE  /\ At(w, "idle") /\ UNCHANGED <<now, cache, ran>>
             /\ call'[w].at = IF rq.key = NoKey THEN "run" ELSE "get"
             /\ call'[w].rq = rq /\ call'[w].since = now
             /\ \E skew \in Skews : Verified(rq, now + skew)
  BY <1>0, <1>1 DEF Deliver, Send
<1>2. ASSUME NEW v \in Workers, NEW c, Goto(v, c), v # w
      PROVE  call'[w] = call[w]
  BY <1>0, <1>2
<1>3. ASSUME NEW v \in Workers, v # w,
             \/ \E rq \in SignedRequests : Deliver(v, rq)
             \/ Leaves(v) \/ Miss(v) \/ Answers(v)
             \/ \E skew \in Skews : Put(v, skew)
      PROVE  call'[w] = call[w]
  BY <1>2, <1>3 DEF Deliver, Send, Leaves, Miss, Answers, Finish, Put
<1>4. Leaves(w) \/ (\E skew \in Skews : Put(w, skew)) =>
        ~At(w, "idle") /\ call'[w].at = "idle"
  BY <1>0 DEF Leaves, Put
<1>5. ASSUME Miss(w)
      PROVE  /\ UNCHANGED <<now, cache, ran>>
             /\ call'[w].at = "run" /\ call'[w].rq = call[w].rq
  BY <1>0, <1>5 DEF Miss, Calls
<1>6. ASSUME Answers(w), Recorded
      PROVE  \/ ~At(w, "idle") /\ call'[w].at = "idle"
             \/ /\ Answers(w) /\ UNCHANGED <<now, cache>>
                /\ call'[w].at = "put" /\ call'[w].rq = call[w].rq
  <2>1. PICK resp \in Responses : Finish(w, resp) /\ now' = now /\ At(w, "run")
    BY <1>6 DEF Answers
  <2>2. /\ call'[w] = IF call[w].rq.key # NoKey /\ Cacheable(resp)
                      THEN [at |-> "put", rq |-> call[w].rq, resp |-> resp]
                      ELSE [at |-> "idle"]
        /\ cache' = cache
    BY <1>0, <2>1 DEF Finish
  <2> QED
    BY <1>6, <2>1, <2>2
<1>7. Sweep \/ Background \/ UNCHANGED signedVars => call'[w] = call[w]
  BY DEF Sweep, Background, signedVars, vars
<1> QED
  BY <1>1, <1>3, <1>4, <1>5, <1>6, <1>7, ApiSteps

\* The histories only grow, by one run at most.
LEMMA HistoryGrows ==
  ASSUME CallsFit, [SignedNext]_signedVars
  PROVE  /\ Len(ran) \in Nat
         /\ \A i \in 1..Len(ran) : ran'[i] = ran[i] /\ times'[i] = times[i]
         /\ disturbed \subseteq disturbed'
         /\ now' \in Nat /\ now' >= now
         /\ \/ Len(ran') = Len(ran)
            \/ /\ Len(ran') = Len(ran) + 1
               /\ \E w \in Workers, resp \in Responses :
                    /\ Answers(w) /\ now' = now
                    /\ ran'[Len(ran')] = [rq |-> call[w].rq, resp |-> resp]
                    /\ times'[Len(ran')] = now
                    /\ call'[w] = IF call[w].rq.key # NoKey /\ Cacheable(resp)
                                  THEN [at |-> "put", rq |-> call[w].rq, resp |-> resp]
                                  ELSE [at |-> "idle"]
<1> USE DEF CallsFit
<1>1. ASSUME NEW w \in Workers, Answers(w), Recorded
      PROVE  /\ \A i \in 1..Len(ran) : ran'[i] = ran[i] /\ times'[i] = times[i]
             /\ Len(ran') = Len(ran) + 1
             /\ now' = now
             /\ \E resp \in Responses :
                  /\ ran'[Len(ran')] = [rq |-> call[w].rq, resp |-> resp]
                  /\ times'[Len(ran')] = now
                  /\ call'[w] = IF call[w].rq.key # NoKey /\ Cacheable(resp)
                                THEN [at |-> "put", rq |-> call[w].rq, resp |-> resp]
                                ELSE [at |-> "idle"]
  BY <1>1, AnswerEffect
<1>2. ASSUME NEW w \in Workers
      PROVE  /\ \A rq : Deliver(w, rq) => UNCHANGED <<ran, now>>
             /\ Leaves(w) \/ Miss(w) => UNCHANGED <<ran, now>>
             /\ \A skew : Put(w, skew) => UNCHANGED <<ran, now>>
  BY DEF Deliver, Send, Leaves, Miss, Put
<1>3. Sweep \/ Background \/ UNCHANGED signedVars =>
        ran' = ran /\ (now' = now \/ now' = now + 1)
  BY DEF Sweep, Background, signedVars, vars
<1>4. Recorded => disturbed \subseteq disturbed'
  BY DEF Recorded
<1>5. UNCHANGED signedVars => UNCHANGED <<disturbed, times>>
  BY DEF signedVars
<1>6. Recorded \/ UNCHANGED signedVars
  BY DEF SignedNext
<1>7. \/ ran' = ran /\ (now' = now \/ now' = now + 1)
      \/ Recorded /\ \E w \in Workers : Answers(w)
  BY <1>2, <1>3, ApiSteps
<1>8. CASE ran' = ran /\ (now' = now \/ now' = now + 1)
  BY <1>4, <1>5, <1>6, <1>8, QuietSteps
<1>9. CASE Recorded /\ \E w \in Workers : Answers(w)
  BY <1>1, <1>4, <1>9
<1> QED
  BY <1>7, <1>8, <1>9

-----------------------------------------------------------------------------
(* Entries are responses of runs.                                          *)

\* Every step keeps responses and entries those of runs.
LEMMA EntriesStep ==
  ASSUME CallsFit, EntriesOwn, [SignedNext]_signedVars
  PROVE  EntriesOwn'
<1> USE DEF At
<1>0. /\ Len(ran) \in Nat /\ Len(ran') \in Nat /\ Len(ran') >= Len(ran)
      /\ \A i \in 1..Len(ran) : ran'[i] = ran[i]
  BY HistoryGrows
<1>1. ASSUME NEW w \in Workers, call'[w].at = "put"
      PROVE  \E i \in 1..Len(ran') : ran'[i] = [rq |-> call'[w].rq, resp |-> call'[w].resp]
  <2>1. CASE call'[w] = call[w]
    <3>1. PICK i \in 1..Len(ran) : ran[i] = [rq |-> call[w].rq, resp |-> call[w].resp]
      BY <1>1, <2>1 DEF EntriesOwn
    <3>2. i \in 1..Len(ran') /\ ran'[i] = ran[i]
      BY <1>0
    <3> QED
      BY <2>1, <3>1, <3>2
  <2>2. CASE Answers(w) /\ Recorded
    <3>1. PICK resp \in Responses :
            /\ Len(ran') = Len(ran) + 1
            /\ ran'[Len(ran')] = [rq |-> call[w].rq, resp |-> resp]
            /\ call' = [call EXCEPT ![w] =
                          IF call[w].rq.key # NoKey /\ Cacheable(resp)
                          THEN [at |-> "put", rq |-> call[w].rq, resp |-> resp]
                          ELSE [at |-> "idle"]]
      BY <2>2, AnswerEffect
    <3>2. call'[w] = [at |-> "put", rq |-> call[w].rq, resp |-> resp]
      BY <1>1, <3>1 DEF CallsFit
    <3>3. Len(ran') \in 1..Len(ran')
      BY <1>0, <3>1
    <3> QED
      BY <3>1, <3>2, <3>3
  <2> QED
    BY <1>1, <2>1, <2>2, CallMoves
<1>2. ASSUME NEW k \in DOMAIN cache', k \in DOMAIN cache, cache'[k] = cache[k]
      PROVE  \E i \in 1..Len(ran') : /\ ScopedKey(ran'[i].rq) = k
                                     /\ ran'[i].rq.body = cache'[k].body
                                     /\ ran'[i].resp = cache'[k].resp
  <2>1. PICK i \in 1..Len(ran) : /\ ScopedKey(ran[i].rq) = k
                                 /\ ran[i].rq.body = cache[k].body
                                 /\ ran[i].resp = cache[k].resp
    BY <1>2 DEF EntriesOwn
  <2>2. i \in 1..Len(ran') /\ ran'[i] = ran[i]
    BY <1>0
  <2> QED
    BY <1>2, <2>1, <2>2
<1>3. ASSUME NEW k \in DOMAIN cache', ~(k \in DOMAIN cache /\ cache'[k] = cache[k])
      PROVE  \E i \in 1..Len(ran') : /\ ScopedKey(ran'[i].rq) = k
                                     /\ ran'[i].rq.body = cache'[k].body
                                     /\ ran'[i].resp = cache'[k].resp
  <2>1. PICK w \in Workers, skew \in Skews : Put(w, skew)
    BY <1>3, OtherSteps
  <2>2. /\ k = ScopedKey(call[w].rq) /\ cache'[k] = Entry(w, skew)
        /\ ran' = ran /\ call[w].at = "put"
    BY <1>3, <2>1, PutEffect DEF Live
  <2>3. PICK i \in 1..Len(ran) : ran[i] = [rq |-> call[w].rq, resp |-> call[w].resp]
    BY <2>2 DEF EntriesOwn
  <2>4. ran[i].rq = call[w].rq /\ ran[i].resp = call[w].resp
    BY <2>3
  <2>5. cache'[k].body = call[w].rq.body /\ cache'[k].resp = call[w].resp
    BY <2>2 DEF Entry
  <2> QED
    BY <2>2, <2>4, <2>5
<1> QED
  BY <1>1, <1>2, <1>3 DEF EntriesOwn

(***************************************************************************)
(* Whatever is replayed was answered by a handler to the same request of   *)
(* the same service; no key of one caller or endpoint reaches another's.   *)
(***************************************************************************)
THEOREM ReplaysOwn == SignedSpec => ReplayIsOwnResponse
<1> DEFINE Own == \A w \in Workers : Replay(w) =>
                    \E i \in 1..Len(ran) :
                      /\ SameRequest(ran[i].rq, call[w].rq)
                      /\ ran[i].resp = cache[ScopedKey(call[w].rq)].resp
<1>1. SignedInit => EntriesOwn
  BY DEF SignedInit, Init, EntriesOwn, At
<1>2. CallsFit /\ EntriesOwn /\ [SignedNext]_signedVars => EntriesOwn'
  BY EntriesStep
<1>3. EntriesOwn => Own
  <2> SUFFICES ASSUME EntriesOwn, NEW w \in Workers, Replay(w)
               PROVE  \E i \in 1..Len(ran) :
                        /\ SameRequest(ran[i].rq, call[w].rq)
                        /\ ran[i].resp = cache[ScopedKey(call[w].rq)].resp
    OBVIOUS
  <2> DEFINE k == ScopedKey(call[w].rq)
  <2>1. k \in DOMAIN cache /\ cache[k].body = call[w].rq.body
    BY DEF Replay, Live
  <2>2. PICK i \in 1..Len(ran) : /\ ScopedKey(ran[i].rq) = k
                                 /\ ran[i].rq.body = cache[k].body
                                 /\ ran[i].resp = cache[k].resp
    BY <2>1 DEF EntriesOwn
  <2>3. SameRequest(ran[i].rq, call[w].rq)
    BY <2>1, <2>2 DEF SameRequest, ScopedKey
  <2> QED
    BY <2>2, <2>3
<1> HIDE DEF Own
<1>4. Own => [Own]_vars
  OBVIOUS
<1> QED
  BY <1>1, <1>2, <1>3, <1>4, CallsInvariant, PTL DEF SignedSpec, ReplayIsOwnResponse, Own

-----------------------------------------------------------------------------
(* Runs of a key do not overlap, and a settled one stands.                 *)

\* Every step puts two calls under one key on record.
LEMMA ContendedStep ==
  ASSUME CallsFit, ContendedNoted, [SignedNext]_signedVars
  PROVE  ContendedNoted'
<1>1. CASE Recorded
  <2> SUFFICES ASSUME NEW v \in Workers, NEW w \in Workers, v # w,
                      ~At(v, "idle")', ~At(w, "idle")', Handled(v)' = Handled(w)'
               PROVE  Handled(w)' \in disturbed'
    BY DEF ContendedNoted
  <2>1. v \in Busy' /\ w \in Busy'
    BY DEF Busy
  <2>2. Handled(w)' \in Contended'
    BY <2>1 DEF Contended
  <2> QED
    BY <1>1, <2>2 DEF Recorded
<1>2. CASE UNCHANGED signedVars
  BY <1>2 DEF ContendedNoted, signedVars, vars, At, Handled
<1> QED
  BY <1>1, <1>2 DEF SignedNext

\* A key that is looked up in vain gets an entry from its own call only.
LEMMA NotLiveStays ==
  ASSUME CallsFit, ContendedNoted, [SignedNext]_signedVars,
         NEW w \in Workers, ~At(w, "idle"), Handled(w) \notin disturbed,
         ~Live(Handled(w)), \A skew \in Skews : ~Put(w, skew)
  PROVE  LET k == Handled(w) IN ~(k \in DOMAIN cache' /\ cache'[k].expires_at > now')
<1> DEFINE k == Handled(w)
<1>0. now \in Nat /\ now' \in Nat /\ now' >= now
  BY HistoryGrows DEF CallsFit
<1>1. CASE \A v \in Workers, skew \in Skews : ~Put(v, skew)
  <2> SUFFICES ASSUME k \in DOMAIN cache', cache'[k].expires_at > now' PROVE FALSE
    OBVIOUS
  <2>1. k \in DOMAIN cache /\ cache'[k] = cache[k]
    BY <1>1, OtherSteps
  <2>2. cache[k].expires_at \in Int
    BY <2>1 DEF CallsFit
  <2> QED
    BY <1>0, <2>1, <2>2 DEF Live
<1>2. ASSUME NEW v \in Workers, NEW skew \in Skews, Put(v, skew), v # w
      PROVE  ~(k \in DOMAIN cache' /\ cache'[k].expires_at > now')
  <2>1. At(v, "put") /\ Handled(v) = ScopedKey(call[v].rq)
    BY <1>2 DEF Put, Handled
  <2>2. Handled(v) # k
    BY <1>2, <2>1 DEF ContendedNoted, At
  <2>3. k \in DOMAIN cache' => k \in DOMAIN cache /\ cache'[k] = cache[k]
    BY <1>2, <2>1, <2>2, PutEffect
  <2>4. now' = now
    BY <1>2 DEF Put
  <2> QED
    BY <2>3, <2>4 DEF Live
<1> QED
  BY <1>1, <1>2

\* No one else's store gives an entry to a key looked up in vain.
LEMMA MissStep ==
  ASSUME CallsFit, ContendedNoted, MissStands, [SignedNext]_signedVars
  PROVE  MissStands'
<1> SUFFICES ASSUME NEW w \in Workers, call'[w].at \in {"run", "put"},
                    call'[w].rq.key # NoKey, Handled(w)' \notin disturbed'
             PROVE  ~Live(Handled(w))'
  BY DEF MissStands, Handled
<1>0. Handled(w)' \notin disturbed
  BY HistoryGrows
<1>1. ASSUME call'[w].rq = call[w].rq, call[w].at \in {"run", "put"}, call'[w].at # "idle"
      PROVE  ~Live(Handled(w))'
  <2>1. Handled(w)' = Handled(w)
    BY <1>1 DEF Handled
  <2>2. ~Live(Handled(w))
    BY <1>0, <1>1, <2>1 DEF MissStands
  <2>3. ASSUME NEW skew \in Skews, Put(w, skew) PROVE FALSE
    <3>1. Goto(w, [at |-> "idle"])
      BY <2>3 DEF Put
    <3>2. call'[w] = [at |-> "idle"]
      BY <3>1 DEF Goto, CallsFit
    <3> QED
      BY <1>1, <3>2
  <2> QED
    BY <1>0, <1>1, <2>1, <2>2, <2>3, NotLiveStays DEF At, Live
<1>2. CASE call'[w] = call[w]
  BY <1>1, <1>2
<1>3. CASE Miss(w) /\ UNCHANGED <<now, cache, ran>> /\ call'[w].rq = call[w].rq
  BY <1>3 DEF Miss, Live, Handled
<1>4. CASE Answers(w) /\ call'[w].at = "put" /\ call'[w].rq = call[w].rq
  BY <1>1, <1>4 DEF Answers, At
<1> QED
  BY <1>2, <1>3, <1>4, CallMoves

\* A settled run is stored, and its entry stays until its window is over.
LEMMA AnsweredStep ==
  ASSUME CallsFit, ContendedNoted, MissStands, Answered, [SignedNext]_signedVars
  PROVE  Answered'
<1> SUFFICES ASSUME NEW i \in 1..Len(ran'), Settled(i)'
             PROVE  \/ \E w \in Workers :
                         At(w, "put")' /\ Handled(w)' = ScopedKey(ran'[i].rq)
                    \/ \E skew \in Skews : Stands(i, skew)'
  BY DEF Answered
<1> DEFINE k == ScopedKey(ran'[i].rq)
<1>0. k \notin disturbed /\ k \notin disturbed'
  BY HistoryGrows DEF Settled
<1>1. CASE i \in 1..Len(ran)
  <2>1. ran'[i] = ran[i] /\ times'[i] = times[i] /\ now' \in Nat /\ now' >= now
    BY <1>1, HistoryGrows
  <2>2. Settled(i)
    BY <1>0, <2>1 DEF Settled
  <2>3. times[i] \in Nat /\ times[i] <= now /\ now \in Nat
    BY <1>1 DEF CallsFit
  <2>4. ASSUME NEW skew \in Skews, Stands(i, skew)
        PROVE  Stands(i, skew)'
    <3> DEFINE until == times[i] + CacheTtl + skew
    <3>1. until \in Int
      BY <2>3, ApiAssumption, TablesAssumption
    <3>2. now >= until \/ (k \in DOMAIN cache /\ cache[k].expires_at >= until)
      BY <2>1, <2>4 DEF Stands
    <3>3. now' >= until \/ (k \in DOMAIN cache' /\ cache'[k].expires_at >= until)
      <4>1. CASE now >= until
        BY <2>1, <2>3, <3>1, <4>1
      <4>2. CASE ~(now >= until)
        <5>1. k \in DOMAIN cache /\ cache[k].expires_at >= until
          BY <3>2, <4>2
        <5>2. Live(k)
          BY <2>3, <3>1, <4>2, <5>1 DEF Live, CallsFit
        <5> QED
          BY <5>1, <5>2, LiveKept
      <4> QED
        BY <4>1, <4>2
    <3> QED
      BY <2>1, <3>3 DEF Stands
  <2>5. ASSUME NEW w \in Workers, At(w, "put"), Handled(w) = ScopedKey(ran[i].rq)
        PROVE  \/ At(w, "put")' /\ Handled(w)' = k
               \/ \E skew \in Skews : Stands(i, skew)'
    <3>1. CASE call'[w] = call[w]
      BY <2>1, <2>5, <3>1 DEF At, Handled
    <3>2. CASE call'[w].at = "idle"
      <4>1. Handled(w) = k
        BY <2>1, <2>5
      <4>2. ~Live(k)
        BY <1>0, <2>5, <4>1 DEF MissStands, CallsFit, At
      <4>3. ASSUME NEW skew \in Skews, Put(w, skew)
            PROVE  Stands(i, skew)'
        <5>1. k \in DOMAIN cache' /\ cache'[k].expires_at = now + skew + CacheTtl
          BY <4>1, <4>2, <4>3, PutEffect DEF Handled
        <5>2. now + skew + CacheTtl >= times'[i] + CacheTtl + skew
          BY <2>1, <2>3, ApiAssumption, TablesAssumption
        <5> QED
          BY <5>1, <5>2 DEF Stands
      <4>4. CASE \A skew \in Skews : ~Put(w, skew)
        <5>1. ~(k \in DOMAIN cache' /\ cache'[k].expires_at > now')
          BY <1>0, <2>5, <4>1, <4>2, <4>4, NotLiveStays DEF At
        <5>2. k \in Unstored
          BY <2>5, <3>2, <4>1, <5>1 DEF Unstored, LiveKeys, Live, At
        <5>3. Recorded
          BY <2>5, <3>2 DEF SignedNext, signedVars, vars, At
        <5> QED
          BY <1>0, <5>2, <5>3 DEF Recorded
      <4> QED
        BY <4>3, <4>4
    <3> QED
      BY <2>5, <3>1, <3>2, CallMoves DEF At, Miss, Answers
  <2> QED
    BY <1>1, <2>2, <2>4, <2>5 DEF Answered
<1>2. CASE i \notin 1..Len(ran)
  <2>1. PICK w \in Workers, resp \in Responses :
          /\ ran'[i] = [rq |-> call[w].rq, resp |-> resp]
          /\ call'[w] = IF call[w].rq.key # NoKey /\ Cacheable(resp)
                        THEN [at |-> "put", rq |-> call[w].rq, resp |-> resp]
                        ELSE [at |-> "idle"]
    <3>1. i = Len(ran')
      BY <1>2, HistoryGrows
    <3> QED
      BY <1>2, <3>1, HistoryGrows
  <2>2. call[w].rq.key # NoKey /\ resp.status \notin {400, 500}
    BY <2>1 DEF Settled
  <2>3. Cacheable(resp)
    BY <2>2 DEF Cacheable, Responses, Statuses
  <2>4. At(w, "put")' /\ Handled(w)' = ScopedKey(ran'[i].rq)
    BY <2>1, <2>2, <2>3 DEF At, Handled
  <2> QED
    BY <2>4
<1> QED
  BY <1>1, <1>2

-----------------------------------------------------------------------------
(* What the HMAC layer's clock is good for.                                *)

\* The clock waits for lookups whose time is up.
LEMMA TimePasses ==
  ASSUME CallsFit, [SignedNext]_signedVars
  PROVE  \/ now' = now
         \/ /\ now' = now + 1
            /\ \A w \in Workers :
                 call'[w] = call[w]
                 /\ (At(w, "get") => now < call[w].since + LookupTime)
<1>1. ASSUME NEW w \in Workers
      PROVE  /\ \A rq : Deliver(w, rq) => now' = now
             /\ Leaves(w) \/ Miss(w) \/ Answers(w) => now' = now
             /\ \A skew : Put(w, skew) => now' = now
  BY DEF Deliver, Send, Leaves, Miss, Answers, Put
<1>2. Sweep \/ UNCHANGED signedVars => now' = now
  BY DEF Sweep, signedVars, vars
<1> QED
  BY <1>1, <1>2, ApiSteps DEF Background

\* Verification bounds a request's timestamp, and time keeps the bounds.
LEMMA SignedInTimeStep ==
  ASSUME CallsFit, SignedInTime, [SignedNext]_signedVars
  PROVE  SignedInTime'
<1> USE DEF At
<1>0. /\ now \in Int /\ now' \in Int /\ now' >= now
      /\ HmacSkew \in Int /\ LookupTime \in Nat
      /\ \A skew \in Skews : skew \in Int
  BY HistoryGrows, TablesAssumption, SignedAssumption DEF CallsFit
<1>1. ASSUME NEW w \in Workers, call'[w].at # "idle"
      PROVE  \E skew \in Skews : call'[w].rq.ts <= now' + skew + HmacSkew
  <2>1. CASE call[w].at # "idle" /\ call'[w].rq = call[w].rq
    <3>1. call[w].rq.ts \in Int
      BY <2>1, CallFields, RequestFields DEF CallsFit
    <3>2. PICK skew \in Skews : call[w].rq.ts <= now + skew + HmacSkew
      BY <2>1 DEF SignedInTime
    <3>3. call'[w].rq.ts <= now' + skew + HmacSkew
      BY <1>0, <2>1, <3>1, <3>2
    <3> QED
      BY <3>3
  <2>2. ASSUME NEW rq \in SignedRequests, call'[w].rq = rq, now' = now,
               NEW skew \in Skews, Verified(rq, now + skew)
        PROVE  call'[w].rq.ts <= now' + skew + HmacSkew
    <3>1. rq.ts \in Int
      BY RequestFields
    <3>2. -HmacSkew <= now + skew - rq.ts /\ now + skew - rq.ts <= HmacSkew
      BY <1>0, <2>2, <3>1 DEF Verified
    <3> QED
      BY <1>0, <2>2, <3>1, <3>2
  <2> QED
    BY <1>1, <2>1, <2>2, CallMoves DEF Miss, Answers
<1>2. ASSUME NEW w \in Workers, call'[w].at = "get"
      PROVE  /\ now' <= call'[w].since + LookupTime
             /\ \E skew \in Skews : call'[w].since + skew <= call'[w].rq.ts + HmacSkew
  <2>1. CASE call'[w] = call[w]
    <3>1. call[w].since \in Nat
      BY <1>2, <2>1, CallFields DEF CallsFit
    <3>2. now' <= call[w].since + LookupTime
      <4>1. now <= call[w].since + LookupTime
        BY <1>2, <2>1 DEF SignedInTime
      <4>2. now' = now \/ (now' = now + 1 /\ now < call[w].since + LookupTime)
        BY <1>2, <2>1, TimePasses
      <4> DEFINE limit == call[w].since + LookupTime
      <4>3. limit \in Int
        BY <1>0, <3>1
      <4> HIDE DEF limit
      <4>4. now <= limit /\ (now' = now \/ (now' = now + 1 /\ now < limit))
        BY <4>1, <4>2 DEF limit
      <4>5. now' <= limit
        BY <1>0, <4>3, <4>4
      <4> QED
        BY <4>5 DEF limit
    <3> QED
      BY <1>2, <2>1, <3>2 DEF SignedInTime
  <2>2. ASSUME NEW rq \in SignedRequests, call'[w].rq = rq, now' = now,
               call'[w].since = now, NEW skew \in Skews, Verified(rq, now + skew)
        PROVE  /\ now' <= call'[w].since + LookupTime
               /\ call'[w].since + skew <= call'[w].rq.ts + HmacSkew
    <3>1. rq.ts \in Int
      BY RequestFields
    <3>2. -HmacSkew <= now + skew - rq.ts /\ now + skew - rq.ts <= HmacSkew
      BY <1>0, <2>2, <3>1 DEF Verified
    <3> QED
      BY <1>0, <2>2, <3>1, <3>2
  <2> QED
    BY <1>2, <2>1, <2>2, CallMoves
<1>3. ASSUME NEW i \in 1..Len(ran')
      PROVE  \E skew \in Skews : ran'[i].rq.ts <= times'[i] + skew + HmacSkew
  <2>1. CASE i \in 1..Len(ran)
    BY <2>1, HistoryGrows DEF SignedInTime
  <2>2. CASE i \notin 1..Len(ran)
    <3>1. i = Len(ran')
      BY <2>2, HistoryGrows
    <3>2. PICK w \in Workers, resp \in Responses :
            /\ Answers(w) /\ ran'[i] = [rq |-> call[w].rq, resp |-> resp]
            /\ times'[i] = now
      BY <2>2, <3>1, HistoryGrows
    <3>3. \E skew \in Skews : call[w].rq.ts <= now + skew + HmacSkew
      BY <3>2 DEF Answers, SignedInTime
    <3> QED
      BY <3>2, <3>3
  <2> QED
    BY <2>1, <2>2
<1> QED
  BY <1>1, <1>2, <1>3 DEF SignedInTime

\* A settled run is over for its key only when its window is.
LEMMA WindowOver ==
  ASSUME CallsFit, ContendedNoted, Answered,
         NEW i \in 1..Len(ran), Settled(i),
         NEW w \in Workers, call[w].at \in {"get", "run"},
         Handled(w) = ScopedKey(ran[i].rq), ~Live(Handled(w))
  PROVE  \E skew \in Skews : now >= times[i] + CacheTtl + skew
<1> DEFINE k == ScopedKey(ran[i].rq)
<1>1. k \notin disturbed
  BY DEF Settled
<1>2. ASSUME NEW v \in Workers, At(v, "put"), Handled(v) = k PROVE FALSE
  <2>1. v # w /\ ~At(v, "idle") /\ ~At(w, "idle")
    BY <1>2 DEF At
  <2> QED
    BY <1>1, <1>2, <2>1 DEF ContendedNoted
<1>3. PICK skew \in Skews : Stands(i, skew)
  BY <1>2 DEF Answered
<1>4. times[i] \in Int /\ now \in Int /\ CacheTtl \in Int /\ skew \in Int
  BY ApiAssumption, TablesAssumption DEF CallsFit
<1>5. k \in DOMAIN cache => cache[k].expires_at \in Int /\ cache[k].expires_at <= now
  BY <1>4 DEF Live, CallsFit
<1>6. now >= times[i] + CacheTtl + skew
  BY <1>3, <1>4, <1>5 DEF Stands
<1> QED
  BY <1>6

\* By then the HMAC layer refuses what was signed before the run.
LEMMA TooOld ==
  ASSUME CallsFit, ContendedNoted, Answered, SignedInTime,
         NEW i \in 1..Len(ran), Settled(i),
         NEW w \in Workers, At(w, "get"), ran[i].rq = call[w].rq
  PROVE  Live(Handled(w))
<1> SUFFICES ASSUME ~Live(Handled(w)) PROVE FALSE
  OBVIOUS
<1>1. PICK s \in Skews : now >= times[i] + CacheTtl + s
  BY WindowOver DEF At, Handled
<1>2. PICK t \in Skews : call[w].since + t <= call[w].rq.ts + HmacSkew
  BY DEF SignedInTime
<1>a. now <= call[w].since + LookupTime
  BY DEF SignedInTime
<1>3. PICK u \in Skews : call[w].rq.ts <= times[i] + u + HmacSkew
  BY DEF SignedInTime
<1>4. /\ times[i] \in Int /\ now \in Int /\ call[w].rq.ts \in Int
      /\ call[w].since \in Int /\ LookupTime \in Int
      /\ CacheTtl \in Int /\ HmacSkew \in Int /\ s \in Int /\ t \in Int /\ u \in Int
  BY ApiAssumption, TablesAssumption, SignedAssumption, CallFields, RequestFields
  DEF CallsFit, At
<1>5. /\ CacheTtl > 2 * HmacSkew + LookupTime + u - 2 * s
      /\ CacheTtl > 2 * HmacSkew + LookupTime + u - 2 * t
  BY SignedAssumption
<1>6. ASSUME NEW time \in Int, NEW ts \in Int, NEW since \in Int,
             now >= time + CacheTtl + s, now <= since + LookupTime,
             since + t <= ts + HmacSkew, ts <= time + u + HmacSkew
      PROVE  FALSE
  BY <1>4, <1>5, <1>6
<1> QED
  BY <1>1, <1>2, <1>a, <1>3, <1>4, <1>6

-----------------------------------------------------------------------------
(* No key runs twice in its window, and no request runs twice at all.      *)

\* The run a handler adds is of a key nobody else works on, or it is on record.
LEMMA NewRunAlone ==
  ASSUME CallsFit, ContendedNoted, [SignedNext]_signedVars,
         NEW j \in 1..Len(ran'), j \notin 1..Len(ran)
  PROVE  /\ j = Len(ran) + 1 /\ times'[j] = now
         /\ \E w \in Workers :
              /\ At(w, "run") /\ ~At(w, "run")'
              /\ ran'[j].rq = call[w].rq
              /\ \A v \in Workers \ {w} :
                   ~At(v, "idle") /\ Handled(v) = Handled(w) =>
                     Handled(w) \in disturbed
<1>1. j = Len(ran') /\ j = Len(ran) + 1
  BY HistoryGrows
<1>2. PICK w \in Workers, resp \in Responses :
        /\ Answers(w) /\ ran'[j] = [rq |-> call[w].rq, resp |-> resp]
        /\ times'[j] = now
        /\ call'[w] = IF call[w].rq.key # NoKey /\ Cacheable(resp)
                      THEN [at |-> "put", rq |-> call[w].rq, resp |-> resp]
                      ELSE [at |-> "idle"]
  BY <1>1, HistoryGrows
<1>3. At(w, "run") /\ ~At(w, "run")' /\ ran'[j].rq = call[w].rq
  BY <1>2 DEF Answers, At
<1>4. ASSUME NEW v \in Workers \ {w}, ~At(v, "idle"), Handled(v) = Handled(w)
      PROVE  Handled(w) \in disturbed
  BY <1>3, <1>4 DEF ContendedNoted, At
<1> QED
  BY <1>1, <1>2, <1>3, <1>4

\* A request that starts to run is none that has a settled run.
LEMMA NotAgainStep ==
  ASSUME CallsFit, ContendedNoted, Answered, SignedInTime, NotAgain,
         [SignedNext]_signedVars
  PROVE  NotAgain'
<1> SUFFICES ASSUME NEW w \in Workers, call'[w].at = "run", Handled(w)' \notin disturbed',
                    NEW i \in 1..Len(ran'), Settled(i)', ran'[i].rq = call'[w].rq
             PROVE  FALSE
  BY DEF NotAgain, At
<1>0. Handled(w)' \notin disturbed /\ call'[w].rq.key # NoKey
  BY HistoryGrows DEF Settled
<1>a. ASSUME i \in 1..Len(ran)
      PROVE  Settled(i) /\ ran[i].rq = call'[w].rq
  BY <1>0, <1>a, HistoryGrows DEF Settled, Handled
<1>1. CASE call'[w] = call[w]
  <2>1. CASE i \in 1..Len(ran)
    BY <1>0, <1>1, <1>a, <2>1 DEF NotAgain, At, Handled
  <2>2. CASE i \notin 1..Len(ran)
    <3>1. PICK v \in Workers :
            /\ At(v, "run") /\ ~At(v, "run")' /\ ran'[i].rq = call[v].rq
            /\ \A u \in Workers \ {v} :
                 ~At(u, "idle") /\ Handled(u) = Handled(v) => Handled(v) \in disturbed
      BY <2>2, NewRunAlone
    <3>2. w # v /\ ~At(w, "idle") /\ Handled(w) = Handled(v) /\ Handled(v) = Handled(w)'
      BY <1>1, <3>1 DEF At, Handled
    <3> QED
      BY <1>0, <3>1, <3>2
  <2> QED
    BY <2>1, <2>2
<1>2. CASE Miss(w) /\ ran' = ran /\ call'[w].rq = call[w].rq
  <2>1. At(w, "get") /\ ~Live(Handled(w))
    BY <1>2 DEF Miss, Handled
  <2>2. Settled(i) /\ ran[i].rq = call[w].rq
    BY <1>2, <1>a
  <2> QED
    BY <1>2, <2>1, <2>2, TooOld
<1> QED
  BY <1>0, <1>1, <1>2, CallMoves DEF Answers, At

\* A new run of a key finds the window of the settled one over.
LEMMA OneRunPerKeyStep ==
  ASSUME CallsFit, ContendedNoted, MissStands, Answered, OneRunPerKey,
         [SignedNext]_signedVars
  PROVE  OneRunPerKey'
<1> SUFFICES ASSUME NEW i \in 1..Len(ran'), NEW j \in 1..Len(ran'), i < j, Settled(i)',
                    ScopedKey(ran'[i].rq) = ScopedKey(ran'[j].rq)
             PROVE  \E skew \in Skews : times'[j] >= times'[i] + CacheTtl + skew
  BY DEF OneRunPerKey
<1>1. i \in 1..Len(ran)
  BY HistoryGrows
<1>2. ran'[i] = ran[i] /\ times'[i] = times[i] /\ Settled(i)
  BY <1>1, HistoryGrows DEF Settled
<1>3. CASE j \in 1..Len(ran)
  <2>1. ran'[j] = ran[j] /\ times'[j] = times[j]
    BY <1>3, HistoryGrows
  <2> QED
    BY <1>1, <1>2, <1>3, <2>1 DEF OneRunPerKey
<1>4. CASE j \notin 1..Len(ran)
  <2>1. PICK w \in Workers : At(w, "run") /\ ran'[j].rq = call[w].rq /\ times'[j] = now
    BY <1>4, NewRunAlone
  <2>2. Handled(w) = ScopedKey(ran[i].rq)
    BY <1>2, <2>1 DEF Handled
  <2>3. call[w].rq.key # NoKey /\ Handled(w) \notin disturbed
    BY <1>2, <2>2 DEF Settled, Handled, ScopedKey
  <2>4. ~Live(Handled(w))
    BY <2>1, <2>3 DEF MissStands, At
  <2>5. \E skew \in Skews : now >= times[i] + CacheTtl + skew
    BY <1>1, <1>2, <2>1, <2>2, <2>4, WindowOver DEF At
  <2> QED
    BY <1>2, <2>1, <2>5
<1> QED
  BY <1>3, <1>4

\* A new run is of no request that has a settled run.
LEMMA AtMostOnceStep ==
  ASSUME CallsFit, ContendedNoted, NotAgain, AtMostOnce, [SignedNext]_signedVars
  PROVE  AtMostOnce'
<1> SUFFICES ASSUME NEW i \in 1..Len(ran'), NEW j \in 1..Len(ran'), i < j, Settled(i)',
                    ran'[i].rq = ran'[j].rq
             PROVE  FALSE
  BY DEF AtMostOnce
<1>1. i \in 1..Len(ran)
  BY HistoryGrows
<1>2. ran'[i] = ran[i] /\ Settled(i)
  BY <1>1, HistoryGrows DEF Settled
<1>3. CASE j \in 1..Len(ran)
  <2>1. ran'[j] = ran[j]
    BY <1>3, HistoryGrows
  <2> QED
    BY <1>1, <1>2, <1>3, <2>1 DEF AtMostOnce
<1>4. CASE j \notin 1..Len(ran)
  <2>1. PICK w \in Workers : At(w, "run") /\ ran'[j].rq = call[w].rq
    BY <1>4, NewRunAlone
  <2>2. ran[i].rq = call[w].rq /\ Handled(w) \notin disturbed
    BY <1>2, <2>1 DEF Settled, Handled
  <2> QED
    BY <1>1, <1>2, <2>1, <2>2 DEF NotAgain
<1> QED
  BY <1>3, <1>4

-----------------------------------------------------------------------------
(* The results.                                                            *)

(***************************************************************************)
(* The inductive invariant holds of every reachable state.                 *)
(***************************************************************************)
THEOREM InvariantHolds == SignedSpec => []SignedInv
<1>1. SignedInit => SignedInv
  <2>1. SignedInit => /\ \A w \in Workers : call[w] = [at |-> "idle"]
                      /\ Len(ran) = 0 /\ DOMAIN cache = {}
    BY DEF SignedInit, Init
  <2>2. SignedInit => EntriesOwn /\ ContendedNoted /\ MissStands /\ NotAgain
    BY <2>1 DEF EntriesOwn, ContendedNoted, MissStands, NotAgain, At
  <2>3. SignedInit => Answered /\ SignedInTime /\ OneRunPerKey /\ AtMostOnce
    BY <2>1 DEF Answered, SignedInTime, OneRunPerKey, AtMostOnce, At
  <2> QED
    BY <2>2, <2>3, InitFits DEF SignedInv
<1>2. SignedInv /\ [SignedNext]_signedVars => SignedInv'
  BY CallsStep, EntriesStep, ContendedStep, MissStep, AnsweredStep, SignedInTimeStep,
     NotAgainStep, OneRunPerKeyStep, AtMostOnceStep DEF SignedInv
<1> QED
  BY <1>1, <1>2, PTL DEF SignedSpec

(***************************************************************************)
(* A key whose response was stored runs its handler once per lifetime of a *)
(* cache entry, whatever is sent under it again and by how many clients:   *)
(* the second run waits for the window by the clock that stored the first. *)
(***************************************************************************)
THEOREM KeyRunsOnce == SignedSpec => []OneRunPerKey
<1>1. SignedInv => OneRunPerKey
  BY DEF SignedInv
<1> QED
  BY <1>1, InvariantHolds, PTL

(***************************************************************************)
(* A signed request is carried out at most once, however late and however  *)
(* often the network delivers it, to whichever instance: the HMAC layer    *)
(* refuses its timestamp before the cache forgets its response.            *)
(***************************************************************************)
THEOREM RequestRunsOnce == SignedSpec => []AtMostOnce
<1>1. SignedInv => AtMostOnce
  BY DEF SignedInv
<1> QED
  BY <1>1, InvariantHolds, PTL

-----------------------------------------------------------------------------
(***************************************************************************)
(* What was answered stays true.  The runs of the history say what became  *)
(* of every hold they made or ended: each step either leaves a hold as it  *)
(* is, or is the handler whose answer it adds, or the reaper's with the    *)
(* hold's time up.  Nothing is assumed here of keys, of the cache or of    *)
(* overlapping requests.                                                   *)
(***************************************************************************)

\* The run a handler adds to the history.
LEMMA RunAdded ==
  ASSUME CallsFit, Recorded, NEW w \in Workers, At(w, "run"), now' = now,
         NEW resp \in Responses, Finish(w, resp)
  PROVE  LET n == Len(ran) + 1 IN
         /\ n \in Nat /\ Len(ran') = n
         /\ ran'[n].rq = call[w].rq /\ ran'[n].resp = resp
         /\ times'[n] = now
<1> DEFINE run == [rq |-> call[w].rq, resp |-> resp]
<1>1. run \in Finished
  BY CallFields DEF Finished, At, CallsFit
<1>2. ran' = Append(ran, run)
  BY DEF Finish
<1>3. Answers(w)
  BY DEF Answers
<1>4. Len(ran') = Len(ran) + 1 /\ times'[Len(ran')] = now
  BY <1>3, AnswerEffect
<1>5. ran'[Len(ran) + 1] = run /\ Len(ran) \in Nat
  BY <1>1, <1>2 DEF CallsFit
<1> QED
  BY <1>4, <1>5

\* The same of a response that names no expiry.
LEMMA RunResponded ==
  ASSUME CallsFit, Recorded, NEW w \in Workers, At(w, "run"), now' = now,
         NEW status \in Statuses, NEW what \in Whats, Respond(w, status, what)
  PROVE  LET n == Len(ran) + 1 IN
         /\ n \in Nat /\ Len(ran') = n
         /\ ran'[n].rq = call[w].rq
         /\ ran'[n].resp.status = status /\ ran'[n].resp.what = what
<1> DEFINE resp == [status |-> status, what |-> what, until |-> 0]
<1>1. resp \in Responses /\ Finish(w, resp)
  BY DEF Responses, Respond
<1>2. resp.status = status /\ resp.what = what
  OBVIOUS
<1> HIDE DEF resp
<1> QED
  BY <1>1, <1>2, RunAdded

\* The rest of the handlers answer with nothing that has to last.
Refuses(w) ==
  /\ At(w, "run") /\ now' = now /\ UNCHANGED <<holds, issued>>
  /\ \E status \in Statuses, what \in Whats :
       /\ Respond(w, status, what)
       /\ call[w].rq.kind = "hold" => status # 201
       /\ call[w].rq.kind = "confirm" => status # 200
       /\ call[w].rq.kind = "release" => what # "released"

LEMMA RefusalKinds ==
  ASSUME NEW w \in Workers,
         HoldRefused(w) \/ ConfirmRefused(w) \/ ReleaseMissed(w) \/ Cancelled(w)
         \/ HandlerFails(w)
  PROVE  Refuses(w)
<1> USE DEF Runs, Statuses, Whats, tables
<1>1. CASE HoldRefused(w)
  BY <1>1 DEF HoldRefused, Refuses
<1>2. CASE ConfirmRefused(w)
  BY <1>2 DEF ConfirmRefused, Refuses
<1>3. CASE ReleaseMissed(w)
  BY <1>3 DEF ReleaseMissed, Refuses
<1>4. CASE Cancelled(w)
  BY <1>4 DEF Cancelled, Ledger!Cancel, Ledger!ClearRows, Refuses
<1>5. CASE HandlerFails(w)
  BY <1>5 DEF HandlerFails, Refuses
<1> QED
  BY <1>1, <1>2, <1>3, <1>4, <1>5

\* The steps that run no handler, as the holds see them.
Rests ==
  /\ ran' = ran
  /\ \/ UNCHANGED <<holds, issued>>
     \/ \E refs \in SUBSET Refs : Reap(refs)

LEMMA RunSteps ==
  ASSUME [SignedNext]_signedVars
  PROVE  \/ Rests
         \/ /\ Recorded
            /\ \E w \in Workers :
                 \/ Refuses(w)
                 \/ \E ref \in Refs : HoldMade(w, ref)
                 \/ Confirmed(w)
                 \/ Released(w)
<1>1. ASSUME NEW w \in Workers
      PROVE  /\ \A rq : Deliver(w, rq) => Rests
             /\ Replay(w) \/ Mismatch(w) \/ Miss(w) => Rests
             /\ PutFails(w) \/ Dropped(w) => Rests
             /\ \A skew : Put(w, skew) => Rests
  BY DEF Deliver, Send, Replay, Mismatch, Miss, PutFails, Dropped, Put, Rests, tables
<1>2. Sweep \/ SignedTick \/ UNCHANGED signedVars => Rests
  BY DEF Sweep, SignedTick, Tick, Ledger!Tick, Ledger!tables, Rests, tables,
         signedVars, vars
<1>3. ASSUME NEW refs \in SUBSET Refs, Reap(refs) PROVE Rests
  BY <1>3 DEF Reap, Rests
<1> QED
  BY <1>1, <1>2, <1>3, RefusalKinds DEF SignedNext, Handle

\* A hold that is over stays so, with its row as it is; an active one stays
\* as it is, unless the new run ended it or its time is up.
Continues(h) ==
  /\ h \in issued'
  /\ h \notin Active =>
       h \notin Active' /\ (h \in DOMAIN holds' => h \in DOMAIN holds /\ holds'[h] = holds[h])
  /\ h \in Active =>
       \/ h \in Active' /\ holds'[h] = holds[h]
       \/ holds[h].expires_at <= now
       \/ \E j \in 1..Len(ran') : j > Len(ran) /\ Ended(ran'[j], h)

LEMMA HoldContinues ==
  ASSUME CallsFit, TablesTypeOK, [SignedNext]_signedVars, NEW h \in issued
  PROVE  Continues(h)
<1> USE DEF TablesTypeOK, Ledger!Active, Active
<1>0. \A w \in Workers : ~At(w, "idle") => call[w].rq \in SignedRequests
  BY CallFields DEF CallsFit, At
<1>1. CASE Rests
  <2>1. CASE UNCHANGED <<holds, issued>>
    BY <2>1 DEF Continues
  <2>2. ASSUME NEW refs \in SUBSET Refs, Reap(refs) PROVE Continues(h)
    <3>1. /\ DOMAIN holds' = DOMAIN holds \ refs /\ issued' = issued
          /\ \A k \in DOMAIN holds' : holds'[k] = holds[k]
          /\ \A k \in refs : k \in Active /\ holds[k].expires_at <= now
      BY <2>2 DEF Reap, Ledger!Reap, Ledger!DropHolds, Ledger!DeleteHolds,
                  Ledger!Restrict, Ledger!ExpiredAt
    <3> QED
      BY <3>1 DEF Continues
  <2> QED
    BY <1>1, <2>1, <2>2 DEF Rests
<1>2. ASSUME NEW w \in Workers, Refuses(w) PROVE Continues(h)
  BY <1>2 DEF Refuses, Continues
<1>3. ASSUME NEW w \in Workers, NEW ref \in Refs, HoldMade(w, ref)
      PROVE  Continues(h)
  <2>1. /\ ref \notin issued /\ issued' = issued \cup {ref}
        /\ DOMAIN holds' = DOMAIN holds \cup {ref}
        /\ \A k \in DOMAIN holds : k # ref => holds'[k] = holds[k]
    BY <1>3 DEF HoldMade, Ledger!Hold, Ledger!WriteHold
  <2> QED
    BY <2>1 DEF Continues
<1>4. ASSUME NEW w \in Workers, Confirmed(w), Recorded PROVE Continues(h)
  <2> DEFINE ref == call[w].rq.ref
  <2>1. /\ ref \in Active /\ issued' = issued /\ DOMAIN holds' = DOMAIN holds
        /\ \A k \in DOMAIN holds : k # ref => holds'[k] = holds[k]
    BY <1>4 DEF Confirmed, Ledger!Confirm, Ledger!WriteBooking
  <2>2. At(w, "run") /\ call[w].rq.kind = "confirm" /\ now' = now
        /\ Respond(w, 200, "confirmed")
    BY <1>4 DEF Confirmed, Runs, Ledger!Confirm
  <2>3. LET n == Len(ran) + 1 IN
        n \in 1..Len(ran') /\ n > Len(ran) /\ Ended(ran'[n], ref)
    BY <1>4, <2>2, RunResponded DEF Booked, Ended, Statuses, Whats
  <2> QED
    BY <2>1, <2>3 DEF Continues
<1>5. ASSUME NEW w \in Workers, Released(w), Recorded PROVE Continues(h)
  <2> DEFINE ref == call[w].rq.ref
  <2>1. /\ ref \in Active /\ issued' = issued /\ DOMAIN holds' = DOMAIN holds \ {ref}
        /\ \A k \in DOMAIN holds' : holds'[k] = holds[k]
    BY <1>5 DEF Released, Ledger!Release, Ledger!DropHolds, Ledger!DeleteHolds,
                Ledger!Restrict
  <2>2. At(w, "run") /\ call[w].rq.kind = "release" /\ now' = now
        /\ Respond(w, 200, "released")
    BY <1>5 DEF Released, Runs, Ledger!Release
  <2>3. LET n == Len(ran) + 1 IN
        n \in 1..Len(ran') /\ n > Len(ran) /\ Ended(ran'[n], ref)
    BY <1>5, <2>2, RunResponded DEF Freed, Ended, Statuses, Whats
  <2> QED
    BY <2>1, <2>3 DEF Continues
<1> QED
  BY <1>1, <1>2, <1>3, <1>4, <1>5, RunSteps

\* What the answer of one run promises of the holds.
Stands201(i) == Made(ran[i]) => HoldStands(i)

StandsEnd(i) ==
  LET ref == ran[i].rq.ref IN
  /\ Booked(ran[i]) =>
       /\ ref \in issued \ Active
       /\ ref \in Consumed => holds[ref].booking_id = ran[i].rq.body
  /\ Freed(ran[i]) => ref \in issued \ DOMAIN holds

\* An answer that stood still stands.
LEMMA StandsOn ==
  ASSUME CallsFit, TablesTypeOK, [SignedNext]_signedVars,
         NEW i \in 1..Len(ran), Stands201(i), StandsEnd(i)
  PROVE  Stands201(i)' /\ StandsEnd(i)'
<1>0. /\ Len(ran) \in Nat /\ Len(ran') >= Len(ran) /\ Len(ran') \in Nat
      /\ ran'[i] = ran[i] /\ times'[i] = times[i]
      /\ \A j \in 1..Len(ran) : ran'[j] = ran[j]
      /\ now' >= now /\ now \in Nat /\ now' \in Nat
  <2>1. now \in Nat
    BY DEF CallsFit
  <2>2. /\ Len(ran) \in Nat
        /\ Len(ran') = Len(ran) \/ Len(ran') = Len(ran) + 1
        /\ \A j \in 1..Len(ran) : ran'[j] = ran[j] /\ times'[j] = times[j]
        /\ now' \in Nat /\ now' >= now
    BY HistoryGrows
  <2> QED
    BY <2>1, <2>2
<1>1. Stands201(i)'
  <2> SUFFICES ASSUME Made(ran[i]) PROVE HoldStands(i)'
    BY <1>0 DEF Stands201
  <2> DEFINE ref == ran[i].resp.what
             asked == ran[i].rq.body
             until == ran[i].resp.until
  <2>0. HoldStands(i) /\ ref \in issued
    BY DEF Stands201, HoldStands
  <2>1. Continues(ref)
    BY <2>0, HoldContinues
  <2>2. until \in Int
    <3>1. ran[i] \in Finished
      BY ElementOfSeq DEF CallsFit
    <3> QED
      BY <3>1 DEF Finished, Responses
  <2>3. ref' = ref /\ asked' = asked /\ until' = until
    BY <1>0
  <2> HIDE DEF ref, asked, until
  <2>4. ref \in issued'
    BY <2>1 DEF Continues
  <2>5. CASE \E j \in i..Len(ran) : Ended(ran[j], ref)
    <3>1. \E j \in i..Len(ran') : Ended(ran'[j], ref)
      BY <1>0, <2>5
    <3> QED
      BY <2>3, <2>4, <3>1 DEF HoldStands, ref, asked, until
  <2>6. CASE until <= now
    <3>1. until <= now'
      BY <1>0, <2>2, <2>6
    <3> QED
      BY <2>3, <2>4, <3>1 DEF HoldStands, ref, asked, until
  <2>7. CASE /\ ref \in Active
             /\ holds[ref].seat = asked.seat /\ holds[ref].legs = asked.legs
             /\ holds[ref].expires_at = until
    <3>1. CASE ref \in Active' /\ holds'[ref] = holds[ref]
      <4>1. /\ ref \in Active'
            /\ holds'[ref].seat = asked.seat /\ holds'[ref].legs = asked.legs
            /\ holds'[ref].expires_at = until
        BY <2>7, <3>1
      <4> QED
        BY <2>3, <2>4, <4>1 DEF HoldStands, ref, asked, until
    <3>2. CASE holds[ref].expires_at <= now
      BY <2>6, <2>7, <3>2
    <3>3. CASE \E j \in 1..Len(ran') : j > Len(ran) /\ Ended(ran'[j], ref)
      <4>1. \E j \in i..Len(ran') : Ended(ran'[j], ref)
        BY <1>0, <3>3
      <4> QED
        BY <2>3, <2>4, <4>1 DEF HoldStands, ref, asked, until
    <3> QED
      BY <2>1, <2>7, <3>1, <3>2, <3>3 DEF Continues
  <2> QED
    BY <2>0, <2>5, <2>6, <2>7 DEF HoldStands, ref, asked, until
<1>2. StandsEnd(i)'
  <2>1. ASSUME Booked(ran[i]) \/ Freed(ran[i])
        PROVE  ran[i].rq.ref \in issued \ Active /\ Continues(ran[i].rq.ref)
    <3>1. ran[i].rq.ref \in issued \ Active
      BY <2>1 DEF StandsEnd, Active
    <3> QED
      BY <3>1, HoldContinues
  <2> QED
    BY <1>0, <2>1 DEF StandsEnd, Continues, Consumed, Active
<1> QED
  BY <1>1, <1>2

\* The answer of the handler that has just run: it drew a fresh reference,
\* or ended a hold that was active.
LEMMA NewStands ==
  ASSUME CallsFit, TablesTypeOK, [SignedNext]_signedVars,
         NEW n \in Nat, n = Len(ran) + 1, Len(ran') = n
  PROVE  /\ Stands201(n)' /\ StandsEnd(n)'
         /\ Made(ran'[n]) => ran'[n].resp.what \notin issued
         /\ \A h : Ended(ran'[n], h) => h \in Active
<1> USE DEF TablesTypeOK, Ledger!Active, Active, Statuses, Whats
<1> DEFINE Goal == /\ Stands201(n)' /\ StandsEnd(n)'
                   /\ Made(ran'[n]) => ran'[n].resp.what \notin issued
                   /\ \A h : Ended(ran'[n], h) => h \in Active
<1>1. ~Rests
  BY DEF Rests, CallsFit
<1>2. Recorded
  BY <1>1, RunSteps
<1>3. ASSUME NEW w \in Workers, Refuses(w) PROVE Goal
  <2>1. PICK status \in Statuses, what \in Whats :
          /\ Respond(w, status, what)
          /\ call[w].rq.kind = "hold" => status # 201
          /\ call[w].rq.kind = "confirm" => status # 200
          /\ call[w].rq.kind = "release" => what # "released"
    BY <1>3 DEF Refuses
  <2>2. At(w, "run") /\ now' = now
    BY <1>3 DEF Refuses
  <2>3. /\ ran'[n].rq = call[w].rq
        /\ ran'[n].resp.status = status /\ ran'[n].resp.what = what
    BY <1>2, <2>1, <2>2, RunResponded
  <2>4. ~Made(ran'[n]) /\ ~Booked(ran'[n]) /\ ~Freed(ran'[n])
    BY <2>1, <2>3 DEF Made, Booked, Freed
  <2> QED
    BY <2>4 DEF Stands201, StandsEnd, Ended
<1>4. ASSUME NEW w \in Workers, NEW ref \in Refs, HoldMade(w, ref) PROVE Goal
  <2> DEFINE b == call[w].rq.body
  <2>1. PICK asked \in call[w].since..now, skew \in Skews :
          /\ \E created \in asked..now :
               Ledger!Hold(ref, b.seat, b.legs, created, asked + skew + b.ttl)
          /\ Finish(w, [status |-> 201, what |-> ref, until |-> asked + skew + b.ttl])
    BY <1>4 DEF HoldMade
  <2> DEFINE expiry == asked + skew + b.ttl
             resp == [status |-> 201, what |-> ref, until |-> expiry]
  <2>a. At(w, "run") /\ call[w].rq.kind = "hold"
    BY <1>4 DEF HoldMade, Runs
  <2>b. PICK created \in asked..now : Ledger!Hold(ref, b.seat, b.legs, created, expiry)
    BY <2>1
  <2>c. expiry \in Int
    <3>1. call[w].since \in Nat /\ now \in Nat /\ call[w].rq \in SignedRequests
      BY <2>a, CallFields DEF CallsFit, At
    <3> QED
      BY <2>a, <3>1, RequestFields, TablesAssumption
  <2>2. resp \in Responses /\ Finish(w, resp)
    BY <2>1, <2>c DEF Responses
  <2> HIDE DEF expiry
  <2>3. now' = now /\ ref \notin issued /\ issued' = issued \cup {ref}
        /\ holds' = [h \in DOMAIN holds \cup {ref} |->
                       IF h = ref
                       THEN [seat |-> b.seat, legs |-> b.legs, booking_id |-> NoBooking,
                             created_at |-> created, expires_at |-> expiry]
                       ELSE holds[h]]
    BY <2>b DEF Ledger!Hold, Ledger!WriteHold
  <2>4. ran'[n].rq = call[w].rq /\ ran'[n].resp = resp
    BY <1>2, <2>a, <2>2, <2>3, RunAdded
  <2>5. ref \in Active' /\ ref \in issued'
        /\ holds'[ref].seat = b.seat /\ holds'[ref].legs = b.legs
        /\ holds'[ref].expires_at = expiry
    BY <2>3
  <2>6. HoldStands(n)'
    BY <2>4, <2>5 DEF HoldStands
  <2>7. ~Booked(ran'[n]) /\ ~Freed(ran'[n])
    BY <2>a, <2>4 DEF Booked, Freed
  <2> QED
    BY <2>3, <2>4, <2>6, <2>7 DEF Stands201, StandsEnd, Ended
<1>5. ASSUME NEW w \in Workers, Confirmed(w) PROVE Goal
  <2> DEFINE rq == call[w].rq
  <2>1. /\ At(w, "run") /\ rq.kind = "confirm" /\ Respond(w, 200, "confirmed")
        /\ now' = now
        /\ rq.ref \in Active /\ issued' = issued
        /\ holds' = [holds EXCEPT ![rq.ref].booking_id = rq.body]
    BY <1>5 DEF Confirmed, Runs, Ledger!Confirm, Ledger!WriteBooking
  <2>2. rq.body # NoBooking
    <3>1. rq \in SignedRequests
      BY <2>1, CallFields DEF CallsFit, At
    <3> QED
      BY <2>1, <3>1, RequestFields, TablesAssumption
  <2>3. ran'[n].rq = rq /\ ran'[n].resp.status = 200
    BY <1>2, <2>1, RunResponded
  <2> HIDE DEF rq
  <2>4. rq.ref \in issued' \ Active' /\ holds'[rq.ref].booking_id = rq.body
    BY <2>1, <2>2 DEF HoldRow
  <2>5. ~Made(ran'[n]) /\ ~Freed(ran'[n])
    BY <2>1, <2>3 DEF Made, Freed
  <2>6. \A h : Ended(ran'[n], h) => h \in Active
    BY <2>1, <2>3 DEF Ended
  <2>7. StandsEnd(n)'
    BY <2>3, <2>4, <2>5 DEF StandsEnd
  <2> QED
    BY <2>5, <2>6, <2>7 DEF Stands201
<1>6. ASSUME NEW w \in Workers, Released(w) PROVE Goal
  <2> DEFINE rq == call[w].rq
  <2>1. /\ At(w, "run") /\ rq.kind = "release" /\ Respond(w, 200, "released")
        /\ now' = now
        /\ rq.ref \in Active /\ issued' = issued /\ rq.ref \notin DOMAIN holds'
    BY <1>6 DEF Released, Runs, Ledger!Release, Ledger!DropHolds, Ledger!DeleteHolds,
                Ledger!Restrict
  <2>2. ran'[n].rq = rq
    BY <1>2, <2>1, RunResponded
  <2> HIDE DEF rq
  <2>3. ~Made(ran'[n]) /\ ~Booked(ran'[n])
    BY <2>1, <2>2 DEF Made, Booked
  <2>4. \A h : Ended(ran'[n], h) => h \in Active
    BY <2>1, <2>2 DEF Ended
  <2>5. StandsEnd(n)'
    BY <2>1, <2>2, <2>3 DEF StandsEnd
  <2> QED
    BY <2>3, <2>4, <2>5 DEF Stands201
<1> QED
  BY <1>1, <1>3, <1>4, <1>5, <1>6, RunSteps

LEMMA StandsStep ==
  ASSUME CallsFit, TablesTypeOK, AnswersStand, [SignedNext]_signedVars
  PROVE  AnswersStand'
<1>1. AnswersStand <=> \A i \in 1..Len(ran) : Stands201(i) /\ StandsEnd(i)
  BY DEF AnswersStand, Stands201, StandsEnd
<1>2. (\A i \in 1..Len(ran') : Stands201(i)' /\ StandsEnd(i)') => AnswersStand'
  BY DEF AnswersStand, Stands201, StandsEnd
<1>3. Len(ran) \in Nat /\ (Len(ran') = Len(ran) \/ Len(ran') = Len(ran) + 1)
  BY HistoryGrows
<1>4. ASSUME NEW i \in 1..Len(ran') PROVE Stands201(i)' /\ StandsEnd(i)'
  <2>1. CASE i \in 1..Len(ran)
    BY <1>1, <2>1, StandsOn
  <2>2. CASE i = Len(ran) + 1
    <3>1. Len(ran') = i /\ i \in Nat
      BY <1>3, <2>2
    <3> QED
      BY <2>2, <3>1, NewStands
  <2> QED
    BY <1>3, <2>1, <2>2
<1> QED
  BY <1>2, <1>4

(***************************************************************************)
(* A hold that was answered 201 stands until its time is up or a request   *)
(* ends it, a confirmed one keeps its booking and a released one stays     *)
(* away, however requests are repeated, delayed, dropped or interleaved.   *)
(***************************************************************************)
THEOREM AnswersStayTrue == SignedSpec => []AnswersStand
<1>1. SignedInit => AnswersStand
  BY DEF SignedInit, Init, AnswersStand
<1>2. CallsFit /\ TypeOK /\ AnswersStand /\ [SignedNext]_signedVars => AnswersStand'
  BY StandsStep DEF TypeOK
<1> QED
  BY <1>1, <1>2, CallsInvariant, TypeCorrect, PTL DEF SignedSpec

(***************************************************************************)
(* No two handlers ever report the same hold made, and no two report its   *)
(* end, be it two confirms, two releases or one of each: without a key,    *)
(* under two keys, or under one key while the first request is at work.    *)
(***************************************************************************)
EachHoldOnce ==
  \A i, j \in 1..Len(ran) : i < j =>
    /\ Made(ran[i]) /\ Made(ran[j]) => ran[i].resp.what # ran[j].resp.what
    /\ \A h \in Refs : ~(Ended(ran[i], h) /\ Ended(ran[j], h))

\* As EachHoldOnce says, a hold is made once and ended once, with keys or without.
THEOREM HoldsEndOnce == SignedSpec => []EachHoldOnce
<1>1. SignedInit => EachHoldOnce
  BY DEF SignedInit, Init, EachHoldOnce
<1>2. CallsFit /\ TypeOK /\ AnswersStand /\ EachHoldOnce /\ [SignedNext]_signedVars
        => EachHoldOnce'
  <2> SUFFICES ASSUME CallsFit, TablesTypeOK, AnswersStand, EachHoldOnce,
                      [SignedNext]_signedVars,
                      NEW i \in 1..Len(ran'), NEW j \in 1..Len(ran'), i < j
               PROVE  /\ Made(ran'[i]) /\ Made(ran'[j]) =>
                           ran'[i].resp.what # ran'[j].resp.what
                      /\ \A h \in Refs : ~(Ended(ran'[i], h) /\ Ended(ran'[j], h))
    BY DEF EachHoldOnce, TypeOK
  <2>1. /\ Len(ran) \in Nat /\ \A k \in 1..Len(ran) : ran'[k] = ran[k]
        /\ Len(ran') = Len(ran) \/ Len(ran') = Len(ran) + 1
    BY HistoryGrows
  <2>2. CASE j \in 1..Len(ran)
    BY <2>1, <2>2 DEF EachHoldOnce
  <2>3. CASE j = Len(ran) + 1
    <3>1. i \in 1..Len(ran) /\ ran'[i] = ran[i] /\ Len(ran') = j /\ j \in Nat
      BY <2>1, <2>3
    <3>2. /\ Made(ran[i]) => ran[i].resp.what \in issued
          /\ \A h : Ended(ran[i], h) => h \notin Active
      BY <3>1 DEF AnswersStand, HoldStands, Ended, Active
    <3>3. /\ Made(ran'[j]) => ran'[j].resp.what \notin issued
          /\ \A h : Ended(ran'[j], h) => h \in Active
      BY <2>3, <3>1, NewStands
    <3> QED
      BY <3>1, <3>2, <3>3
  <2> QED
    BY <2>1, <2>2, <2>3
<1> QED
  BY <1>1, <1>2, AnswersStayTrue, CallsInvariant, TypeCorrect, PTL DEF SignedSpec

=============================================================================
