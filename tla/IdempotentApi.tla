---------------------------- MODULE IdempotentApi ----------------------------
(***************************************************************************)
(* The HTTP layer of engine-server: the idempotency cache around the write *)
(* endpoints and the status codes of the handlers.  A request looks the    *)
(* cache up, runs its handler and stores the response, in three database   *)
(* round trips that other requests, a timeout or a restart can separate.   *)
(* The handler's own transaction is one step of the ledger, which is what  *)
(* EngineTxn implements.  Time passes between the start of a handler and   *)
(* its commit: the expiry of a hold is computed, and that of a confirmed   *)
(* one is tested, before the wait for connections and row locks is over.   *)
(***************************************************************************)
EXTENDS SeatTables, Sequences

CONSTANTS
  Workers,      \* request handlers of all engine instances
  Services,     \* X-Service-Id of the callers
  Keys,         \* Idempotency-Key headers of the requests
  NoKey,        \* the header is absent or blank (can be in Keys)
  SeatBodies,   \* bodies of hold and cancel-seats, as [seat, legs]
  NoBody,       \* the body of a release
  CacheTtl,     \* IDEMPOTENCY_TTL, in ticks
  MaxRuns,      \* bound: handlers run
  MaxFaults     \* bound: failures

ASSUME ApiAssumption ==
  /\ SeatBodies \subseteq [seat : Seats, legs : SUBSET Legs]
  /\ CacheTtl \in Nat
  /\ MaxRuns \in Nat
  /\ MaxFaults \in Nat

VARIABLES
  cache,        \* engine_idempotency_cache: scoped key -> [body, resp, expires_at]
  call,         \* what each handler is doing, and since when
  ran,          \* history: the handlers that finished, as [rq, resp]
  faults        \* failures so far

vars == <<now, tables, cache, call, ran, faults>>

Ledger == INSTANCE SeatLedger

HoldBody(b, ttl) == [seat |-> b.seat, legs |-> b.legs, ttl |-> ttl]

\* The write requests a client can send, given the references it has learnt.
HoldRequests ==
  {[svc |-> s, kind |-> "hold", ref |-> NoRef, key |-> k, body |-> HoldBody(b, ttl)] :
     s \in Services, k \in Keys, b \in SeatBodies, ttl \in Ttls}
CancelRequests ==
  {[svc |-> s, kind |-> "cancel", ref |-> NoRef, key |-> k, body |-> b] :
     s \in Services, k \in Keys, b \in SeatBodies}
ConfirmRequests(refs) ==
  {[svc |-> s, kind |-> "confirm", ref |-> h, key |-> k, body |-> b] :
     s \in Services, h \in refs, k \in Keys, b \in Bookings}
ReleaseRequests(refs) ==
  {[svc |-> s, kind |-> "release", ref |-> h, key |-> k, body |-> NoBody] :
     s \in Services, h \in refs, k \in Keys}

Requests(refs) ==
  {rq \in HoldRequests \cup CancelRequests \cup ConfirmRequests(refs)
            \cup ReleaseRequests(refs) : rq.kind \in Kinds}

\* Slip: the key is scoped by the endpoint, not by the service.
UnscopedKey(rq) == <<rq.kind, rq.ref, rq.key>>

\* sha256(svc_id | method | path | key); method and path stand for the
\* endpoint and, in confirm and release, for the reference.
ScopedKey(rq) == <<rq.svc, rq.kind, rq.ref, rq.key>>

\* Slip: only successes are cached.
CacheableSuccess(resp) == resp.status \in {200, 201}

\* 2xx, 409 and 422 are taken for deterministic; 400 and 5xx are not.
Cacheable(resp) == resp.status \in {200, 201, 409, 422}

Live(k) == k \in DOMAIN cache /\ cache[k].expires_at > now

Init ==
  /\ TablesInit
  /\ cache = [k \in {} |-> NoRef]
  /\ call = [w \in Workers |-> [at |-> "idle"]]
  /\ ran = <<>>
  /\ faults = 0

-----------------------------------------------------------------------------
(* middleware/idempotency.rs                                               *)

At(w, place) == call[w].at = place

Goto(w, c) == call' = [call EXCEPT ![w] = c]

Send(w, rq) ==
  /\ At(w, "idle")
  /\ Goto(w, [at |-> IF rq.key = NoKey THEN "run" ELSE "get",
              rq |-> rq, since |-> now])
  /\ UNCHANGED <<now, tables, cache, ran, faults>>

\* A live entry answers: the cached response, or 409 if the body differs.
Replay(w) ==
  /\ At(w, "get")
  /\ Live(ScopedKey(call[w].rq))
  /\ cache[ScopedKey(call[w].rq)].body = call[w].rq.body
  /\ Goto(w, [at |-> "idle"])
  /\ UNCHANGED <<now, tables, cache, ran, faults>>

Mismatch(w) ==
  /\ At(w, "get")
  /\ Live(ScopedKey(call[w].rq))
  /\ cache[ScopedKey(call[w].rq)].body # call[w].rq.body
  /\ Goto(w, [at |-> "idle"])
  /\ UNCHANGED <<now, tables, cache, ran, faults>>

Miss(w) ==
  /\ At(w, "get")
  /\ ~Live(ScopedKey(call[w].rq))
  /\ Goto(w, [call[w] EXCEPT !.at = "run", !.since = now])
  /\ UNCHANGED <<now, tables, cache, ran, faults>>

\* The handler is done; its response goes to the cache or to the client.
Finish(w, resp) ==
  LET rq == call[w].rq
  IN  /\ Len(ran) < MaxRuns
      /\ ran' = Append(ran, [rq |-> rq, resp |-> resp])
      /\ Goto(w, IF rq.key # NoKey /\ Cacheable(resp)
                 THEN [at |-> "put", rq |-> rq, resp |-> resp]
                 ELSE [at |-> "idle"])
      /\ UNCHANGED cache

\* A response without an expires_at.
Respond(w, status, what) ==
  Finish(w, [status |-> status, what |-> what, until |-> 0])

Entry(w, skew) ==
  [body |-> call[w].rq.body, resp |-> call[w].resp,
   expires_at |-> now + skew + CacheTtl]

\* Slip: ON CONFLICT (key) DO UPDATE without the WHERE.
PutAlways(w, skew) ==
  LET k == ScopedKey(call[w].rq) IN
  /\ At(w, "put")
  /\ cache' = [x \in DOMAIN cache \cup {k} |->
                 IF x = k THEN Entry(w, skew) ELSE cache[x]]
  /\ Goto(w, [at |-> "idle"])
  /\ UNCHANGED <<now, tables, ran, faults>>

\* Slip: ON CONFLICT (key) DO NOTHING.
PutNew(w, skew) ==
  LET k == ScopedKey(call[w].rq) IN
  /\ At(w, "put")
  /\ cache' = [x \in DOMAIN cache \cup {k} |->
                 IF x = k /\ k \notin DOMAIN cache THEN Entry(w, skew) ELSE cache[x]]
  /\ Goto(w, [at |-> "idle"])
  /\ UNCHANGED <<now, tables, ran, faults>>

\* INSERT ... ON CONFLICT (key) DO UPDATE ... WHERE expires_at <= now()
Put(w, skew) ==
  LET k == ScopedKey(call[w].rq) IN
  /\ At(w, "put")
  /\ cache' = [x \in DOMAIN cache \cup {k} |->
                 IF x = k /\ ~Live(k) THEN Entry(w, skew) ELSE cache[x]]
  /\ Goto(w, [at |-> "idle"])
  /\ UNCHANGED <<now, tables, ran, faults>>

\* sweep_expired
Sweep ==
  /\ cache' = Restrict(cache, {k \in DOMAIN cache : Live(k)})
  /\ UNCHANGED <<now, tables, call, ran, faults>>

-----------------------------------------------------------------------------
(* routes.rs: the handlers, and what they answer.                          *)

Runs(w, kind) == At(w, "run") /\ call[w].rq.kind = kind

HoldRefused(w) ==
  LET b == call[w].rq.body
      seeded == {b.seat} \X b.legs \subseteq Rows
  IN  /\ Runs(w, "hold")
      /\ \/ b.legs = {} /\ Respond(w, 400, "BAD_REQUEST")
         \/ b.legs # {} /\ ~seeded /\ Respond(w, 422, "INCOMPLETE_INVENTORY")
         \/ b.legs # {} /\ seeded /\ (\E r \in Cover(b.seat, b.legs) : ~Free(r))
            /\ Respond(w, 409, "SEAT_CONFLICT")
      /\ UNCHANGED <<now, tables, faults>>

\* The expiry is taken when the hold is asked for, on the engine's clock; the
\* transaction begins later, and commits later still.  The 201 names it.
HoldMade(w, ref) ==
  LET b == call[w].rq.body
  IN  /\ Runs(w, "hold")
      /\ \E asked \in call[w].since..now, skew \in Skews :
           LET expiry == asked + skew + b.ttl
           IN  /\ \E created \in asked..now :
                    Ledger!Hold(ref, b.seat, b.legs, created, expiry)
               /\ Finish(w, [status |-> 201, what |-> ref, until |-> expiry])
      /\ UNCHANGED faults

\* expires_at > now(), which is the time the transaction began: some time
\* since the handler was called.
Valid(ref, began) == ref \in DOMAIN holds /\ holds[ref].expires_at > began

ConfirmRefused(w) ==
  LET ref == call[w].rq.ref
  IN  /\ Runs(w, "confirm")
      /\ \E began \in call[w].since..now :
           \/ ~Valid(ref, began) /\ Respond(w, 409, "HOLD_EXPIRED_OR_MISSING")
           \/ Valid(ref, began) /\ ref \in Consumed
              /\ Respond(w, 409, "HOLD_ALREADY_CONSUMED")
      /\ UNCHANGED <<now, tables, faults>>

Confirmed(w) ==
  LET rq == call[w].rq
  IN  /\ Runs(w, "confirm")
      /\ \E began \in call[w].since..now : Valid(rq.ref, began)
      /\ Ledger!Confirm(rq.ref, rq.body)
      /\ Respond(w, 200, "confirmed")
      /\ UNCHANGED faults

\* A release that finds no active hold is a 200 too, with success: false.
ReleaseMissed(w) ==
  /\ Runs(w, "release")
  /\ call[w].rq.ref \notin Active
  /\ Respond(w, 200, "not_released")
  /\ UNCHANGED <<now, tables, faults>>

Released(w) ==
  /\ Runs(w, "release")
  /\ Ledger!Release(call[w].rq.ref)
  /\ Respond(w, 200, "released")
  /\ UNCHANGED faults

Cancelled(w) ==
  /\ Runs(w, "cancel")
  /\ Ledger!Cancel(call[w].rq.body.seat, call[w].rq.body.legs)
  /\ Respond(w, 200, "cancelled")
  /\ UNCHANGED faults

-----------------------------------------------------------------------------
(* Failures and the background.                                            *)

Fault == faults < MaxFaults /\ faults' = faults + 1

\* The transaction fails: 500, which is not cached.
HandlerFails(w) ==
  /\ Fault
  /\ At(w, "run")
  /\ Respond(w, 500, "error")
  /\ UNCHANGED <<now, tables>>

\* The cache write fails: the client gets its answer, the cache does not.
PutFails(w) ==
  /\ Fault
  /\ At(w, "put")
  /\ Goto(w, [at |-> "idle"])
  /\ UNCHANGED <<now, tables, cache, ran>>

\* The client gave up (TransityTerminal aborts after its timeout) or the
\* engine restarts: the request is dropped where it is, without an answer.
Dropped(w) ==
  /\ Fault
  /\ ~At(w, "idle")
  /\ Goto(w, [at |-> "idle"])
  /\ UNCHANGED <<now, tables, cache, ran>>

Reap(refs) ==
  /\ Ledger!Reap(refs)
  /\ UNCHANGED <<cache, call, ran, faults>>

Tick ==
  /\ Ledger!Tick
  /\ UNCHANGED <<cache, call, ran, faults>>

Handle(w) ==
  \/ HoldRefused(w)
  \/ \E ref \in Refs : HoldMade(w, ref)
  \/ ConfirmRefused(w)
  \/ Confirmed(w)
  \/ ReleaseMissed(w)
  \/ Released(w)
  \/ Cancelled(w)

Next ==
  \/ \E w \in Workers :
       \/ \E rq \in Requests(issued) : Send(w, rq)
       \/ Replay(w) \/ Mismatch(w) \/ Miss(w)
       \/ Handle(w)
       \/ \E skew \in Skews : Put(w, skew)
       \/ HandlerFails(w) \/ PutFails(w) \/ Dropped(w)
  \/ Sweep
  \/ \E refs \in SUBSET Refs : Reap(refs)
  \/ Tick

Spec == Init /\ [][Next]_vars

-----------------------------------------------------------------------------
(* Properties *)

Keyed(i) == ran[i].rq.key # NoKey

(***************************************************************************)
(* A replayed response is one that a handler gave to the same request:     *)
(* same service, endpoint, reference, key and body.                        *)
(***************************************************************************)
SameRequest(a, b) == \A f \in {"svc", "kind", "ref", "key", "body"} : a[f] = b[f]

ReplayIsOwnResponse ==
  [][\A w \in Workers : Replay(w) =>
       \E i \in 1..Len(ran) :
         /\ SameRequest(ran[i].rq, call[w].rq)
         /\ ran[i].resp = cache[ScopedKey(call[w].rq)].resp]_vars

(***************************************************************************)
(* A live entry never changes: a slow duplicate does not overwrite what    *)
(* others may have been told already (put: "concurrent winner").           *)
(***************************************************************************)
LiveEntryKept ==
  [][\A k \in DOMAIN cache : Live(k) => k \in DOMAIN cache' /\ cache'[k] = cache[k]]_vars

(***************************************************************************)
(* After a store the key has a live entry: an expired row that nobody      *)
(* swept yet does not keep the response out (comment on put).              *)
(***************************************************************************)
StoredIsFound ==
  [][\A w \in Workers, skew \in Skews :
       LET k == ScopedKey(call[w].rq) IN
       Put(w, skew) => k \in DOMAIN cache' /\ cache'[k].expires_at > now']_vars

(***************************************************************************)
(* "Same key + different body -> 409 Conflict" (idempotency.rs): under one *)
(* key no two different bodies are both carried out.                       *)
(***************************************************************************)
DifferentBodyRefused ==
  \A i, j \in 1..Len(ran) :
    Keyed(i) /\ ScopedKey(ran[i].rq) = ScopedKey(ran[j].rq)
    /\ {ran[i].resp.status, ran[j].resp.status} \subseteq {200, 201} =>
      ran[i].rq.body = ran[j].rq.body

(***************************************************************************)
(* "The engine's confirm is idempotent per Idempotency-Key for 24 hours":  *)
(* a confirm that was carried out is not refused when it is sent again     *)
(* with its key.                                                           *)
(***************************************************************************)
ConfirmIdempotent ==
  \A i, j \in 1..Len(ran) :
    i < j /\ Keyed(i) /\ ran[i].rq = ran[j].rq /\ ran[i].rq.kind = "confirm"
    /\ ran[i].resp.status = 200 => ran[j].resp.status = 200

=============================================================================
