----------------------------- MODULE SignedApi -----------------------------
(***************************************************************************)
(* The service-to-service protocol as a whole: signed requests, the HMAC   *)
(* layer that refuses old ones, and the idempotency layer that answers     *)
(* repeated ones.  The network is the clients' and their proxies': a       *)
(* request that was signed once can be delivered late, repeatedly and in   *)
(* any order, to any engine instance, while the client that gave it up     *)
(* already sends a retry, signed anew, under the same key.                 *)
(*                                                                         *)
(* Clients hold the shared secret and send well-formed headers, so the     *)
(* checks that remain are the timestamp and the allowlist.  A request the  *)
(* layer refuses changes nothing.                                          *)
(***************************************************************************)
EXTENDS IdempotentApi

CONSTANTS
  HmacSkew,     \* HMAC_SKEW_SECS, in ticks
  ClientSkews,  \* client clock minus database clock
  LookupTime,   \* time from the check of a timestamp to the cache lookup
  Allowed       \* ALLOWED_SERVICE_IDS; {} switches the allowlist off

(***************************************************************************)
(* Twice the accepted skew (60 seconds), what the engines' clocks differ   *)
(* by, and the time a verified request takes to its lookup are together    *)
(* less than the lifetime of a cache entry (24 hours).  The last of these  *)
(* is the deployment's: the engine reads a request's body after it checked *)
(* the timestamp, and sets no limit to that; clients and proxies do.       *)
(***************************************************************************)
ASSUME SignedAssumption ==
  /\ HmacSkew \in Nat
  /\ LookupTime \in Nat
  /\ ClientSkews \subseteq Int
  /\ \A s, t \in Skews : CacheTtl > 2 * HmacSkew + LookupTime + s - 2 * t

VARIABLES
  times,        \* history: when each of the handlers in ran finished
  disturbed     \* history: scoped keys with two requests at once, or whose
                \* response was not stored

signedVars == <<vars, times, disturbed>>

\* The timestamps a client can have put on a request by now.
Timestamps == {t + skew : t \in 0..now, skew \in ClientSkews}

Signed(rq, ts) ==
  [svc |-> rq.svc, kind |-> rq.kind, ref |-> rq.ref, key |-> rq.key,
   body |-> rq.body, ts |-> ts]

\* Slip: only timestamps ahead of the engine's clock are refused.
VerifiedIfNotAhead(rq, clock) ==
  /\ rq.ts - clock <= HmacSkew
  /\ Allowed # {} => rq.svc \in Allowed

\* hmac.rs: |now - timestamp| <= skew, then the allowlist.
Verified(rq, clock) ==
  /\ clock - rq.ts \in -HmacSkew..HmacSkew
  /\ Allowed # {} => rq.svc \in Allowed

-----------------------------------------------------------------------------

Busy == {w \in Workers : ~At(w, "idle")}

Handled(w) == ScopedKey(call[w].rq)

\* The scoped keys that two handlers work on at once.
Contended ==
  {Handled(v) : v \in {u \in Busy : \E w \in Busy \ {u} : Handled(u) = Handled(w)}}

LiveKeys == {k \in DOMAIN cache : Live(k)}

\* The keys whose response is given up in this step without an entry.
Unstored ==
  {Handled(w) : w \in {v \in Workers : At(v, "put") /\ ~At(v, "put")'}} \ LiveKeys'

\* What the histories record of a step.
Recorded ==
  /\ times' = IF ran' = ran THEN times ELSE Append(times, now)
  /\ disturbed' = disturbed \cup Contended' \cup Unstored

\* A signed request reaches an engine instance and passes the HMAC layer.
\* Bound: while there is a run left for it.
Deliver(w, rq) ==
  /\ Len(ran) + Cardinality(Busy) < MaxRuns
  /\ \E skew \in Skews : Verified(rq, now + skew)
  /\ Send(w, rq)

\* A request whose timestamp was accepted is looked up, or dropped, in time.
SignedTick ==
  /\ \A w \in Workers : At(w, "get") => now < call[w].since + LookupTime
  /\ Tick

SignedInit ==
  /\ Init
  /\ times = <<>>
  /\ disturbed = {}

SignedNext ==
  /\ \/ \E w \in Workers :
          \/ \E rq \in Requests(issued), ts \in Timestamps : Deliver(w, Signed(rq, ts))
          \/ Replay(w) \/ Mismatch(w) \/ Miss(w)
          \/ Handle(w)
          \/ \E skew \in Skews : Put(w, skew)
          \/ HandlerFails(w) \/ PutFails(w) \/ Dropped(w)
     \/ Sweep
     \/ \E refs \in SUBSET Refs : Reap(refs)
     \/ SignedTick
  /\ Recorded

SignedSpec == SignedInit /\ [][SignedNext]_signedVars

-----------------------------------------------------------------------------
(* Properties *)

\* The tables, the cache and the histories have the expected shape.
TypeOK ==
  /\ TablesTypeOK
  /\ \A k \in DOMAIN cache : Cacheable(cache[k].resp)
  /\ Len(times) = Len(ran)
  /\ Len(ran) <= MaxRuns
  /\ faults \in 0..MaxFaults

\* A run of a keyed request that ends with an answer that can be stored.
Settled(i) ==
  /\ ran[i].rq.key # NoKey
  /\ ran[i].resp.status \notin {400, 500}
  /\ ScopedKey(ran[i].rq) \notin disturbed

(***************************************************************************)
(* A key runs its handler once per lifetime of a cache entry, whatever is  *)
(* sent under it again, retries signed anew included: a cancel sent twice  *)
(* frees its seat once, and does not free it for the next owner.  This     *)
(* needs requests that do not overlap, and that the response was stored.   *)
(***************************************************************************)
OneRunPerKey ==
  \A i, j \in 1..Len(ran) :
    i < j /\ Settled(i) /\ ScopedKey(ran[i].rq) = ScopedKey(ran[j].rq) =>
      \E skew \in Skews : times[j] >= times[i] + CacheTtl + skew

(***************************************************************************)
(* A signed request that was carried out is never carried out again,       *)
(* however often and however late it is delivered: as long as the HMAC     *)
(* layer accepts its timestamp, the cache still has its response.          *)
(***************************************************************************)
AtMostOnce ==
  \A i, j \in 1..Len(ran) :
    i < j /\ Settled(i) => ran[i].rq # ran[j].rq

Made(run) == run.rq.kind = "hold" /\ run.resp.status = 201
Booked(run) == run.rq.kind = "confirm" /\ run.resp.status = 200
Freed(run) == run.rq.kind = "release" /\ run.resp.what = "released"

\* The run confirmed or released hold h.
Ended(run, h) == (Booked(run) \/ Freed(run)) /\ run.rq.ref = h

\* The hold that run i made is in the table as it was asked for and answered,
\* a later run ended it, or the expires_at of the answer is past.
HoldStands(i) ==
  LET ref == ran[i].resp.what
      asked == ran[i].rq.body
      until == ran[i].resp.until
  IN  /\ ref \in issued
      /\ \/ /\ ref \in Active
            /\ holds[ref].seat = asked.seat /\ holds[ref].legs = asked.legs
            /\ holds[ref].expires_at = until
         \/ \E j \in i..Len(ran) : Ended(ran[j], ref)
         \/ until <= now

(***************************************************************************)
(* What a handler answered stays true, whatever other requests, retries    *)
(* and the reaper do: a hold that was answered 201 stands until the        *)
(* expires_at of that answer or until a request ends it; a confirmed one   *)
(* is active never again, and its row keeps that booking; a released one   *)
(* never comes back.  (A handler that waited long for its locks can answer *)
(* with an expires_at that is past already.)                               *)
(***************************************************************************)
AnswersStand ==
  \A i \in 1..Len(ran) :
    LET ref == ran[i].rq.ref IN
    /\ Made(ran[i]) => HoldStands(i)
    /\ Booked(ran[i]) =>
         /\ ref \in issued \ Active
         /\ ref \in Consumed => holds[ref].booking_id = ran[i].rq.body
    /\ Freed(ran[i]) => ref \in issued \ DOMAIN holds

=============================================================================
