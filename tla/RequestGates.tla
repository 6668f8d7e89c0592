---------------------------- MODULE RequestGates ----------------------------
(***************************************************************************)
(* What a write through the API passes before its handler (main.go):       *)
(* authentication by a session or by an API key, which the control plane   *)
(* validates and a cache remembers, and then a token bucket.               *)
(*                                                                         *)
(* On /api/spaces a bucket is per user; on /api/bot/v1 it is per key (keys *)
(* that differ in their first 16 characters).                              *)
(* The cache and each bucket have a lock of their own, and nothing is held *)
(* while the control plane is asked, which may be slow or fail.            *)
(***************************************************************************)
EXTENDS Integers

CONSTANTS
  Request,    \* requests, each in a goroutine of its own
  Key,        \* API keys
  User,
  Owner,      \* Owner[k]: the user that k acts as
  KeyTTL,     \* cacheTTL
  KeyTimeout, \* of the HTTP client
  Rate,       \* tokens per unit of time
  Burst,
  BucketTTL,  \* idle eviction window
  Horizon     \* bound: the clock

ASSUME KeysAssumption ==
  Key # {} /\ User # {} /\ Owner \in [Key -> User] /\ Key \cap User = {}
ASSUME LimitsAssumption ==
  /\ KeyTTL \in Nat \ {0} /\ KeyTimeout \in Nat /\ Horizon \in Nat
  /\ Rate \in Nat \ {0} /\ Burst \in Nat \ {0}
  \* A bucket that is evicted has been full again: with the ten minutes of main.go, for
  \* a burst of up to ten minutes of the rate.
  /\ BucketTTL \in Nat \ {0} /\ BucketTTL * Rate >= Burst

VARIABLES
  clock,
  grant,      \* grant[k]: what the control plane says of k
  cache,      \* cache[k]: the last remembered answer and when it was remembered
  request,    \* request[r]: how far r is
  entries,    \* entries[b]: the bucket under b, or NoBucket
  revokedAt,  \* history: since when k is not valid for Talk, or NotYet
  ideal       \* history: a bucket per b that is refilled at every instant and never evicted

gateVars == <<clock, grant, cache, request, entries, revokedAt, ideal>>

\* A valid key for Talk, or one that is not: invalid, or for other products only.
Grant == {"valid", "denied"}
NotYet == Horizon + 1
NoAnswer == [fetched |-> NotYet, res |-> "denied"]

BucketKey == User \cup Key
NoBucket == [tokens |-> 0, lastRefill |-> NotYet, lastSeen |-> NotYet]

\* "asking", "answered": of a key; "authenticated": before Get; "reserving": before
\* Reserve.  at: when it asked.  by: what it is authenticated with.
RequestStage == {"idle", "asking", "answered", "authenticated", "reserving"}
NoRequest ==
  [stage |-> "idle", by |-> "session", key |-> CHOOSE k \in Key : TRUE,
   bucket |-> CHOOSE a \in User : TRUE, at |-> 0, res |-> "denied"]

RequestState ==
  [stage : RequestStage, by : {"session", "key"}, key : Key, bucket : BucketKey,
   at : 0 .. Horizon, res : Grant]
Entry == [tokens : 0 .. Burst, lastRefill : 0 .. NotYet, lastSeen : 0 .. NotYet]

GatesTypeOK ==
  /\ clock \in 0 .. Horizon
  /\ grant \in [Key -> Grant]
  /\ cache \in [Key -> [fetched : 0 .. NotYet, res : Grant]]
  /\ request \in [Request -> RequestState]
  /\ entries \in [BucketKey -> Entry]
  /\ revokedAt \in [Key -> 0 .. NotYet]
  /\ ideal \in [BucketKey -> Int]
  /\ \A k \in Key : grant[k] = "valid" <=> revokedAt[k] = NotYet

GatesInit ==
  /\ clock = 0
  /\ grant \in [Key -> Grant]
  /\ cache = [k \in Key |-> NoAnswer]
  /\ request = [r \in Request |-> NoRequest]
  /\ entries = [b \in BucketKey |-> NoBucket]
  /\ revokedAt = [k \in Key |-> IF grant[k] = "valid" THEN NotYet ELSE 0]
  /\ ideal = [b \in BucketKey |-> Burst]

Least(m, n) == IF m < n THEN m ELSE n

\* The control plane revokes a key, or takes it back.
ChangeGrant(k, res) ==
  /\ res # grant[k]
  /\ grant' = [grant EXCEPT ![k] = res]
  /\ revokedAt' = [revokedAt EXCEPT ![k] = IF res = "valid" THEN NotYet ELSE clock]
  /\ UNCHANGED <<clock, cache, request, entries, ideal>>

\* The HTTP client gives up after its timeout; and Get and Reserve, two consecutive
\* statements, fall into one instant of a clock that counts eviction windows.
PassGateTime ==
  /\ clock < Horizon
  /\ \A r \in Request :
       /\ request[r].stage \in {"asking", "answered"} => clock < request[r].at + KeyTimeout
       /\ request[r].stage # "reserving"
  /\ clock' = clock + 1
  /\ ideal' = [b \in BucketKey |-> Least(Burst, ideal[b] + Rate)]
  /\ UNCHANGED <<grant, cache, request, entries, revokedAt>>

----------------------------------------------------------------------------
\* Authentication.  TalkAuth and APIKeyAuth do the same with a key.

\* The answer decides: 401 or 403, or the request goes on to the bucket of its route.
PassOn(r, k, b, res) ==
  request' = [request EXCEPT ![r] =
    IF res = "valid"
      THEN [NoRequest EXCEPT !.stage = "authenticated", !.by = "key", !.key = k, !.bucket = b]
      ELSE NoRequest]

\* A session is verified without any state; who fails is answered 401.
TalkAuth(r, a) ==
  /\ request[r].stage = "idle"
  /\ request' = [request EXCEPT ![r] = [NoRequest EXCEPT !.stage = "authenticated", !.bucket = a]]
  /\ UNCHANGED <<clock, grant, cache, entries, revokedAt, ideal>>

\* Mutant: an entry lives for one instant more.
FreshLonger(k) == cache[k] # NoAnswer /\ clock - cache[k].fetched <= KeyTTL

\* fromCache
Fresh(k) == cache[k] # NoAnswer /\ clock - cache[k].fetched < KeyTTL

\* A request with a key, on either route: b is its bucket.
Introspect(r, k, b) ==
  /\ request[r].stage = "idle"
  /\ IF Fresh(k) THEN PassOn(r, k, b, cache[k].res)
     ELSE request' = [request EXCEPT ![r] =
            [NoRequest EXCEPT !.stage = "asking", !.key = k, !.bucket = b, !.at = clock]]
  /\ UNCHANGED <<clock, grant, cache, entries, revokedAt, ideal>>

AnswerKey(r) ==
  /\ request[r].stage = "asking"
  /\ request' = [request EXCEPT ![r].stage = "answered", ![r].res = grant[request[r].key]]
  /\ UNCHANGED <<clock, grant, cache, entries, revokedAt, ideal>>

\* Valid or not, the answer is remembered.
RememberKey(r) ==
  LET k == request[r].key IN
  /\ request[r].stage = "answered"
  /\ cache' = [cache EXCEPT ![k] = [fetched |-> clock, res |-> request[r].res]]
  /\ PassOn(r, k, request[r].bucket, request[r].res)
  /\ UNCHANGED <<clock, grant, entries, revokedAt, ideal>>

\* The control plane fails: 503, and nothing is remembered.
FailClosed(r) ==
  /\ request[r].stage = "asking"
  /\ request' = [request EXCEPT ![r] = NoRequest]
  /\ UNCHANGED <<clock, grant, cache, entries, revokedAt, ideal>>

----------------------------------------------------------------------------
\* RateLimit

\* Mutant: an entry is seen only when it is made.
GetOnce(r) ==
  LET b == request[r].bucket IN
  /\ request[r].stage = "authenticated"
  /\ entries' = [entries EXCEPT ![b] =
       IF @ = NoBucket THEN [tokens |-> Burst, lastRefill |-> clock, lastSeen |-> clock] ELSE @]
  /\ request' = [request EXCEPT ![r].stage = "reserving"]
  /\ UNCHANGED <<clock, grant, cache, revokedAt, ideal>>

\* BucketStore.Get
Get(r) ==
  LET b == request[r].bucket IN
  /\ request[r].stage = "authenticated"
  /\ entries' = [entries EXCEPT ![b] =
       [IF @ = NoBucket THEN [tokens |-> Burst, lastRefill |-> clock, lastSeen |-> clock] ELSE @
         EXCEPT !.lastSeen = clock]]
  /\ request' = [request EXCEPT ![r].stage = "reserving"]
  /\ UNCHANGED <<clock, grant, cache, revokedAt, ideal>>

\* Bucket.Reserve: with a token the handler runs, otherwise the answer is 429.
Reserve(r) ==
  LET b == request[r].bucket
      tokens == Least(Burst, entries[b].tokens + Rate * (clock - entries[b].lastRefill)) IN
  /\ request[r].stage = "reserving"
  /\ entries' = [entries EXCEPT ![b].lastRefill = clock,
                                ![b].tokens = IF tokens >= 1 THEN tokens - 1 ELSE tokens]
  /\ ideal' = IF tokens >= 1 THEN [ideal EXCEPT ![b] = @ - 1] ELSE ideal
  /\ request' = [request EXCEPT ![r] = NoRequest]
  /\ UNCHANGED <<clock, grant, cache, revokedAt>>

\* evictLoop, one round.
Evict ==
  /\ entries' = [b \in BucketKey |->
       IF entries[b] # NoBucket /\ entries[b].lastSeen + BucketTTL < clock
         THEN NoBucket ELSE entries[b]]
  /\ entries' # entries
  /\ UNCHANGED <<clock, grant, cache, request, revokedAt, ideal>>

----------------------------------------------------------------------------
\* The steps of a request with a key.
APIKeyAuth(r) ==
  \/ \E k \in Key : \E b \in {k, Owner[k]} : Introspect(r, k, b)
  \/ AnswerKey(r) \/ RememberKey(r) \/ FailClosed(r)

\* The middleware of the rate limiter: its bucket, and then a token of it.
RateLimit(r) == Get(r) \/ Reserve(r)

GatesNext ==
  \/ PassGateTime \/ Evict
  \/ \E k \in Key, res \in Grant : ChangeGrant(k, res)
  \/ \E r \in Request :
       \/ \E a \in User : TalkAuth(r, a)
       \/ APIKeyAuth(r)
       \/ RateLimit(r)

GatesSpec == GatesInit /\ [][GatesNext]_gateVars

----------------------------------------------------------------------------
\* A revoked key lets no request pass once an answer to the slowest question that was
\* answered before can have aged out, also when answers overtake one another ("short
\* enough that a revoked key stops working promptly").
RevokedKeyStops ==
  [][\A r \in Request :
       /\ request[r].stage # "authenticated"
       /\ request'[r].stage = "authenticated" /\ request'[r].by = "key"
       => clock < revokedAt[request'[r].key] + KeyTTL + KeyTimeout]_gateVars

\* Requests that share a bucket, are throttled, and come back after an eviction never
\* get more than the burst and the rate since: a bucket that is never forgotten always
\* had a token for them ("Buckets idle for longer than ttl are evicted").
BurstBound == \A b \in BucketKey : ideal[b] >= 0

=============================================================================
