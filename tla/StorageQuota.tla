---------------------------- MODULE StorageQuota ----------------------------
(***************************************************************************)
(* The billing gates (backend/billing/enforce.go) in front of the control  *)
(* plane (backend/integration/cloud): a call resolves the entitlement of   *)
(* its account, over the network and under no lock, and then decides; a    *)
(* storage call reserves its bytes under a lock and holds them until its   *)
(* caller has committed the write or returns.                              *)
(*                                                                         *)
(* The control plane changes its mind and fails at any time.  An answer    *)
(* can be slow, so that an older one is remembered after a newer one.      *)
(***************************************************************************)
EXTENDS Naturals, FiniteSets

CONSTANTS
  Account,       \* billed accounts
  Call,          \* calls of a gate, each in a goroutine of its own
  Bytes,         \* sizes of writes
  Seats,         \* seats in use, as callers of GateSeats count them
  Entitlements,  \* what the control plane can answer
  TTL,           \* entCacheTTL
  Timeout,       \* of the HTTP client; and an answered call goes on within it
  MaxMetered,    \* bound: bytes metered without a gate
  MaxTime        \* bound: the clock

\* A limit of 0 is no limit; an absent feature is an enabled one.
Entitlement == [suspended : BOOLEAN, cap : Nat, seats : Nat, office : BOOLEAN]

\* seam.DefaultEntitlement: unlimited.
DefaultEntitlement == [suspended |-> FALSE, cap |-> 0, seats |-> 0, office |-> TRUE]

ASSUME EntitlementsAssumption ==
  Entitlements \subseteq Entitlement /\ DefaultEntitlement \in Entitlements
ASSUME AccountAssumption == Account # {}
ASSUME BytesAssumption == Bytes \subseteq Nat \ {0}
ASSUME SeatsAssumption == Seats \subseteq Nat
ASSUME CallAssumption == IsFiniteSet(Call)
ASSUME TimeAssumption == TTL \in Nat \ {0} /\ Timeout \in Nat /\ MaxTime \in Nat
ASSUME MeteredAssumption == MaxMetered \in Nat

VARIABLES
  now,
  plane,      \* plane[a]: the entitlement of a at the control plane
  entCache,   \* entCache[a]: the last remembered answer and when it was remembered
  committed,  \* committed[a]: bytes in durable use
  reserved,   \* reserved[a]: bytes held by storage calls in flight
  call,       \* call[c]: where a gate call stands
  metered,    \* history: bytes of committed[a] that no gate has admitted
  peak,       \* history: the largest finite cap that a ever had
  suspendedAt \* history: since when a is suspended at the control plane, or Never

vars == <<now, plane, entCache, committed, reserved, call, metered, peak, suspendedAt>>

NoEntry == [fetched |-> MaxTime + 1, ent |-> DefaultEntitlement]
Never == MaxTime + 1

\* A call before and after its use.  started: when it asked, 0 once it is resolved.
\* at: when its entitlement was resolved, while it is not degraded and not used.
\* n: the bytes that it has reserved.  What a gate is called for shows when it decides.
Idle ==
  [stage |-> "idle", account |-> CHOOSE a \in Account : TRUE, n |-> 0,
   started |-> 0, ent |-> DefaultEntitlement, degraded |-> FALSE, at |-> 0,
   active |-> FALSE, done |-> FALSE]

\* "asking": waits for the control plane; "answered": has an answer that is not
\* remembered yet; "resolved": has its entitlement; "allowed": goes on with what was gated.
Stage == {"idle", "asking", "answered", "resolved", "allowed"}

CallState ==
  [stage : Stage, account : Account, n : Nat, started : Nat,
   ent : Entitlements, degraded : BOOLEAN, at : Nat, active : BOOLEAN, done : BOOLEAN]

TypeOK ==
  /\ now \in 0 .. MaxTime
  /\ plane \in [Account -> Entitlements]
  /\ entCache \in [Account -> [fetched : 0 .. MaxTime + 1, ent : Entitlements]]
  /\ \A a \in Account : entCache[a] = NoEntry \/ entCache[a].fetched <= now
  /\ committed \in [Account -> Nat]
  /\ reserved \in [Account -> Nat]
  /\ call \in [Call -> CallState]
  /\ metered \in [Account -> Nat]
  /\ peak \in [Account -> Nat]
  /\ suspendedAt \in [Account -> 0 .. MaxTime + 1]

\* Configure: empty books and an empty cache.
Init ==
  /\ now = 0
  /\ plane \in [Account -> Entitlements]
  /\ entCache = [a \in Account |-> NoEntry]
  /\ committed = [a \in Account |-> 0]
  /\ reserved = [a \in Account |-> 0]
  /\ call = [c \in Call |-> Idle]
  /\ metered = [a \in Account |-> 0]
  /\ peak = [a \in Account |-> plane[a].cap]
  /\ suspendedAt = [a \in Account |-> IF plane[a].suspended THEN 0 ELSE Never]

Larger(m, n) == IF m < n THEN n ELSE m

\* The control plane changes the entitlement of an account.
Change(a, ent) ==
  /\ ent # plane[a]
  /\ plane' = [plane EXCEPT ![a] = ent]
  /\ peak' = [peak EXCEPT ![a] = Larger(@, ent.cap)]
  /\ suspendedAt' = [suspendedAt EXCEPT ![a] =
       IF ~ ent.suspended THEN Never ELSE IF plane[a].suspended THEN @ ELSE now]
  /\ UNCHANGED <<now, entCache, committed, reserved, call, metered>>

\* Time passes; the HTTP client lets no call ask for longer than its timeout.
PassTime ==
  /\ now < MaxTime
  /\ \A c \in Call :
       call[c].stage \in {"asking", "answered"} => now < call[c].started + Timeout
  /\ now' = now + 1
  /\ UNCHANGED <<plane, entCache, committed, reserved, call, metered, peak, suspendedAt>>

----------------------------------------------------------------------------
\* entitlementFor

\* A gate is called and asks the control plane for the entitlement.
Ask(c, a) ==
  /\ call[c].stage = "idle"
  /\ call' = [call EXCEPT ![c] = [Idle EXCEPT !.stage = "asking", !.account = a, !.started = now]]
  /\ UNCHANGED <<now, plane, entCache, committed, reserved, metered, peak, suspendedAt>>

\* The control plane answers with what holds now.
Answer(c) ==
  /\ call[c].stage = "asking"
  /\ call' = [call EXCEPT ![c].stage = "answered", ![c].ent = plane[call[c].account]]
  /\ UNCHANGED <<now, plane, entCache, committed, reserved, metered, peak, suspendedAt>>

\* The answer is remembered and used.
Remember(c) ==
  /\ call[c].stage = "answered"
  /\ call' = [call EXCEPT ![c].stage = "resolved", ![c].at = now, ![c].started = 0]
  /\ entCache' = [entCache EXCEPT ![call[c].account] =
                    [fetched |-> now, ent |-> call[c].ent]]
  /\ UNCHANGED <<now, plane, committed, reserved, metered, peak, suspendedAt>>

\* Mutant: an entry is trusted whatever its age.
WarmForever(a) == entCache[a] # NoEntry

Warm(a) == entCache[a] # NoEntry /\ now < entCache[a].fetched + TTL

\* Mutant: with nothing remembered, the call is tried again instead.
FailOverWarm(c) ==
  LET a == call[c].account IN
  /\ call[c].stage = "asking" /\ Warm(a)
  /\ call' = [call EXCEPT ![c].stage = "resolved",
                          ![c].started = 0, ![c].at = IF Warm(a) THEN now ELSE 0,
                          ![c].ent = entCache[a].ent, ![c].degraded = FALSE]
  /\ UNCHANGED <<now, plane, entCache, committed, reserved, metered, peak, suspendedAt>>

\* The control plane fails: a warm entry decides, otherwise the call fails open.
FailOver(c) ==
  LET a == call[c].account IN
  /\ call[c].stage = "asking"
  /\ call' = [call EXCEPT ![c].stage = "resolved",
                          ![c].started = 0, ![c].at = IF Warm(a) THEN now ELSE 0,
                          ![c].ent = IF Warm(a) THEN entCache[a].ent ELSE DefaultEntitlement,
                          ![c].degraded = ~ Warm(a)]
  /\ UNCHANGED <<now, plane, entCache, committed, reserved, metered, peak, suspendedAt>>

----------------------------------------------------------------------------
\* The gates

\* A denied call returns with an error; its deferred Release is a no-op.
Decide(c, allowed, counted, n) ==
  [call EXCEPT ![c] =
     IF allowed
       THEN [Idle EXCEPT !.stage = "allowed", !.account = call[c].account,
                         !.active = counted, !.n = n]
       ELSE Idle]

GateOffice(c) ==
  /\ call[c].stage = "resolved"
  /\ call' = Decide(c, ~ call[c].ent.suspended /\ call[c].ent.office, FALSE, 0)
  /\ UNCHANGED <<now, plane, entCache, committed, reserved, metered, peak, suspendedAt>>

GateSeats(c, used) ==
  LET ent == call[c].ent IN
  /\ call[c].stage = "resolved"
  /\ call' = Decide(c, ~ ent.suspended /\ (ent.seats = 0 \/ used < ent.seats), FALSE, 0)
  /\ UNCHANGED <<now, plane, entCache, committed, reserved, metered, peak, suspendedAt>>

\* GateStorage without a cap to count against: suspended or unlimited.
GateStorageUncounted(c) ==
  LET ent == call[c].ent IN
  /\ call[c].stage = "resolved"
  /\ ent.suspended \/ ent.cap = 0
  /\ call' = Decide(c, ~ ent.suspended, FALSE, 0)
  /\ UNCHANGED <<now, plane, entCache, committed, reserved, metered, peak, suspendedAt>>

\* Mutant: what other calls hold is not counted.
FitsCommitted(a, n, cap) == committed[a] + n <= cap

Fits(a, n, cap) == committed[a] + reserved[a] + n <= cap

\* GateStorage's check and reservation, one critical section of storageMu.
GateStorageCounted(c, n) ==
  LET a   == call[c].account
      ent == call[c].ent IN
  /\ call[c].stage = "resolved"
  /\ ~ ent.suspended /\ ent.cap > 0
  /\ call' = Decide(c, Fits(a, n, ent.cap), TRUE, n)
  /\ reserved' = IF Fits(a, n, ent.cap) THEN [reserved EXCEPT ![a] = @ + n] ELSE reserved
  /\ UNCHANGED <<now, plane, entCache, committed, metered, peak, suspendedAt>>

----------------------------------------------------------------------------
\* The reservation

\* reserved -= bytes, and the account's entry is deleted when nothing is left.
Unreserved(a, n) == [reserved EXCEPT ![a] = IF @ <= n THEN 0 ELSE @ - n]

\* The write succeeded.  A second call finds done and changes nothing; one on an
\* uncounted write only reports it.
Commit(c) ==
  LET a == call[c].account IN
  /\ call[c].active /\ ~ call[c].done
  /\ call' = [call EXCEPT ![c].done = TRUE]
  /\ reserved' = Unreserved(a, call[c].n)
  /\ committed' = [committed EXCEPT ![a] = @ + call[c].n]
  /\ UNCHANGED <<now, plane, entCache, metered, peak, suspendedAt>>

\* Mutant: a committed reservation is released as well.
ReleaseDone(c) ==
  /\ call[c].stage = "allowed"
  /\ call' = [call EXCEPT ![c] = Idle]
  /\ reserved' = IF call[c].active THEN Unreserved(call[c].account, call[c].n) ELSE reserved
  /\ UNCHANGED <<now, plane, entCache, committed, metered, peak, suspendedAt>>

\* The caller returns and with it the deferred Release, a no-op for an
\* uncounted and for a committed call.
Release(c) ==
  /\ call[c].stage = "allowed"
  /\ call' = [call EXCEPT ![c] = Idle]
  /\ reserved' = IF call[c].active /\ ~ call[c].done
                   THEN Unreserved(call[c].account, call[c].n) ELSE reserved
  /\ UNCHANGED <<now, plane, entCache, committed, metered, peak, suspendedAt>>

\* A write that nobody gated is counted all the same.
MeterStorage(a, n) ==
  /\ metered[a] + n <= MaxMetered
  /\ committed' = [committed EXCEPT ![a] = @ + n]
  /\ metered' = [metered EXCEPT ![a] = @ + n]
  /\ UNCHANGED <<now, plane, entCache, reserved, call, peak, suspendedAt>>

----------------------------------------------------------------------------
Gate(c) ==
  \/ GateOffice(c)
  \/ \E used \in Seats : GateSeats(c, used)
  \/ GateStorageUncounted(c)
  \/ \E n \in Bytes : GateStorageCounted(c, n)

Next ==
  \/ PassTime
  \/ \E a \in Account :
       \/ \E ent \in Entitlements : Change(a, ent)
       \/ \E n \in Bytes : MeterStorage(a, n)
       \/ \E c \in Call : Ask(c, a)
  \/ \E c \in Call :
       Answer(c) \/ FailOver(c) \/ Remember(c) \/ Gate(c) \/ Commit(c) \/ Release(c)

\* A goroutine goes on: its HTTP client gives up after the timeout, and its caller
\* returns.  Nothing makes the control plane answer, or a caller commit.
Fairness == \A c \in Call : WF_vars(FailOver(c) \/ Remember(c) \/ Gate(c) \/ Release(c))

Spec == Init /\ [][Next]_vars
FairSpec == Spec /\ Fairness

----------------------------------------------------------------------------
\* Bytes of a held by calls that have been admitted against a cap and are neither
\* committed nor released, told apart by their call.
Holds(c, a) ==
  call[c].stage = "allowed" /\ call[c].active /\ ~ call[c].done /\ call[c].account = a
Held(a) == UNION {{c} \X (1 .. call[c].n) : c \in {d \in Call : Holds(d, a)}}

\* What an account has reserved is what its calls in flight hold: no failed write
\* keeps bytes, and none gives back another's (StorageReservation: exactly one of
\* Commit and Release counts).
ReservedExact == \A a \in Account : reserved[a] = Cardinality(Held(a))

\* Calls that overlap, each with an entitlement resolved before the lock was taken,
\* never admit more together than the largest cap the account ever had.
GatedWithinCap ==
  \A a \in Account : committed[a] + reserved[a] <= peak[a] + metered[a]

\* A suspension stops the account once every older answer has aged out, whether the
\* control plane answers, slowly, or a remembered answer stands in for it.
SuspensionReaches ==
  [][\A c \in Call :
       /\ call[c].stage = "resolved" /\ ~ call[c].degraded
       /\ call'[c].stage = "allowed"
       => ~ (suspendedAt[call[c].account] + TTL + Timeout <= call[c].at)]_vars

\* A control plane that does not answer keeps no call waiting: every call is decided,
\* goes on and returns, and what it held is free again.
EveryCallReturns == \A c \in Call : call[c].stage = "asking" ~> call[c] = Idle

============================================================================
