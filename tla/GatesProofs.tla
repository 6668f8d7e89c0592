----------------------------- MODULE GatesProofs -----------------------------
(***************************************************************************)
(* Theorems about the gates of a request, for any number of accounts,      *)
(* calls, users, requests and keys, any tiers, limits and times.           *)
(*                                                                         *)
(*   StorageQuota  the byte counters of the billing gates, and suspensions *)
(*   RequestGates  the rate limiter's buckets, and revoked API keys        *)
(***************************************************************************)
EXTENDS StorageQuota, RequestGates, FiniteSetTheorems, TLAPS

----------------------------------------------------------------------------
\* StorageQuota.  Two arguments: the reserved bytes of an account are the size of the set
\* of bytes that its calls hold, so that no step can take back more than it gave; and an
\* answer that does not know of a suspension is older than the suspension by no more than
\* the call was allowed to last.

Books == <<committed, reserved, metered, peak>>

\* Only an allowed call holds bytes.
HoldersAllowed == \A c \in Call : call[c].active => call[c].stage = "allowed"

\* No entitlement in use has a cap above the largest one.
CapsBelowPeak ==
  /\ \A a \in Account : plane[a].cap <= peak[a] /\ entCache[a].ent.cap <= peak[a]
  /\ \A c \in Call :
       call[c].stage \in {"answered", "resolved"} => call[c].ent.cap <= peak[call[c].account]

QuotaInv ==
  TypeOK /\ HoldersAllowed /\ CapsBelowPeak /\ ReservedExact /\ GatedWithinCap

----------------------------------------------------------------------------
\* Types

LEMMA DefaultTyped == DefaultEntitlement \in Entitlement /\ DefaultEntitlement.cap = 0
BY DEF DefaultEntitlement, Entitlement

LEMMA IdleTyped == Idle \in CallState /\ ~ Idle.active /\ Idle.stage = "idle"
BY AccountAssumption, EntitlementsAssumption DEF Idle, CallState, Stage

LEMMA InitTyped == Init => TypeOK
<1> SUFFICES ASSUME Init PROVE TypeOK OBVIOUS
<1>1. MaxTime + 1 \in 0 .. MaxTime + 1 /\ 0 \in 0 .. MaxTime /\ 0 \in 0 .. MaxTime + 1
  BY TimeAssumption
<1>2. NoEntry \in [fetched : 0 .. MaxTime + 1, ent : Entitlements]
  BY <1>1, EntitlementsAssumption DEF NoEntry
<1>3. \A a \in Account : plane[a].cap \in Nat
  BY EntitlementsAssumption DEF Init, Entitlement
<1> QED BY <1>1, <1>2, <1>3, IdleTyped DEF Init, TypeOK, Never

\* The state of a call that a gate has let through.
Through(a, counted, n) ==
  [Idle EXCEPT !.stage = "allowed", !.account = a, !.active = counted, !.n = n]

LEMMA ThroughTyped ==
  ASSUME NEW a \in Account, NEW n \in Nat
  PROVE  /\ Through(a, TRUE, n) \in CallState /\ Through(a, FALSE, 0) \in CallState
         /\ Through(a, TRUE, n).stage = "allowed" /\ Through(a, FALSE, 0).stage = "allowed"
         /\ Through(a, TRUE, n).active /\ ~ Through(a, FALSE, 0).active
         /\ Through(a, TRUE, n).account = a /\ Through(a, TRUE, n).n = n
         /\ ~ Through(a, TRUE, n).done
BY AccountAssumption, EntitlementsAssumption DEF Through, Idle, CallState, Stage

----------------------------------------------------------------------------
\* Counting the bytes that calls hold

\* The definitions of what is held, over any states of the calls; what one call
\* contributes to an account, and what all others do.
HoldsIn(cs, c, a) ==
  cs[c].stage = "allowed" /\ cs[c].active /\ ~ cs[c].done /\ cs[c].account = a
HeldIn(cs, a) == UNION {{c} \X (1 .. cs[c].n) : c \in {d \in Call : HoldsIn(cs, d, a)}}
Weight(cs, c, a) == IF HoldsIn(cs, c, a) THEN cs[c].n ELSE 0
Of(cs, c, a) == IF HoldsIn(cs, c, a) THEN {c} \X (1 .. cs[c].n) ELSE {}
Others(cs, c, a) ==
  UNION {{d} \X (1 .. cs[d].n) : d \in {e \in Call \ {c} : HoldsIn(cs, e, a)}}

LEMMA SliceFinite ==
  ASSUME NEW c, NEW n \in Nat
  PROVE  IsFiniteSet({c} \X (1 .. n)) /\ Cardinality({c} \X (1 .. n)) = n
<1>1. IsFiniteSet(1 .. n) /\ Cardinality(1 .. n) = n
  BY FS_Interval
<1>2. IsFiniteSet({c}) /\ Cardinality({c}) = 1
  BY FS_Singleton
<1> QED BY <1>1, <1>2, FS_Product

LEMMA OthersFinite ==
  ASSUME NEW cs \in [Call -> CallState], NEW c \in Call, NEW a \in Account
  PROVE  IsFiniteSet(Others(cs, c, a))
<1> DEFINE D == {e \in Call \ {c} : HoldsIn(cs, e, a)}
           f == [d \in D |-> {d} \X (1 .. cs[d].n)]
           S == {f[d] : d \in D}
<1>1. IsFiniteSet(D)
  BY CallAssumption, FS_Subset
<1>2. f \in Surjection(D, S)
  BY DEF Surjection
<1>3. IsFiniteSet(S)
  BY <1>1, <1>2, FS_Surjection
<1>4. ASSUME NEW T \in S PROVE IsFiniteSet(T)
  <2>1. PICK d \in D : T = {d} \X (1 .. cs[d].n)
    OBVIOUS
  <2>2. cs[d].n \in Nat
    BY DEF CallState
  <2> QED BY <2>1, <2>2, SliceFinite
<1>5. Others(cs, c, a) = UNION S
  BY DEF Others
<1> HIDE DEF S
<1> QED BY <1>3, <1>4, <1>5, FS_UNION

\* A call's own bytes and the others' make up what is held.
LEMMA HeldSplit ==
  ASSUME NEW cs \in [Call -> CallState], NEW c \in Call, NEW a \in Account
  PROVE  /\ Cardinality(Others(cs, c, a)) \in Nat
         /\ Weight(cs, c, a) \in Nat
         /\ Cardinality(HeldIn(cs, a)) = Cardinality(Others(cs, c, a)) + Weight(cs, c, a)
<1> DEFINE O == Others(cs, c, a)
           W == Of(cs, c, a)
<1>1. IsFiniteSet(O)
  BY OthersFinite
<1>2. cs[c].n \in Nat
  BY DEF CallState
<1>3. IsFiniteSet(W) /\ Cardinality(W) = Weight(cs, c, a)
  BY <1>2, SliceFinite, FS_EmptySet DEF Of, Weight
<1>4. HeldIn(cs, a) = O \cup W
  BY DEF HeldIn, Others, Of
<1>5. O \cap W = {}
  BY DEF Others, Of
<1>6. Cardinality(O) \in Nat /\ Weight(cs, c, a) \in Nat
  BY <1>1, <1>2, FS_CardinalityType DEF Weight
<1>7. Cardinality(O \cap W) = 0
  BY <1>5, FS_EmptySet
<1> HIDE DEF O, W
<1>8. Cardinality(O \cup W) = Cardinality(O) + Cardinality(W) - Cardinality(O \cap W)
  BY <1>1, <1>3, FS_Union
<1>9. Cardinality(O \cup W) = Cardinality(O) + Weight(cs, c, a)
  BY <1>3, <1>6, <1>7, <1>8
<1> QED BY <1>4, <1>6, <1>9 DEF O

\* A step of one call changes the sum by the change of that call's weight.
LEMMA HeldChange ==
  ASSUME TypeOK, TypeOK', NEW c \in Call, NEW a \in Account,
         \A d \in Call \ {c} : call'[d] = call[d]
  PROVE  /\ Cardinality(Held(a)) \in Nat
         /\ Weight(call, c, a) \in Nat /\ Weight(call', c, a) \in Nat
         /\ Weight(call, c, a) <= Cardinality(Held(a))
         /\ Cardinality(Held(a)') = Cardinality(Held(a)) - Weight(call, c, a)
                                     + Weight(call', c, a)
<1>1. Others(call', c, a) = Others(call, c, a)
  BY DEF Others, HoldsIn
<1>2. Held(a) = HeldIn(call, a) /\ Held(a)' = HeldIn(call', a)
  BY DEF Held, HeldIn, Holds, HoldsIn
<1>3. call \in [Call -> CallState] /\ call' \in [Call -> CallState]
  BY DEF TypeOK
<1> QED BY <1>1, <1>2, <1>3, HeldSplit

----------------------------------------------------------------------------
\* The steps

LEMMA CapTyped ==
  ASSUME TypeOK
  PROVE  /\ \A a \in Account : plane[a].cap \in Nat /\ entCache[a].ent.cap \in Nat
                              /\ peak[a] \in Nat
         /\ \A c \in Call : /\ call[c].ent.cap \in Nat /\ call[c].n \in Nat
                            /\ call[c].account \in Account
                            /\ call[c].active \in BOOLEAN /\ call[c].ent.suspended \in BOOLEAN
                            /\ call[c].ent \in Entitlements
BY EntitlementsAssumption DEF TypeOK, CallState, Entitlement

\* A step of a call that holds nothing, before and after, leaves the books as they are.
LEMMA QuietBooks ==
  ASSUME QuotaInv, TypeOK', NEW c \in Call,
         \A d \in Call \ {c} : call'[d] = call[d],
         ~ call[c].active, ~ call'[c].active, UNCHANGED Books
  PROVE  HoldersAllowed' /\ ReservedExact' /\ GatedWithinCap'
<1>1. HoldersAllowed'
  BY DEF QuotaInv, HoldersAllowed
<1>2. ASSUME NEW a \in Account
      PROVE  Cardinality(Held(a)') = Cardinality(Held(a))
  <2>1. Weight(call, c, a) = 0 /\ Weight(call', c, a) = 0
    BY DEF Weight, HoldsIn
  <2> QED BY <2>1, HeldChange DEF QuotaInv
<1>3. ReservedExact'
  BY <1>2 DEF QuotaInv, ReservedExact, Books
<1>4. GatedWithinCap'
  BY DEF QuotaInv, GatedWithinCap, Books
<1> QED BY <1>1, <1>3, <1>4

\* Steps that leave the calls and the reserved bytes alone.
LEMMA ElsewhereBooks ==
  ASSUME QuotaInv, UNCHANGED <<call, reserved>>
  PROVE  HoldersAllowed' /\ ReservedExact'
<1>1. \A a \in Account : Held(a)' = Held(a)
  BY DEF Held, Holds
<1> QED BY <1>1 DEF QuotaInv, HoldersAllowed, ReservedExact

LEMMA PassTimeInv ==
  ASSUME QuotaInv, PassTime
  PROVE  QuotaInv'
<1>1. TypeOK'
  BY TimeAssumption DEF QuotaInv, TypeOK, PassTime
<1>2. CapsBelowPeak' /\ GatedWithinCap'
  BY DEF QuotaInv, CapsBelowPeak, GatedWithinCap, PassTime
<1> QED BY <1>1, <1>2, ElsewhereBooks DEF QuotaInv, PassTime

LEMMA ChangeInv ==
  ASSUME QuotaInv, NEW a \in Account, NEW ent \in Entitlements, Change(a, ent)
  PROVE  QuotaInv'
<1>1. ent.cap \in Nat /\ peak[a] \in Nat
  BY EntitlementsAssumption DEF Entitlement, QuotaInv, TypeOK
<1>2. /\ Larger(peak[a], ent.cap) \in Nat
      /\ peak[a] <= Larger(peak[a], ent.cap) /\ ent.cap <= Larger(peak[a], ent.cap)
  BY <1>1 DEF Larger
<1>3. TypeOK'
  <2>1. Never \in 0 .. MaxTime + 1 /\ now \in 0 .. MaxTime + 1
    BY TimeAssumption DEF Never, QuotaInv, TypeOK
  <2> QED BY <1>2, <2>1 DEF QuotaInv, TypeOK, Change
<1>4. \A b \in Account : peak[b] <= peak'[b] /\ peak'[b] \in Nat
  BY <1>2 DEF QuotaInv, TypeOK, Change
<1>5. CapsBelowPeak'
  <2>1. \A b \in Account : plane'[b].cap <= peak'[b]
    BY <1>2 DEF QuotaInv, CapsBelowPeak, TypeOK, Change
  <2>2. \A b \in Account : entCache'[b].ent.cap <= peak'[b]
    BY <1>4, CapTyped DEF QuotaInv, CapsBelowPeak, Change
  <2>3. \A c \in Call : call'[c].stage \in {"answered", "resolved"}
          => call'[c].ent.cap <= peak'[call'[c].account]
    BY <1>4, CapTyped DEF QuotaInv, CapsBelowPeak, Change
  <2> QED BY <2>1, <2>2, <2>3 DEF CapsBelowPeak
<1>6. GatedWithinCap'
  <2> SUFFICES ASSUME NEW b \in Account
               PROVE  committed[b] + reserved[b] <= peak'[b] + metered[b]
    BY DEF GatedWithinCap, Change
  <2>1. committed[b] + reserved[b] <= peak[b] + metered[b]
    BY DEF QuotaInv, GatedWithinCap
  <2>2. committed[b] \in Nat /\ reserved[b] \in Nat /\ metered[b] \in Nat /\ peak[b] \in Nat
    BY DEF QuotaInv, TypeOK
  <2> QED BY <2>1, <2>2, <1>4
<1> QED BY <1>3, <1>5, <1>6, ElsewhereBooks DEF QuotaInv, Change

LEMMA MeterInv ==
  ASSUME QuotaInv, NEW a \in Account, NEW n \in Bytes, MeterStorage(a, n)
  PROVE  QuotaInv'
<1>1. n \in Nat
  BY BytesAssumption
<1>2. TypeOK'
  BY <1>1 DEF QuotaInv, TypeOK, MeterStorage
<1>3. CapsBelowPeak'
  BY DEF QuotaInv, CapsBelowPeak, MeterStorage
<1>4. GatedWithinCap'
  <2> SUFFICES ASSUME NEW b \in Account
               PROVE  committed'[b] + reserved[b] <= peak[b] + metered'[b]
    BY DEF GatedWithinCap, MeterStorage
  <2>1. committed[b] + reserved[b] <= peak[b] + metered[b]
    BY DEF QuotaInv, GatedWithinCap
  <2>2. committed[b] \in Nat /\ reserved[b] \in Nat /\ metered[b] \in Nat /\ peak[b] \in Nat
    BY DEF QuotaInv, TypeOK
  <2>3. /\ committed'[b] = IF b = a THEN committed[b] + n ELSE committed[b]
        /\ metered'[b] = IF b = a THEN metered[b] + n ELSE metered[b]
    BY DEF QuotaInv, TypeOK, MeterStorage
  <2> QED BY <1>1, <2>1, <2>2, <2>3
<1> QED BY <1>2, <1>3, <1>4, ElsewhereBooks DEF QuotaInv, MeterStorage

\* A call that waits, is answered or is resolved holds nothing.
LEMMA EarlyInactive ==
  ASSUME QuotaInv, NEW c \in Call, call[c].stage # "allowed"
  PROVE  ~ call[c].active
BY DEF QuotaInv, HoldersAllowed

\* A step of one call that touches neither the peaks nor the control plane nor the cache
\* keeps the caps below the peaks, unless the call takes up an entitlement.
LEMMA CapsKept ==
  ASSUME QuotaInv, NEW c \in Call, \A d \in Call \ {c} : call'[d] = call[d],
         UNCHANGED <<plane, peak, entCache>>,
         call'[c].stage \in {"answered", "resolved"} =>
           call'[c].ent.cap <= peak[call'[c].account]
  PROVE  CapsBelowPeak'
BY DEF QuotaInv, CapsBelowPeak

LEMMA AskInv ==
  ASSUME QuotaInv, NEW c \in Call, NEW a \in Account, Ask(c, a)
  PROVE  QuotaInv'
<1> DEFINE asking == [Idle EXCEPT !.stage = "asking", !.account = a, !.started = now]
<1>1. asking \in CallState /\ ~ asking.active /\ asking.stage = "asking"
  <2>1. now \in Nat
    BY TimeAssumption DEF QuotaInv, TypeOK
  <2> QED BY <2>1, EntitlementsAssumption, AccountAssumption DEF Idle, CallState, Stage
<1> HIDE DEF asking
<1>2. call' = [call EXCEPT ![c] = asking]
  BY DEF Ask, asking
<1>3. TypeOK'
  BY <1>1, <1>2 DEF QuotaInv, TypeOK, Ask
<1>4. call'[c] = asking /\ \A d \in Call \ {c} : call'[d] = call[d]
  BY <1>2 DEF QuotaInv, TypeOK
<1>5. CapsBelowPeak'
  BY <1>1, <1>4, CapsKept DEF Ask
<1>6. ~ call[c].active
  BY EarlyInactive DEF Ask
<1>7. UNCHANGED Books
  BY DEF Ask, Books
<1> QED BY <1>1, <1>3, <1>4, <1>5, <1>6, <1>7, QuietBooks DEF QuotaInv

LEMMA AnswerInv ==
  ASSUME QuotaInv, NEW c \in Call, Answer(c)
  PROVE  QuotaInv'
<1> DEFINE a == call[c].account
<1>1. call[c] \in CallState /\ a \in Account /\ plane[a] \in Entitlements
  BY DEF QuotaInv, TypeOK, CallState
<1>2. /\ call' = [call EXCEPT ![c] = [@ EXCEPT !.stage = "answered", !.ent = plane[a]]]
  BY DEF Answer
<1>3. TypeOK'
  BY <1>1, <1>2 DEF QuotaInv, TypeOK, Answer, CallState, Stage
<1>4. \A d \in Call \ {c} : call'[d] = call[d]
  BY <1>2 DEF QuotaInv, TypeOK
<1>5. /\ call'[c].ent = plane[a] /\ call'[c].account = a
      /\ call'[c].active = call[c].active
  BY <1>1, <1>2 DEF QuotaInv, TypeOK, CallState
<1>6. CapsBelowPeak'
  <2>1. plane[a].cap <= peak[a]
    BY <1>1 DEF QuotaInv, CapsBelowPeak
  <2> QED BY <1>4, <1>5, <2>1, CapsKept DEF Answer
<1>7. ~ call[c].active
  BY EarlyInactive DEF Answer
<1>8. UNCHANGED Books
  BY DEF Answer, Books
<1> QED BY <1>3, <1>4, <1>5, <1>6, <1>7, <1>8, QuietBooks DEF QuotaInv

LEMMA RememberInv ==
  ASSUME QuotaInv, NEW c \in Call, Remember(c)
  PROVE  QuotaInv'
<1> DEFINE a == call[c].account
<1>1. /\ call[c] \in CallState /\ a \in Account /\ call[c].ent \in Entitlements
      /\ now \in Nat /\ now \in 0 .. MaxTime + 1 /\ now <= now
  BY TimeAssumption DEF QuotaInv, TypeOK, CallState
<1>2. /\ call' = [call EXCEPT ![c] = [@ EXCEPT !.stage = "resolved", !.at = now, !.started = 0]]
      /\ entCache' = [entCache EXCEPT ![a] = [fetched |-> now, ent |-> call[c].ent]]
  BY DEF Remember
<1>3. TypeOK'
  <2>1. [call[c] EXCEPT !.stage = "resolved", !.at = now, !.started = 0] \in CallState
    BY <1>1, TimeAssumption DEF CallState, Stage, QuotaInv, TypeOK
  <2>2. call' \in [Call -> CallState]
    BY <1>2, <2>1 DEF QuotaInv, TypeOK
  <2>3. entCache' \in [Account -> [fetched : 0 .. MaxTime + 1, ent : Entitlements]]
    BY <1>1, <1>2 DEF QuotaInv, TypeOK
  <2> QED BY <2>2, <2>3 DEF QuotaInv, TypeOK, Remember
<1>4. \A d \in Call \ {c} : call'[d] = call[d]
  BY <1>2 DEF QuotaInv, TypeOK
<1>5. /\ call'[c].ent = call[c].ent /\ call'[c].account = a
      /\ call'[c].active = call[c].active
  BY <1>1, <1>2 DEF QuotaInv, TypeOK, CallState
<1>6. CapsBelowPeak'
  <2>1. call[c].ent.cap <= peak[a]
    BY DEF QuotaInv, CapsBelowPeak, Remember
  <2>2. \A b \in Account : entCache'[b].ent.cap <= peak[b]
    BY <1>2, <2>1 DEF QuotaInv, TypeOK, CapsBelowPeak
  <2>3. \A d \in Call : call'[d].stage \in {"answered", "resolved"} =>
          call'[d].ent.cap <= peak[call'[d].account]
    BY <1>4, <1>5, <2>1 DEF QuotaInv, CapsBelowPeak
  <2> QED BY <2>2, <2>3 DEF QuotaInv, CapsBelowPeak, Remember
<1>7. ~ call[c].active
  BY EarlyInactive DEF Remember
<1>8. UNCHANGED Books
  BY DEF Remember, Books
<1> QED BY <1>3, <1>4, <1>5, <1>6, <1>7, <1>8, QuietBooks DEF QuotaInv

LEMMA FailOverInv ==
  ASSUME QuotaInv, NEW c \in Call, FailOver(c)
  PROVE  QuotaInv'
<1> DEFINE a == call[c].account
           ent == IF Warm(a) THEN entCache[a].ent ELSE DefaultEntitlement
           at == IF Warm(a) THEN now ELSE 0
           degraded == ~ Warm(a)
<1>1. call[c] \in CallState /\ a \in Account /\ now \in Nat
  BY TimeAssumption DEF QuotaInv, TypeOK, CallState
<1>2. ent \in Entitlements /\ ent.cap <= peak[a]
  BY <1>1, EntitlementsAssumption, DefaultTyped DEF QuotaInv, TypeOK, CapsBelowPeak
<1>3. at \in Nat /\ degraded \in BOOLEAN
  BY <1>1
<1>4. call' = [call EXCEPT ![c] = [@ EXCEPT !.stage = "resolved", !.started = 0, !.at = at,
                                            !.ent = ent, !.degraded = degraded]]
  BY DEF FailOver
<1> HIDE DEF ent, at, degraded
<1>5. TypeOK'
  <2> DEFINE after == [call[c] EXCEPT !.stage = "resolved", !.started = 0, !.at = at,
                                      !.ent = ent, !.degraded = degraded]
  <2>1. after \in CallState
    BY <1>1, <1>2, <1>3 DEF CallState, Stage
  <2>2. call' = [call EXCEPT ![c] = after]
    BY <1>4
  <2> HIDE DEF after
  <2>3. call' \in [Call -> CallState]
    BY <2>1, <2>2 DEF QuotaInv, TypeOK
  <2>4. UNCHANGED <<now, plane, entCache, committed, reserved, metered, peak, suspendedAt>>
    BY DEF FailOver
  <2> QED BY <2>3, <2>4 DEF QuotaInv, TypeOK
<1>6. \A d \in Call \ {c} : call'[d] = call[d]
  BY <1>4 DEF QuotaInv, TypeOK
<1>7. call'[c].ent = ent /\ call'[c].account = a /\ call'[c].active = call[c].active
  BY <1>1, <1>4 DEF QuotaInv, TypeOK, CallState
<1>8. CapsBelowPeak'
  BY <1>2, <1>6, <1>7, CapsKept DEF FailOver
<1>9. ~ call[c].active
  BY EarlyInactive DEF FailOver
<1>10. UNCHANGED Books
  BY DEF FailOver, Books
<1> QED BY <1>5, <1>6, <1>7, <1>8, <1>9, <1>10, QuietBooks DEF QuotaInv

\* A gate that decides without counting.
LEMMA UncountedInv ==
  ASSUME QuotaInv, NEW c \in Call, NEW allowed \in BOOLEAN,
         call[c].stage = "resolved", call' = Decide(c, allowed, FALSE, 0),
         UNCHANGED <<now, plane, entCache, committed, reserved, metered, peak, suspendedAt>>
  PROVE  QuotaInv'
<1>1. /\ call' \in [Call -> CallState]
      /\ \A d \in Call \ {c} : call'[d] = call[d]
      /\ ~ call'[c].active /\ call'[c].stage \in {"idle", "allowed"}
  <2> DEFINE after == Through(call[c].account, FALSE, 0)
  <2>1. call \in [Call -> CallState] /\ call[c].account \in Account
    BY DEF QuotaInv, TypeOK, CallState
  <2>2. after \in CallState /\ after.stage = "allowed" /\ ~ after.active
    BY <2>1, ThroughTyped
  <2>3. call' = [call EXCEPT ![c] = IF allowed THEN after ELSE Idle]
    BY DEF Decide, Through
  <2> HIDE DEF after
  <2> QED BY <2>1, <2>2, <2>3, IdleTyped
<1>2. TypeOK'
  BY <1>1 DEF QuotaInv, TypeOK
<1>3. CapsBelowPeak'
  BY <1>1, CapsKept
<1>4. ~ call[c].active
  BY EarlyInactive
<1> QED BY <1>1, <1>2, <1>3, <1>4, QuietBooks DEF QuotaInv, Books

\* The three gates that count nothing.
LEMMA GateUncountedInv ==
  ASSUME QuotaInv, NEW c \in Call,
         GateOffice(c) \/ (\E used \in Seats : GateSeats(c, used)) \/ GateStorageUncounted(c)
  PROVE  QuotaInv'
<1>1. CASE GateOffice(c)
  <2>1. (~ call[c].ent.suspended /\ call[c].ent.office) \in BOOLEAN
    OBVIOUS
  <2> QED BY <1>1, <2>1, UncountedInv DEF GateOffice
<1>2. ASSUME NEW used \in Seats, GateSeats(c, used) PROVE QuotaInv'
  <2>1. (~ call[c].ent.suspended /\ (call[c].ent.seats = 0 \/ used < call[c].ent.seats))
          \in BOOLEAN
    OBVIOUS
  <2> QED BY <1>2, <2>1, UncountedInv DEF GateSeats
<1>3. CASE GateStorageUncounted(c)
  <2>1. (~ call[c].ent.suspended) \in BOOLEAN
    OBVIOUS
  <2> QED BY <1>3, <2>1, UncountedInv DEF GateStorageUncounted
<1> QED BY <1>1, <1>2, <1>3

----------------------------------------------------------------------------
\* The steps that change the books

\* What a call holds is part of what its account has reserved: no give-back is cut off
\* at zero.
LEMMA WeightReserved ==
  ASSUME QuotaInv, NEW c \in Call, NEW a \in Account
  PROVE  Weight(call, c, a) \in Nat /\ Weight(call, c, a) <= reserved[a]
<1>1. call \in [Call -> CallState] /\ reserved[a] = Cardinality(Held(a))
  BY DEF QuotaInv, TypeOK, ReservedExact
<1>2. Held(a) = HeldIn(call, a)
  BY DEF Held, HeldIn, Holds, HoldsIn
<1> QED BY <1>1, <1>2, HeldSplit

\* Books that follow the weight of the one call that steps stay exact.
LEMMA ReservedFollows ==
  ASSUME QuotaInv, TypeOK', NEW c \in Call, \A d \in Call \ {c} : call'[d] = call[d],
         \A a \in Account :
           reserved'[a] = reserved[a] - Weight(call, c, a) + Weight(call', c, a)
  PROVE  ReservedExact'
<1> SUFFICES ASSUME NEW a \in Account PROVE reserved'[a] = Cardinality(Held(a)')
  BY DEF ReservedExact
<1>1. reserved[a] = Cardinality(Held(a))
  BY DEF QuotaInv, ReservedExact
<1>2. Cardinality(Held(a)') = Cardinality(Held(a)) - Weight(call, c, a) + Weight(call', c, a)
  BY HeldChange DEF QuotaInv
<1> QED BY <1>1, <1>2

LEMMA GateCountedInv ==
  ASSUME QuotaInv, NEW c \in Call, NEW n \in Bytes, GateStorageCounted(c, n)
  PROVE  QuotaInv'
<1> DEFINE a == call[c].account
           fits == Fits(a, n, call[c].ent.cap)
<1>1. n \in Nat /\ a \in Account /\ call[c].ent.cap \in Nat
  BY BytesAssumption, CapTyped DEF QuotaInv
<1>2. ~ call[c].active
  BY EarlyInactive DEF GateStorageCounted
<1>4. /\ call' \in [Call -> CallState]
      /\ \A d \in Call \ {c} : call'[d] = call[d]
      /\ ~ fits => call'[c] = Idle
      /\ fits => /\ call'[c].stage = "allowed" /\ call'[c].account = a
                 /\ call'[c].active /\ ~ call'[c].done /\ call'[c].n = n
  <2> DEFINE after == Through(a, TRUE, n)
  <2>1. call \in [Call -> CallState]
    BY DEF QuotaInv, TypeOK
  <2>2. /\ after \in CallState /\ after.stage = "allowed" /\ after.account = a
        /\ after.active /\ ~ after.done /\ after.n = n
    BY <1>1, ThroughTyped
  <2>3. call' = [call EXCEPT ![c] = IF fits THEN after ELSE Idle]
    BY DEF GateStorageCounted, Decide, Through
  <2> HIDE DEF after, fits
  <2> QED BY <2>1, <2>2, <2>3, IdleTyped
<1>5. reserved' = IF fits THEN [reserved EXCEPT ![a] = @ + n] ELSE reserved
  BY DEF GateStorageCounted
<1>6. /\ UNCHANGED <<now, plane, entCache, committed, metered, peak, suspendedAt>>
      /\ call[c].stage = "resolved"
  BY DEF GateStorageCounted
<1>7. fits => committed[a] + reserved[a] + n <= call[c].ent.cap
  BY DEF Fits
<1> HIDE DEF fits
<1>8. TypeOK'
  BY <1>1, <1>4, <1>5, <1>6 DEF QuotaInv, TypeOK
<1>9. CapsBelowPeak'
  BY <1>4, <1>6, IdleTyped, CapsKept
<1>10. CASE ~ fits
  <2>1. ~ call'[c].active /\ UNCHANGED Books
    BY <1>4, <1>5, <1>6, <1>10, IdleTyped DEF Books
  <2> QED BY <1>2, <1>4, <1>8, <1>9, <2>1, QuietBooks DEF QuotaInv
<1>11. CASE fits
  <2>1. HoldersAllowed'
    BY <1>4, <1>11 DEF QuotaInv, HoldersAllowed
  <2>2. \A b \in Account : /\ Weight(call, c, b) = 0
                           /\ Weight(call', c, b) = IF b = a THEN n ELSE 0
    BY <1>2, <1>4, <1>11 DEF Weight, HoldsIn
  <2>3. \A b \in Account : /\ reserved'[b] = IF b = a THEN reserved[b] + n ELSE reserved[b]
                           /\ reserved[b] \in Nat
    BY <1>5, <1>11 DEF QuotaInv, TypeOK
  <2>4. ReservedExact'
    <3>1. \A b \in Account :
            reserved'[b] = reserved[b] - Weight(call, c, b) + Weight(call', c, b)
      BY <1>1, <2>2, <2>3
    <3> QED BY <1>4, <1>8, <3>1, ReservedFollows
  <2>5. GatedWithinCap'
    <3> SUFFICES ASSUME NEW b \in Account
                 PROVE  committed[b] + reserved'[b] <= peak[b] + metered[b]
      BY <1>6 DEF GatedWithinCap
    <3>1. committed[b] \in Nat /\ reserved[b] \in Nat /\ metered[b] \in Nat /\ peak[b] \in Nat
      BY DEF QuotaInv, TypeOK
    <3>2. CASE b = a
      <4>1. call[c].ent.cap <= peak[a]
        BY <1>6 DEF QuotaInv, CapsBelowPeak
      <4> QED BY <1>1, <1>7, <1>11, <2>3, <3>1, <3>2, <4>1
    <3>3. CASE b # a
      BY <2>3, <3>1, <3>3 DEF QuotaInv, GatedWithinCap
    <3> QED BY <3>2, <3>3
  <2> QED BY <1>8, <1>9, <2>1, <2>4, <2>5 DEF QuotaInv
<1> QED BY <1>10, <1>11

\* What a call that holds n bytes gives back.
LEMMA GivenBack ==
  ASSUME QuotaInv, NEW c \in Call,
         call[c].stage = "allowed", call[c].active, ~ call[c].done
  PROVE  /\ call[c].n \in Nat /\ call[c].n <= reserved[call[c].account]
         /\ \A b \in Account :
              /\ reserved[b] \in Nat
              /\ Weight(call, c, b) = IF b = call[c].account THEN call[c].n ELSE 0
              /\ Unreserved(call[c].account, call[c].n)[b] = reserved[b] - Weight(call, c, b)
         /\ Unreserved(call[c].account, call[c].n) \in [Account -> Nat]
<1> DEFINE a == call[c].account
<1>1. call[c].n \in Nat /\ a \in Account
  BY CapTyped DEF QuotaInv
<1>2. \A b \in Account : Weight(call, c, b) = IF b = a THEN call[c].n ELSE 0
  BY DEF Weight, HoldsIn
<1>3. call[c].n <= reserved[a]
  BY <1>1, <1>2, WeightReserved
<1>4. \A b \in Account : reserved[b] \in Nat
  BY DEF QuotaInv, TypeOK
<1>5. Unreserved(a, call[c].n) = [reserved EXCEPT ![a] = reserved[a] - call[c].n]
  <2>1. (IF reserved[a] <= call[c].n THEN 0 ELSE reserved[a] - call[c].n)
          = reserved[a] - call[c].n
    BY <1>1, <1>3, <1>4
  <2> QED BY <2>1 DEF Unreserved
<1>6. reserved[a] - call[c].n \in Nat
  BY <1>1, <1>3, <1>4
<1>7. reserved \in [Account -> Nat]
  BY DEF QuotaInv, TypeOK
<1> HIDE DEF a
<1>8. Unreserved(a, call[c].n) \in [Account -> Nat]
  BY <1>5, <1>6, <1>7
<1>9. \A b \in Account : Unreserved(a, call[c].n)[b] = reserved[b] - Weight(call, c, b)
  BY <1>1, <1>2, <1>4, <1>5, <1>7
<1> QED BY <1>1, <1>2, <1>3, <1>4, <1>8, <1>9 DEF a

LEMMA CommitInv ==
  ASSUME QuotaInv, NEW c \in Call, Commit(c)
  PROVE  QuotaInv'
<1> DEFINE a == call[c].account
           n == call[c].n
<1>1. call[c].stage = "allowed" /\ call[c].active /\ ~ call[c].done
  BY DEF Commit, QuotaInv, HoldersAllowed
<1>2. /\ n \in Nat /\ n <= reserved[a] /\ a \in Account
      /\ \A b \in Account :
           /\ reserved[b] \in Nat
           /\ Weight(call, c, b) = IF b = a THEN n ELSE 0
           /\ reserved'[b] = reserved[b] - Weight(call, c, b)
      /\ reserved' \in [Account -> Nat]
  BY <1>1, GivenBack, CapTyped DEF Commit, QuotaInv
<1>3. /\ call' = [call EXCEPT ![c] = [@ EXCEPT !.done = TRUE]]
      /\ committed' = [committed EXCEPT ![a] = @ + n]
      /\ UNCHANGED <<now, plane, entCache, metered, peak, suspendedAt>>
  BY DEF Commit
<1>4. call[c] \in CallState /\ call \in [Call -> CallState]
  BY DEF QuotaInv, TypeOK
<1>5. /\ call' \in [Call -> CallState]
      /\ \A d \in Call \ {c} : call'[d] = call[d]
      /\ call'[c].done /\ call'[c].stage = call[c].stage
  BY <1>3, <1>4 DEF CallState
<1>6. TypeOK'
  BY <1>2, <1>3, <1>5 DEF QuotaInv, TypeOK
<1>7. CapsBelowPeak'
  BY <1>1, <1>3, <1>5, CapsKept
<1>8. HoldersAllowed'
  BY <1>1, <1>5 DEF QuotaInv, HoldersAllowed
<1>9. ReservedExact'
  <2>1. \A b \in Account : Weight(call', c, b) = 0
    BY <1>5 DEF Weight, HoldsIn
  <2>2. \A b \in Account :
          reserved'[b] = reserved[b] - Weight(call, c, b) + Weight(call', c, b)
    BY <1>2, <2>1
  <2> QED BY <1>5, <1>6, <2>2, ReservedFollows
<1>10. GatedWithinCap'
  <2> SUFFICES ASSUME NEW b \in Account
               PROVE  committed'[b] + reserved'[b] <= peak[b] + metered[b]
    BY <1>3 DEF GatedWithinCap
  <2>1. committed[b] + reserved[b] <= peak[b] + metered[b]
    BY DEF QuotaInv, GatedWithinCap
  <2>2. committed[b] \in Nat /\ metered[b] \in Nat /\ peak[b] \in Nat
    BY DEF QuotaInv, TypeOK
  <2>3. committed'[b] = IF b = a THEN committed[b] + n ELSE committed[b]
    BY <1>3 DEF QuotaInv, TypeOK
  <2> HIDE DEF a, n
  <2> QED BY <1>2, <2>1, <2>2, <2>3
<1> QED BY <1>6, <1>7, <1>8, <1>9, <1>10 DEF QuotaInv

LEMMA ReleaseInv ==
  ASSUME QuotaInv, NEW c \in Call, Release(c)
  PROVE  QuotaInv'
<1> DEFINE holds == call[c].active /\ ~ call[c].done
<1>1. /\ call[c].stage = "allowed"
      /\ call' = [call EXCEPT ![c] = Idle]
      /\ reserved' = IF holds THEN Unreserved(call[c].account, call[c].n) ELSE reserved
      /\ UNCHANGED <<now, plane, entCache, committed, metered, peak, suspendedAt>>
  BY DEF Release
<1>2. /\ call' \in [Call -> CallState] /\ call'[c] = Idle
      /\ \A d \in Call \ {c} : call'[d] = call[d]
  BY <1>1, IdleTyped DEF QuotaInv, TypeOK
<1>3. \A b \in Account :
        /\ reserved[b] \in Nat /\ Weight(call, c, b) \in Nat
        /\ reserved'[b] = reserved[b] - Weight(call, c, b)
  <2>1. CASE holds
    BY <1>1, <2>1, GivenBack, WeightReserved
  <2>2. CASE ~ holds
    <3>1. \A b \in Account : Weight(call, c, b) = 0
      BY <2>2 DEF Weight, HoldsIn
    <3> QED BY <1>1, <2>2, <3>1 DEF QuotaInv, TypeOK
  <2> QED BY <2>1, <2>2
<1>4. reserved' \in [Account -> Nat]
  <2>1. CASE holds
    BY <1>1, <2>1, GivenBack
  <2>2. CASE ~ holds
    BY <1>1, <2>2 DEF QuotaInv, TypeOK
  <2> QED BY <2>1, <2>2
<1>5. TypeOK'
  BY <1>1, <1>2, <1>4 DEF QuotaInv, TypeOK
<1>6. CapsBelowPeak'
  BY <1>1, <1>2, IdleTyped, CapsKept
<1>7. HoldersAllowed'
  BY <1>2, IdleTyped DEF QuotaInv, HoldersAllowed
<1>8. ReservedExact'
  <2>1. \A b \in Account : Weight(call', c, b) = 0
    BY <1>2, IdleTyped DEF Weight, HoldsIn
  <2>2. \A b \in Account :
          reserved'[b] = reserved[b] - Weight(call, c, b) + Weight(call', c, b)
    BY <1>3, <2>1
  <2> QED BY <1>2, <1>5, <2>2, ReservedFollows
<1>9. GatedWithinCap'
  <2> SUFFICES ASSUME NEW b \in Account
               PROVE  committed[b] + reserved'[b] <= peak[b] + metered[b]
    BY <1>1 DEF GatedWithinCap
  <2>1. committed[b] + reserved[b] <= peak[b] + metered[b]
    BY DEF QuotaInv, GatedWithinCap
  <2>2. committed[b] \in Nat /\ metered[b] \in Nat /\ peak[b] \in Nat
    BY DEF QuotaInv, TypeOK
  <2> QED BY <1>3, <2>1, <2>2
<1> QED BY <1>5, <1>6, <1>7, <1>8, <1>9 DEF QuotaInv

----------------------------------------------------------------------------
\* The theorems

LEMMA InitInv == Init => QuotaInv
<1> SUFFICES ASSUME Init PROVE QuotaInv OBVIOUS
<1>1. TypeOK
  BY InitTyped
<1>2. HoldersAllowed /\ \A c \in Call : call[c] = Idle
  BY IdleTyped DEF Init, HoldersAllowed
<1>3. \A a \in Account : plane[a].cap \in Nat /\ NoEntry.ent.cap = 0
  BY DefaultTyped, EntitlementsAssumption DEF Init, NoEntry, Entitlement
<1>4. CapsBelowPeak
  BY <1>2, <1>3, IdleTyped DEF Init, CapsBelowPeak
<1>5. ReservedExact
  <2>1. \A a \in Account : Held(a) = {}
    BY <1>2, IdleTyped DEF Held, Holds
  <2> QED BY <2>1, FS_EmptySet DEF Init, ReservedExact
<1>6. GatedWithinCap
  BY <1>3 DEF Init, GatedWithinCap
<1> QED BY <1>1, <1>2, <1>4, <1>5, <1>6 DEF QuotaInv

LEMMA NextInv == QuotaInv /\ [Next]_vars => QuotaInv'
<1> SUFFICES ASSUME QuotaInv, [Next]_vars PROVE QuotaInv' OBVIOUS
<1>1. CASE PassTime
  BY <1>1, PassTimeInv
<1>2. ASSUME NEW a \in Account, NEW ent \in Entitlements, Change(a, ent) PROVE QuotaInv'
  BY <1>2, ChangeInv
<1>3. ASSUME NEW a \in Account, NEW n \in Bytes, MeterStorage(a, n) PROVE QuotaInv'
  BY <1>3, MeterInv
<1>4. ASSUME NEW a \in Account, NEW c \in Call, Ask(c, a) PROVE QuotaInv'
  BY <1>4, AskInv
<1>5. ASSUME NEW c \in Call, Answer(c) PROVE QuotaInv'
  BY <1>5, AnswerInv
<1>6. ASSUME NEW c \in Call, FailOver(c) PROVE QuotaInv'
  BY <1>6, FailOverInv
<1>7. ASSUME NEW c \in Call, Remember(c) PROVE QuotaInv'
  BY <1>7, RememberInv
<1>8. ASSUME NEW c \in Call, Gate(c) PROVE QuotaInv'
  BY <1>8, GateUncountedInv, GateCountedInv DEF Gate
<1>9. ASSUME NEW c \in Call, Commit(c) PROVE QuotaInv'
  BY <1>9, CommitInv
<1>10. ASSUME NEW c \in Call, Release(c) PROVE QuotaInv'
  BY <1>10, ReleaseInv
<1>11. CASE UNCHANGED vars
  <2>1. \A a \in Account : Held(a)' = Held(a)
    BY <1>11 DEF Held, Holds, vars
  <2> QED BY <1>11, <2>1 DEF vars, QuotaInv, TypeOK, HoldersAllowed, CapsBelowPeak,
                             ReservedExact, GatedWithinCap
<1> QED BY <1>1, <1>2, <1>3, <1>4, <1>5, <1>6, <1>7, <1>8, <1>9, <1>10, <1>11 DEF Next

LEMMA Invariance == Spec => []QuotaInv
BY InitInv, NextInv, PTL DEF Spec

\* Every variable keeps to its type: the books of the gates stay natural numbers, no
\* answer in the cache is from the future.
THEOREM TypeCorrect == Spec => []TypeOK
<1>1. QuotaInv => TypeOK
  BY DEF QuotaInv
<1> QED BY <1>1, Invariance, PTL

\* The reserved bytes of every account are what its calls in flight hold, whatever the
\* order in which they ask, commit, fail and return (GateStorage, Commit, Release).
THEOREM ReservationsExact == Spec => []ReservedExact
<1>1. QuotaInv => ReservedExact
  BY DEF QuotaInv
<1> QED BY <1>1, Invariance, PTL

\* What the gates admit stays within the largest cap of the account, for any number of
\* calls, sizes and changes of the cap (GateStorage: check and reserve under one lock).
THEOREM QuotaHolds == Spec => []GatedWithinCap
<1>1. QuotaInv => GatedWithinCap
  BY DEF QuotaInv
<1> QED BY <1>1, Invariance, PTL

----------------------------------------------------------------------------
\* Suspensions

\* How old an answer can be that does not know of a suspension, at every stage of a call.
InTime(c) ==
  /\ call[c].stage \in {"asking", "answered"} =>
       call[c].started <= now /\ now <= call[c].started + Timeout
  /\ call[c].stage = "answered" /\ ~ call[c].ent.suspended =>
       call[c].started <= suspendedAt[call[c].account]
  /\ call[c].stage = "resolved" => call[c].at <= now
  /\ call[c].stage = "resolved" /\ ~ call[c].degraded /\ ~ call[c].ent.suspended =>
       call[c].at < suspendedAt[call[c].account] + TTL + Timeout

\* The same of a remembered answer.
CacheInTime(a) ==
  entCache[a] # NoEntry /\ ~ entCache[a].ent.suspended =>
    entCache[a].fetched <= suspendedAt[a] + Timeout

PlaneTold(a) == ~ plane[a].suspended => suspendedAt[a] = Never

TimeInv ==
  /\ \A a \in Account : PlaneTold(a) /\ CacheInTime(a)
  /\ \A c \in Call : InTime(c)

LEMMA TimesTyped ==
  ASSUME TypeOK
  PROVE  /\ now \in Nat /\ now < Never /\ Never \in Nat
         /\ \A a \in Account : suspendedAt[a] \in Nat /\ suspendedAt[a] <= Never
         /\ \A a \in Account : /\ entCache[a].fetched \in Nat
                               /\ entCache[a] # NoEntry => entCache[a].fetched <= now
         /\ \A c \in Call : /\ call[c].started \in Nat /\ call[c].at \in Nat
                            /\ call[c].account \in Account
         /\ TTL \in Nat /\ TTL > 0 /\ Timeout \in Nat
BY TimeAssumption DEF TypeOK, CallState, Never

LEMMA InitTime == Init => TimeInv
BY IdleTyped, TimeAssumption
   DEF Init, TimeInv, PlaneTold, CacheInTime, InTime

\* A step of one call, while time and the control plane stand still.
LEMMA OneCallTime ==
  ASSUME TimeInv, NEW c \in Call, \A d \in Call \ {c} : call'[d] = call[d],
         UNCHANGED <<now, plane, suspendedAt>>,
         \A a \in Account : CacheInTime(a)', InTime(c)'
  PROVE  TimeInv'
<1>1. \A d \in Call \ {c} : InTime(d)'
  BY DEF TimeInv, InTime
<1>2. \A a \in Account : PlaneTold(a)'
  BY DEF TimeInv, PlaneTold
<1> QED BY <1>1, <1>2 DEF TimeInv

\* A call that goes on after its decision, or returns, has no answer in hand.
LEMMA DecidedTime ==
  ASSUME TypeOK, TimeInv, NEW c \in Call, \A d \in Call \ {c} : call'[d] = call[d],
         UNCHANGED <<now, plane, suspendedAt, entCache>>, call'[c].stage \in {"idle", "allowed"}
  PROVE  TimeInv'
<1>1. \A a \in Account : CacheInTime(a)'
  BY DEF TimeInv, CacheInTime
<1>2. InTime(c)'
  BY DEF InTime
<1> QED BY <1>1, <1>2, OneCallTime

LEMMA PassTimeTime == TypeOK /\ TimeInv /\ PassTime => TimeInv'
<1> SUFFICES ASSUME TypeOK, TimeInv, PassTime PROVE TimeInv' OBVIOUS
<1>1. \A a \in Account : PlaneTold(a)' /\ CacheInTime(a)'
  BY DEF TimeInv, PlaneTold, CacheInTime, PassTime
<1>2. ASSUME NEW c \in Call PROVE InTime(c)'
  <2>1. InTime(c) /\ now' = now + 1 /\ UNCHANGED <<call, suspendedAt>>
    BY DEF TimeInv, PassTime
  <2>2. call[c].stage \in {"asking", "answered"} => now < call[c].started + Timeout
    BY DEF PassTime
  <2> QED BY <2>1, <2>2, TimesTyped DEF InTime
<1> QED BY <1>1, <1>2 DEF TimeInv

\* A suspension that begins is not older than anything; one that ends leaves none.
LEMMA ChangeTime ==
  ASSUME TypeOK, TimeInv, NEW a \in Account, NEW ent \in Entitlements, Change(a, ent)
  PROVE  TimeInv'
<1>1. /\ plane' = [plane EXCEPT ![a] = ent]
      /\ suspendedAt' = [suspendedAt EXCEPT ![a] =
           IF ~ ent.suspended THEN Never ELSE IF plane[a].suspended THEN suspendedAt[a] ELSE now]
      /\ UNCHANGED <<now, entCache, call>>
  BY DEF Change
<1>2. \A b \in Account : /\ suspendedAt'[b] \in Nat
                         /\ suspendedAt[b] <= suspendedAt'[b] \/ suspendedAt'[b] = now
  BY <1>1, TimesTyped DEF TypeOK
<1>3. \A b \in Account : PlaneTold(b)'
  BY <1>1 DEF TypeOK, TimeInv, PlaneTold, Never
<1>4. \A b \in Account : CacheInTime(b)'
  BY <1>1, <1>2, TimesTyped DEF TimeInv, CacheInTime
<1>5. ASSUME NEW c \in Call PROVE InTime(c)'
  <2> DEFINE b == call[c].account
  <2>1. InTime(c) /\ b \in Account
    BY TimesTyped DEF TimeInv
  <2>2. call[c].stage = "answered" /\ ~ call[c].ent.suspended => call[c].started <= suspendedAt'[b]
    BY <1>2, <2>1, TimesTyped DEF InTime
  <2>3. call[c].stage = "resolved" /\ ~ call[c].degraded /\ ~ call[c].ent.suspended =>
          call[c].at < suspendedAt'[b] + TTL + Timeout
    BY <1>2, <2>1, TimesTyped DEF InTime
  <2> QED BY <1>1, <2>1, <2>2, <2>3 DEF InTime
<1> QED BY <1>3, <1>4, <1>5 DEF TimeInv

LEMMA AskTime ==
  ASSUME TypeOK, TimeInv, NEW c \in Call, NEW a \in Account, Ask(c, a)
  PROVE  TimeInv'
<1>1. /\ call'[c].stage = "asking" /\ call'[c].started = now
      /\ \A d \in Call \ {c} : call'[d] = call[d]
  BY DEF TypeOK, Ask, Idle
<1>2. \A b \in Account : CacheInTime(b)'
  BY DEF TimeInv, CacheInTime, Ask
<1>3. InTime(c)'
  BY <1>1, TimesTyped DEF InTime, Ask
<1> QED BY <1>1, <1>2, <1>3, OneCallTime DEF Ask

LEMMA AnswerTime ==
  ASSUME TypeOK, TimeInv, NEW c \in Call, Answer(c)
  PROVE  TimeInv'
<1> DEFINE a == call[c].account
<1>1. /\ call'[c].stage = "answered" /\ call'[c].started = call[c].started
      /\ call'[c].ent = plane[a] /\ call'[c].account = a
      /\ \A d \in Call \ {c} : call'[d] = call[d]
  BY DEF TypeOK, CallState, Answer
<1>2. \A b \in Account : CacheInTime(b)'
  BY DEF TimeInv, CacheInTime, Answer
<1>3. InTime(c)'
  <2>1. InTime(c) /\ PlaneTold(a) /\ call[c].stage = "asking"
    BY TimesTyped DEF TimeInv, Answer
  <2>2. UNCHANGED <<now, suspendedAt>>
    BY DEF Answer
  <2> QED BY <1>1, <2>1, <2>2, TimesTyped DEF InTime, PlaneTold
<1> QED BY <1>1, <1>2, <1>3, OneCallTime DEF Answer

LEMMA RememberTime ==
  ASSUME TypeOK, TimeInv, NEW c \in Call, Remember(c)
  PROVE  TimeInv'
<1> DEFINE a == call[c].account
<1>1. /\ call'[c].stage = "resolved" /\ call'[c].at = now
      /\ call'[c].ent = call[c].ent /\ call'[c].account = a
      /\ \A d \in Call \ {c} : call'[d] = call[d]
  BY DEF TypeOK, CallState, Remember
<1>2. UNCHANGED <<now, plane, suspendedAt>>
  BY DEF Remember
\* The call asked before the suspension began, and not long ago.
<1>3. ~ call[c].ent.suspended => now <= suspendedAt[a] + Timeout
  <2>1. InTime(c) /\ call[c].stage = "answered"
    BY DEF TimeInv, Remember
  <2> QED BY <2>1, TimesTyped DEF InTime
<1>4. \A b \in Account : CacheInTime(b)'
  <2>1. entCache' = [entCache EXCEPT ![a] = [fetched |-> now, ent |-> call[c].ent]]
    BY DEF Remember
  <2> SUFFICES ASSUME NEW b \in Account PROVE CacheInTime(b)'
    OBVIOUS
  <2>2. CASE b = a
    <3>1. entCache'[b].fetched = now /\ entCache'[b].ent = call[c].ent
      BY <2>1, <2>2 DEF TypeOK
    <3> QED BY <1>2, <1>3, <2>2, <3>1 DEF CacheInTime
  <2>3. CASE b # a
    <3>1. entCache'[b] = entCache[b]
      BY <2>1, <2>3 DEF TypeOK
    <3> QED BY <1>2, <3>1 DEF TimeInv, CacheInTime
  <2> QED BY <2>2, <2>3
<1>5. InTime(c)'
  <2>1. a \in Account
    BY TimesTyped
  <2> HIDE DEF a
  <2> QED BY <1>1, <1>2, <1>3, <2>1, TimesTyped DEF InTime
<1> QED BY <1>1, <1>2, <1>4, <1>5, OneCallTime

LEMMA FailOverTime ==
  ASSUME TypeOK, TimeInv, NEW c \in Call, FailOver(c)
  PROVE  TimeInv'
<1> DEFINE a == call[c].account
<1>1. /\ call'[c].stage = "resolved" /\ call'[c].account = a
      /\ call'[c].at = IF Warm(a) THEN now ELSE 0
      /\ call'[c].ent = IF Warm(a) THEN entCache[a].ent ELSE DefaultEntitlement
      /\ ~ call'[c].degraded => Warm(a)
      /\ \A d \in Call \ {c} : call'[d] = call[d]
  BY DEF TypeOK, CallState, FailOver
<1>2. UNCHANGED <<now, plane, suspendedAt, entCache>>
  BY DEF FailOver
<1>3. \A b \in Account : CacheInTime(b)'
  BY <1>2 DEF TimeInv, CacheInTime
<1>4. InTime(c)'
  <2>1. a \in Account /\ CacheInTime(a)
    BY TimesTyped DEF TimeInv
  <2>2. Warm(a) /\ ~ entCache[a].ent.suspended => now < suspendedAt[a] + TTL + Timeout
    BY <2>1, TimesTyped DEF CacheInTime, Warm
  <2>3. call'[c].at <= now
    BY <1>1, TimesTyped
  <2> HIDE DEF a
  <2> QED BY <1>1, <1>2, <2>1, <2>2, <2>3 DEF InTime
<1> QED BY <1>1, <1>2, <1>3, <1>4, OneCallTime

LEMMA GateTime ==
  ASSUME TypeOK, TimeInv, NEW c \in Call, Gate(c)
  PROVE  TimeInv'
<1>1. ASSUME NEW allowed, NEW counted, NEW n, call' = Decide(c, allowed, counted, n)
      PROVE  /\ call'[c].stage \in {"idle", "allowed"}
             /\ \A d \in Call \ {c} : call'[d] = call[d]
  BY <1>1 DEF TypeOK, Decide, Idle
<1>2. /\ call'[c].stage \in {"idle", "allowed"}
      /\ \A d \in Call \ {c} : call'[d] = call[d]
  BY <1>1 DEF Gate, GateOffice, GateSeats, GateStorageUncounted, GateStorageCounted
<1>3. UNCHANGED <<now, plane, suspendedAt, entCache>>
  BY DEF Gate, GateOffice, GateSeats, GateStorageUncounted, GateStorageCounted
<1> QED BY <1>2, <1>3, DecidedTime

LEMMA NextTime == QuotaInv /\ TimeInv /\ [Next]_vars => TimeInv'
<1> SUFFICES ASSUME QuotaInv, TimeInv, [Next]_vars PROVE TimeInv' OBVIOUS
<1> TypeOK
  BY DEF QuotaInv
<1>1. CASE PassTime
  BY <1>1, PassTimeTime
<1>2. ASSUME NEW a \in Account, NEW ent \in Entitlements, Change(a, ent) PROVE TimeInv'
  BY <1>2, ChangeTime
<1>3. ASSUME NEW a \in Account, NEW n \in Bytes, MeterStorage(a, n) PROVE TimeInv'
  BY <1>3 DEF TimeInv, PlaneTold, CacheInTime, InTime, MeterStorage
<1>4. ASSUME NEW a \in Account, NEW c \in Call, Ask(c, a) PROVE TimeInv'
  BY <1>4, AskTime
<1>5. ASSUME NEW c \in Call, Answer(c) \/ FailOver(c) \/ Remember(c) \/ Gate(c) PROVE TimeInv'
  BY <1>5, AnswerTime, FailOverTime, RememberTime, GateTime
<1>6. ASSUME NEW c \in Call, Commit(c) PROVE TimeInv'
  <2>1. call'[c].stage = "allowed" /\ \A d \in Call \ {c} : call'[d] = call[d]
    BY <1>6 DEF TypeOK, CallState, Commit, QuotaInv, HoldersAllowed
  <2> QED BY <1>6, <2>1, DecidedTime DEF Commit
<1>7. ASSUME NEW c \in Call, Release(c) PROVE TimeInv'
  <2>1. call'[c].stage = "idle" /\ \A d \in Call \ {c} : call'[d] = call[d]
    BY <1>7, IdleTyped DEF TypeOK, Release
  <2> QED BY <1>7, <2>1, DecidedTime DEF Release
<1>8. CASE UNCHANGED vars
  BY <1>8 DEF vars, TimeInv, PlaneTold, CacheInTime, InTime
<1> QED BY <1>1, <1>2, <1>3, <1>4, <1>5, <1>6, <1>7, <1>8 DEF Next

\* Only its gate lets a call through, and only with an entitlement that is not suspended.
LEMMA AllowedByGate ==
  ASSUME QuotaInv, [Next]_vars, NEW c \in Call,
         call[c].stage = "resolved", call'[c].stage = "allowed"
  PROVE  ~ call[c].ent.suspended
<1> USE DEF QuotaInv, TypeOK
<1>1. CASE PassTime \/ UNCHANGED vars
  BY <1>1 DEF PassTime, vars
<1>2. ASSUME NEW a \in Account, NEW ent \in Entitlements, Change(a, ent) PROVE FALSE
  BY <1>2 DEF Change
<1>3. ASSUME NEW a \in Account, NEW n \in Bytes, MeterStorage(a, n) PROVE FALSE
  BY <1>3 DEF MeterStorage
<1>4. ASSUME NEW a \in Account, NEW d \in Call, Ask(d, a) PROVE FALSE
  BY <1>4 DEF Ask
<1>5. ASSUME NEW d \in Call, Answer(d) \/ FailOver(d) \/ Remember(d) PROVE FALSE
  <2>1. CASE d = c
    BY <1>5, <2>1 DEF Answer, FailOver, Remember, CallState
  <2>2. CASE d # c
    BY <1>5, <2>2 DEF Answer, FailOver, Remember
  <2> QED BY <2>1, <2>2
<1>6. ASSUME NEW d \in Call, Gate(d) PROVE ~ call[c].ent.suspended
  <2>1. CASE d # c
    BY <1>6, <2>1 DEF Gate, GateOffice, GateSeats, GateStorageUncounted, GateStorageCounted, Decide
  <2>2. CASE d = c
    <3>1. ASSUME NEW counted, NEW n,
                 call' = Decide(c, ~ call[c].ent.suspended /\ call[c].ent.office, counted, n)
          PROVE  ~ call[c].ent.suspended
      BY <3>1, IdleTyped DEF Decide
    <3>2. ASSUME NEW used \in Seats, GateSeats(c, used) PROVE ~ call[c].ent.suspended
      BY <3>2, IdleTyped DEF GateSeats, Decide
    <3>3. CASE GateStorageUncounted(c)
      BY <3>3, IdleTyped DEF GateStorageUncounted, Decide
    <3> QED BY <1>6, <2>2, <3>1, <3>2, <3>3 DEF Gate, GateOffice, GateStorageCounted
  <2> QED BY <2>1, <2>2
<1>7. ASSUME NEW d \in Call, Commit(d) PROVE FALSE
  <2>1. d # c
    BY <1>7 DEF Commit, HoldersAllowed
  <2> QED BY <1>7, <2>1 DEF Commit
<1>8. ASSUME NEW d \in Call, Release(d) PROVE FALSE
  BY <1>8, IdleTyped DEF Release
<1> QED BY <1>1, <1>2, <1>3, <1>4, <1>5, <1>6, <1>7, <1>8 DEF Next

\* A suspension stops the account once every older answer has aged out, for every life
\* of an entry, timeout and number of calls (entitlementFor).
THEOREM SuspensionsReach == Spec => SuspensionReaches
<1>1. QuotaInv /\ TimeInv /\ [Next]_vars =>
        [\A c \in Call :
           /\ call[c].stage = "resolved" /\ ~ call[c].degraded
           /\ call'[c].stage = "allowed"
           => ~ (suspendedAt[call[c].account] + TTL + Timeout <= call[c].at)]_vars
  <2> SUFFICES ASSUME QuotaInv, TimeInv, [Next]_vars, NEW c \in Call,
                      call[c].stage = "resolved", ~ call[c].degraded,
                      call'[c].stage = "allowed"
               PROVE  ~ (suspendedAt[call[c].account] + TTL + Timeout <= call[c].at)
    OBVIOUS
  <2>1. InTime(c) /\ ~ call[c].ent.suspended
    BY AllowedByGate DEF TimeInv
  <2>2. TypeOK
    BY DEF QuotaInv
  <2> QED BY <2>1, <2>2, TimesTyped DEF InTime
<1>2. Spec => []TimeInv
  BY InitTime, NextTime, Invariance, PTL DEF Spec
<1> QED BY <1>1, <1>2, Invariance, PTL DEF Spec, SuspensionReaches

----------------------------------------------------------------------------
\* RequestGates.  A bucket is compared with one that is refilled at every instant and
\* never evicted: what the bucket would have now is never more.

\* How old a valid answer can be after its key was revoked, while it is on its way and
\* once it is remembered.
AnswerInTime(r) ==
  /\ request[r].stage \in {"asking", "answered"} =>
       request[r].at <= clock /\ clock <= request[r].at + KeyTimeout
  /\ request[r].stage = "answered" /\ request[r].res = "valid" =>
       request[r].at <= revokedAt[request[r].key]

CachedInTime(k) ==
  cache[k] # NoAnswer =>
    /\ cache[k].fetched <= clock
    /\ cache[k].res = "valid" => cache[k].fetched <= revokedAt[k] + KeyTimeout

\* What Reserve would find in the bucket now.
Available(b) == Least(Burst, entries[b].tokens + Rate * (clock - entries[b].lastRefill))

\* The bucket that is never evicted has at least as much; it is full when there is none.
Covered(b) ==
  /\ ideal[b] \in 0 .. Burst
  /\ entries[b] = NoBucket => ideal[b] = Burst
  /\ entries[b] # NoBucket =>
       /\ entries[b].lastRefill <= entries[b].lastSeen /\ entries[b].lastSeen <= clock
       /\ Available(b) <= ideal[b]

\* Between Get and Reserve the bucket is not old enough to be evicted.
Reserving(r) ==
  request[r].stage = "reserving" =>
    /\ entries[request[r].bucket] # NoBucket
    /\ entries[request[r].bucket].lastSeen = clock

GatesInv ==
  /\ GatesTypeOK
  /\ \A k \in Key : CachedInTime(k)
  /\ \A b \in BucketKey : Covered(b)
  /\ \A r \in Request : AnswerInTime(r) /\ Reserving(r)

----------------------------------------------------------------------------
\* Arithmetic

LEMMA LeastBounds ==
  ASSUME NEW m \in Int, NEW n \in Int
  PROVE  /\ Least(m, n) \in {m, n} /\ Least(m, n) <= m /\ Least(m, n) <= n
         /\ Least(m, n) \in Int
BY DEF Least

LEMMA ProductGrows ==
  ASSUME NEW r \in Nat, NEW x \in Nat, NEW y \in Nat, x <= y
  PROVE  r * x <= r * y /\ r * x \in Nat
<1>1. PICK d \in Nat : y = x + d
  <2>1. y - x \in Nat /\ y = x + (y - x)
    OBVIOUS
  <2> QED BY <2>1
<1>2. r * d \in Nat /\ r * x \in Nat /\ r * (x + d) = r * x + r * d
  OBVIOUS
<1> QED BY <1>1, <1>2

\* A refill for one more instant.
LEMMA RefillStep ==
  ASSUME NEW t \in Nat, NEW i \in Nat
  PROVE  /\ Rate * (t + 1 - i) = Rate * (t - i) + Rate
         /\ Rate * (t - i) \in Int /\ Rate \in Nat
<1>1. Rate \in Nat /\ t - i \in Int /\ t + 1 - i = (t - i) + 1
  BY LimitsAssumption
<1>2. \A d \in Int : Rate * (d + 1) = Rate * d + Rate /\ Rate * d \in Int
  BY <1>1
<1> QED BY <1>1, <1>2

LEMMA LeastRefilled ==
  ASSUME NEW m \in Nat, NEW x \in Int, NEW i \in Nat, NEW n \in Nat, Least(n, x) <= i
  PROVE  Least(n, x + m) <= Least(n, i + m)
BY DEF Least

----------------------------------------------------------------------------
\* Types

LEMMA GatesTypes ==
  ASSUME GatesTypeOK
  PROVE  /\ clock \in Nat /\ clock <= Horizon /\ NotYet \in Nat /\ NotYet = Horizon + 1
         /\ Horizon \in Nat /\ KeyTimeout \in Nat /\ KeyTTL \in Nat /\ KeyTTL > 0
         /\ Rate \in Nat /\ Burst \in Nat /\ Burst > 0 /\ BucketTTL \in Nat /\ BucketTTL > 0
         /\ \A k \in Key : /\ cache[k].fetched \in Nat /\ cache[k].res \in Grant
                           /\ revokedAt[k] \in Nat /\ grant[k] \in Grant
         /\ \A r \in Request : /\ request[r].at \in Nat /\ request[r].key \in Key
                               /\ request[r].bucket \in BucketKey /\ request[r].res \in Grant
                               /\ request[r].stage \in RequestStage
         /\ \A b \in BucketKey : /\ entries[b].tokens \in Nat /\ entries[b].tokens <= Burst
                                 /\ entries[b].lastRefill \in Nat /\ entries[b].lastSeen \in Nat
BY LimitsAssumption DEF GatesTypeOK, NotYet, RequestState, Entry

LEMMA NoRequestTyped ==
  /\ NoRequest \in RequestState /\ NoRequest.stage = "idle" /\ NoRequest.by = "session"
  /\ DOMAIN NoRequest = {"stage", "by", "key", "bucket", "at", "res"}
BY KeysAssumption, LimitsAssumption DEF NoRequest, RequestState, RequestStage, BucketKey, Grant

LEMMA NoneTyped == NoBucket \in Entry /\ NoAnswer \in [fetched : 0 .. NotYet, res : Grant]
BY LimitsAssumption DEF NoBucket, Entry, NoAnswer, NotYet, Grant

LEMMA InitGates == GatesInit => GatesInv
<1> SUFFICES ASSUME GatesInit PROVE GatesInv OBVIOUS
<1>1. GatesTypeOK
  <2>1. 0 \in 0 .. Horizon /\ 0 \in 0 .. NotYet /\ NotYet \in 0 .. NotYet /\ NotYet # 0
    BY LimitsAssumption DEF NotYet
  <2>2. ideal \in [BucketKey -> Int]
    BY LimitsAssumption DEF GatesInit
  <2> QED BY <2>1, <2>2, NoRequestTyped, NoneTyped DEF GatesInit, GatesTypeOK
<1>2. \A k \in Key : CachedInTime(k)
  BY DEF GatesInit, CachedInTime
<1>3. \A b \in BucketKey : Covered(b)
  BY LimitsAssumption DEF GatesInit, Covered
<1>4. \A r \in Request : AnswerInTime(r) /\ Reserving(r)
  BY NoRequestTyped DEF GatesInit, AnswerInTime, Reserving
<1> QED BY <1>1, <1>2, <1>3, <1>4 DEF GatesInv

----------------------------------------------------------------------------
\* The steps

\* A step of one request that leaves time and the buckets alone.
LEMMA OneRequest ==
  ASSUME GatesInv, GatesTypeOK', NEW r \in Request,
         \A q \in Request \ {r} : request'[q] = request[q],
         UNCHANGED <<clock, entries, ideal, revokedAt>>,
         \A k \in Key : CachedInTime(k)',
         AnswerInTime(r)', request'[r].stage # "reserving"
  PROVE  GatesInv'
<1>1. \A b \in BucketKey : Covered(b)'
  BY DEF GatesInv, Covered, Available
<1>2. \A q \in Request : AnswerInTime(q)' /\ Reserving(q)'
  BY DEF GatesInv, AnswerInTime, Reserving
<1> QED BY <1>1, <1>2 DEF GatesInv

\* A revocation that begins is not older than anything; one that ends leaves none.
LEMMA ChangeGrantInv ==
  ASSUME GatesInv, NEW k \in Key, NEW res \in Grant, ChangeGrant(k, res)
  PROVE  GatesInv'
<1> USE DEF GatesInv
<1>1. /\ grant' = [grant EXCEPT ![k] = res]
      /\ revokedAt' = [revokedAt EXCEPT ![k] = IF res = "valid" THEN NotYet ELSE clock]
      /\ UNCHANGED <<clock, cache, request, entries, ideal>>
  BY DEF ChangeGrant
<1>2. \A j \in Key : /\ revokedAt'[j] \in Nat
                     /\ revokedAt'[j] = revokedAt[j] \/ clock <= revokedAt'[j]
  BY <1>1, GatesTypes DEF GatesTypeOK
<1>3. GatesTypeOK'
  BY <1>1, GatesTypes DEF GatesTypeOK
<1>4. \A j \in Key : CachedInTime(j)'
  BY <1>1, <1>2, GatesTypes DEF CachedInTime
<1>5. \A b \in BucketKey : Covered(b)'
  BY <1>1 DEF Covered, Available
<1>6. \A r \in Request : AnswerInTime(r)' /\ Reserving(r)'
  BY <1>1, <1>2, GatesTypes DEF AnswerInTime, Reserving
<1> QED BY <1>3, <1>4, <1>5, <1>6

LEMMA PassGateTimeInv == GatesInv /\ PassGateTime => GatesInv'
<1> SUFFICES ASSUME GatesInv, PassGateTime PROVE GatesInv' OBVIOUS
<1> USE DEF GatesInv
<1>1. /\ clock < Horizon /\ clock' = clock + 1
      /\ ideal' = [b \in BucketKey |-> Least(Burst, ideal[b] + Rate)]
      /\ UNCHANGED <<grant, cache, request, entries, revokedAt>>
      /\ \A r \in Request :
           /\ request[r].stage \in {"asking", "answered"} => clock < request[r].at + KeyTimeout
           /\ request[r].stage # "reserving"
  BY DEF PassGateTime
<1>2. GatesTypeOK'
  <2>1. \A b \in BucketKey : Least(Burst, ideal[b] + Rate) \in Int
    BY GatesTypes DEF GatesTypeOK, Least
  <2> QED BY <1>1, <2>1, GatesTypes DEF GatesTypeOK
<1>3. \A k \in Key : CachedInTime(k)'
  BY <1>1, GatesTypes DEF CachedInTime
<1>4. ASSUME NEW b \in BucketKey PROVE Covered(b)'
  <2> DEFINE e == entries[b]
  <2>1. /\ ideal[b] \in 0 .. Burst /\ ideal'[b] = Least(Burst, ideal[b] + Rate)
        /\ e.tokens \in Nat /\ e.lastRefill \in Nat
    BY <1>1, GatesTypes DEF Covered
  <2>2. ideal'[b] \in 0 .. Burst /\ (ideal[b] = Burst => ideal'[b] = Burst)
    BY <2>1, GatesTypes DEF Least
  <2>3. ASSUME e # NoBucket PROVE Available(b)' <= ideal'[b]
    <3>1. Least(Burst, e.tokens + Rate * (clock - e.lastRefill)) <= ideal[b]
      BY <2>3 DEF Covered, Available
    <3>2. /\ Rate * (clock + 1 - e.lastRefill) = Rate * (clock - e.lastRefill) + Rate
          /\ Rate * (clock - e.lastRefill) \in Int
      BY <2>1, RefillStep, GatesTypes
    <3>3. Available(b)' = Least(Burst, e.tokens + Rate * (clock + 1 - e.lastRefill))
      <4>1. entries'[b] = e /\ clock' = clock + 1
        BY <1>1
      <4>2. clock' - e.lastRefill = clock + 1 - e.lastRefill
        BY <2>1, <4>1, GatesTypes
      <4> QED BY <4>1, <4>2 DEF Available, Least
    <3> DEFINE x == Rate * (clock - e.lastRefill)
    <3>4. Least(Burst, e.tokens + x + Rate) <= Least(Burst, ideal[b] + Rate)
      <4>1. e.tokens + x \in Int /\ Least(Burst, e.tokens + x) <= ideal[b] /\ ideal[b] \in Nat
        <5>1. x \in Int
          BY <3>2
        <5> HIDE DEF x
        <5>2. e.tokens + x \in Int
          BY <5>1, <2>1
        <5> USE DEF x
        <5> QED BY <5>2, <3>1, <2>1
      <4>2. Burst \in Nat /\ Rate \in Nat
        BY GatesTypes
      <4> HIDE DEF x, e
      <4> QED BY <4>1, <4>2, LeastRefilled
    <3>5. e.tokens + Rate * (clock + 1 - e.lastRefill) = e.tokens + x + Rate
      <4>1. x \in Int /\ Rate * (clock + 1 - e.lastRefill) = x + Rate
        BY <3>2
      <4> HIDE DEF x
      <4> QED BY <4>1, <2>1, GatesTypes
    <3> HIDE DEF x
    <3> QED BY <2>1, <3>3, <3>4, <3>5
  <2> QED BY <1>1, <2>2, <2>3, GatesTypes DEF Covered
<1>5. \A r \in Request : AnswerInTime(r)' /\ Reserving(r)'
  BY <1>1, GatesTypes DEF AnswerInTime, Reserving
<1> QED BY <1>2, <1>3, <1>4, <1>5

\* What a request passes on to: its bucket, or back to where it began.
LEMMA PassedOn ==
  ASSUME GatesTypeOK, NEW r \in Request, NEW k \in Key, NEW b \in BucketKey, NEW res,
         PassOn(r, k, b, res)
  PROVE  /\ request' \in [Request -> RequestState]
         /\ \A p \in Request \ {r} : request'[p] = request[p]
         /\ request'[r].stage \in {"idle", "authenticated"}
         /\ request'[r].stage = "authenticated" => res = "valid" /\ request'[r].key = k
<1> DEFINE n == [NoRequest EXCEPT !.stage = "authenticated", !.by = "key", !.key = k, !.bucket = b]
<1>1. /\ n \in RequestState /\ n.stage = "authenticated" /\ n.key = k
  BY NoRequestTyped DEF RequestState, RequestStage
<1> HIDE DEF n
<1>2. request' = [request EXCEPT ![r] = IF res = "valid" THEN n ELSE NoRequest]
  BY DEF PassOn, n
<1> QED BY <1>1, <1>2, NoRequestTyped DEF GatesTypeOK

LEMMA IntrospectInv ==
  ASSUME GatesInv, NEW r \in Request, NEW k \in Key, NEW b \in {k, Owner[k]}, Introspect(r, k, b)
  PROVE  GatesInv'
<1> USE DEF GatesInv
<1>1. b \in BucketKey
  BY KeysAssumption DEF BucketKey
<1>2. UNCHANGED <<clock, grant, cache, entries, revokedAt, ideal>>
  BY DEF Introspect
<1>3. \A j \in Key : CachedInTime(j)'
  BY <1>2 DEF CachedInTime
<1>4. CASE Fresh(k)
  <2>1. PassOn(r, k, b, cache[k].res)
    BY <1>4 DEF Introspect
  <2>2. /\ request' \in [Request -> RequestState]
        /\ \A p \in Request \ {r} : request'[p] = request[p]
        /\ request'[r].stage \in {"idle", "authenticated"}
    BY <1>1, <2>1, PassedOn
  <2>3. GatesTypeOK' /\ AnswerInTime(r)'
    BY <1>2, <2>2 DEF GatesTypeOK, AnswerInTime
  <2> QED BY <1>2, <1>3, <2>2, <2>3, OneRequest
<1>5. CASE ~Fresh(k)
  <2> DEFINE n == [NoRequest EXCEPT !.stage = "asking", !.key = k, !.bucket = b, !.at = clock]
  <2>1. request' = [request EXCEPT ![r] = n]
    BY <1>5 DEF Introspect
  <2>2. n \in RequestState /\ n.stage = "asking" /\ n.at = clock
    BY <1>1, NoRequestTyped DEF RequestState, RequestStage, GatesTypeOK
  <2> HIDE DEF n
  <2>3. /\ request' \in [Request -> RequestState] /\ request'[r] = n
        /\ \A p \in Request \ {r} : request'[p] = request[p]
    BY <2>1, <2>2 DEF GatesTypeOK
  <2>4. GatesTypeOK' /\ AnswerInTime(r)'
    BY <1>2, <2>2, <2>3, GatesTypes DEF GatesTypeOK, AnswerInTime
  <2> QED BY <1>2, <1>3, <2>2, <2>3, <2>4, OneRequest
<1> QED BY <1>4, <1>5

\* A valid answer was given while the key was not revoked.
LEMMA AnswerKeyInv ==
  ASSUME GatesInv, NEW r \in Request, AnswerKey(r)
  PROVE  GatesInv'
<1> USE DEF GatesInv
<1>1. /\ request[r].stage = "asking"
      /\ request' = [request EXCEPT ![r].stage = "answered", ![r].res = grant[request[r].key]]
      /\ UNCHANGED <<clock, grant, cache, entries, revokedAt, ideal>>
  BY DEF AnswerKey
<1>2. request[r] \in RequestState /\ request[r].key \in Key /\ grant[request[r].key] \in Grant
  BY GatesTypes DEF GatesTypeOK
<1>3. /\ request'[r] \in RequestState /\ request'[r].stage = "answered"
      /\ request'[r].res = grant[request[r].key] /\ request'[r].at = request[r].at
      /\ request'[r].key = request[r].key
      /\ \A p \in Request \ {r} : request'[p] = request[p]
  BY <1>1, <1>2 DEF GatesTypeOK, RequestState, RequestStage
<1>4. GatesTypeOK'
  BY <1>1, <1>3 DEF GatesTypeOK
<1>5. AnswerInTime(r)'
  <2>1. request[r].at <= clock /\ clock <= request[r].at + KeyTimeout
    BY <1>1 DEF AnswerInTime
  <2>2. grant[request[r].key] = "valid" => revokedAt[request[r].key] = NotYet
    BY <1>2 DEF GatesTypeOK
  <2> QED BY <1>1, <1>3, <2>1, <2>2, GatesTypes DEF AnswerInTime
<1>6. \A k \in Key : CachedInTime(k)'
  BY <1>1 DEF CachedInTime
<1> QED BY <1>1, <1>3, <1>4, <1>5, <1>6, OneRequest

\* An answer is remembered within the timeout of its question.
LEMMA RememberKeyInv ==
  ASSUME GatesInv, NEW r \in Request, RememberKey(r)
  PROVE  GatesInv'
<1> USE DEF GatesInv
<1> DEFINE k == request[r].key
           n == [fetched |-> clock, res |-> request[r].res]
<1>1. /\ request[r].stage = "answered" /\ cache' = [cache EXCEPT ![k] = n]
      /\ PassOn(r, k, request[r].bucket, request[r].res)
      /\ UNCHANGED <<clock, grant, entries, revokedAt, ideal>>
  BY DEF RememberKey
<1>2. k \in Key /\ request[r].bucket \in BucketKey /\ request[r].res \in Grant
  BY GatesTypes
<1>3. /\ request' \in [Request -> RequestState]
      /\ \A p \in Request \ {r} : request'[p] = request[p]
      /\ request'[r].stage \in {"idle", "authenticated"}
  BY <1>1, <1>2, PassedOn
<1>4. n \in [fetched : 0 .. NotYet, res : Grant] /\ n.fetched = clock /\ n.res = request[r].res
  BY <1>2, GatesTypes
<1>5. /\ request[r].at <= clock /\ clock <= request[r].at + KeyTimeout
      /\ request[r].res = "valid" => request[r].at <= revokedAt[k]
  BY <1>1 DEF AnswerInTime
<1>6. /\ clock \in Nat /\ KeyTimeout \in Nat /\ request[r].at \in Nat /\ revokedAt[k] \in Nat
  BY <1>2, GatesTypes
<1> HIDE DEF n, k
<1>7. n.fetched <= clock /\ (n.res = "valid" => n.fetched <= revokedAt[k] + KeyTimeout)
  BY <1>4, <1>5, <1>6
<1>8. cache'[k] = n /\ \A j \in Key \ {k} : cache'[j] = cache[j]
  BY <1>1, <1>2 DEF GatesTypeOK
<1>9. \A j \in Key : CachedInTime(j)'
  BY <1>1, <1>7, <1>8 DEF CachedInTime
<1>10. GatesTypeOK' /\ AnswerInTime(r)'
  BY <1>1, <1>2, <1>3, <1>4 DEF GatesTypeOK, AnswerInTime
<1> QED BY <1>1, <1>3, <1>9, <1>10, OneRequest

LEMMA FailClosedInv ==
  ASSUME GatesInv, NEW r \in Request, FailClosed(r)
  PROVE  GatesInv'
<1> USE DEF GatesInv
<1>1. request' = [request EXCEPT ![r] = NoRequest]
      /\ UNCHANGED <<clock, grant, cache, entries, revokedAt, ideal>>
  BY DEF FailClosed
<1>2. request'[r] = NoRequest /\ \A p \in Request \ {r} : request'[p] = request[p]
  BY <1>1 DEF GatesTypeOK
<1>3. GatesTypeOK' /\ AnswerInTime(r)' /\ \A k \in Key : CachedInTime(k)'
  BY <1>1, <1>2, NoRequestTyped DEF GatesTypeOK, AnswerInTime, CachedInTime
<1> QED BY <1>1, <1>2, <1>3, NoRequestTyped, OneRequest

\* An answer is on its way for no longer than the timeout.
LEMMA RequestSteps ==
  ASSUME GatesInv, NEW r \in Request,
         \/ \E a \in User : TalkAuth(r, a)
         \/ APIKeyAuth(r)
  PROVE  GatesInv'
<1> USE DEF GatesInv
<1> DEFINE q == request[r]
<1>1. CASE \E a \in User : TalkAuth(r, a)
  <2>1. PICK a \in User : TalkAuth(r, a)
    BY <1>1
  <2>2. /\ request' = [request EXCEPT ![r] =
             [NoRequest EXCEPT !.stage = "authenticated", !.bucket = a]]
        /\ UNCHANGED <<clock, grant, cache, entries, revokedAt, ideal>>
    BY <2>1 DEF TalkAuth
  <2>3. [NoRequest EXCEPT !.stage = "authenticated", !.bucket = a] \in RequestState
    BY NoRequestTyped DEF RequestState, RequestStage, BucketKey
  <2>4. GatesTypeOK'
    BY <2>2, <2>3 DEF GatesTypeOK
  <2>5. request'[r].stage = "authenticated"
    BY <2>2, NoRequestTyped DEF GatesTypeOK
  <2>6. \A k \in Key : CachedInTime(k)'
    BY <2>2 DEF CachedInTime
  <2>7. AnswerInTime(r)'
    BY <2>5 DEF AnswerInTime
  <2>8. \A p \in Request \ {r} : request'[p] = request[p]
    BY <2>2 DEF GatesTypeOK
  <2> QED BY <2>2, <2>4, <2>5, <2>6, <2>7, <2>8, OneRequest
<1>2. CASE APIKeyAuth(r)
  <2>1. CASE \E k \in Key : \E b \in {k, Owner[k]} : Introspect(r, k, b)
    BY <2>1, IntrospectInv
  <2>2. CASE AnswerKey(r)
    BY <2>2, AnswerKeyInv
  <2>3. CASE RememberKey(r)
    BY <2>3, RememberKeyInv
  <2>4. CASE FailClosed(r)
    BY <2>4, FailClosedInv
  <2> QED BY <1>2, <2>1, <2>2, <2>3, <2>4 DEF APIKeyAuth
<1> QED BY <1>1, <1>2

\* A new bucket is full, as the one is that is never evicted.
LEMMA GetInv ==
  ASSUME GatesInv, NEW r \in Request, Get(r)
  PROVE  GatesInv'
<1> USE DEF GatesInv
<1> DEFINE b == request[r].bucket
           new == [tokens |-> Burst, lastRefill |-> clock, lastSeen |-> clock]
           e == [IF entries[b] = NoBucket THEN new ELSE entries[b] EXCEPT !.lastSeen = clock]
<1>1. /\ request[r].stage = "authenticated" /\ entries' = [entries EXCEPT ![b] = e]
      /\ request' = [request EXCEPT ![r].stage = "reserving"]
      /\ UNCHANGED <<clock, grant, cache, revokedAt, ideal>>
  BY DEF Get
<1>2. b \in BucketKey /\ request[r] \in RequestState /\ entries[b] \in Entry
  BY GatesTypes DEF GatesTypeOK
<1>3. clock \in 0 .. NotYet /\ clock # NotYet /\ Burst \in 0 .. Burst /\ clock \in Nat /\ Burst \in Nat
  BY GatesTypes
<1>4. new \in Entry
  BY <1>3 DEF Entry
<1>5. e \in Entry /\ e.lastSeen = clock /\ e # NoBucket
  <2>1. e \in Entry /\ e.lastSeen = clock
    BY <1>2, <1>3, <1>4 DEF Entry
  <2> QED BY <2>1, <1>3 DEF NoBucket
<1>6. e.lastRefill <= clock /\ Least(Burst, e.tokens + Rate * (clock - e.lastRefill)) <= ideal[b]
  <2>1. CASE entries[b] = NoBucket
    <3>1. e.tokens = Burst /\ e.lastRefill = clock /\ ideal[b] = Burst
      BY <2>1, <1>2 DEF Covered
    <3> HIDE DEF e
    <3>2. clock - e.lastRefill = 0 /\ Rate * 0 = 0
      BY <3>1, <1>3, GatesTypes
    <3> QED BY <3>1, <3>2, <1>3 DEF Least
  <2>2. CASE entries[b] # NoBucket
    <3>1. e.tokens = entries[b].tokens /\ e.lastRefill = entries[b].lastRefill
      BY <2>2, <1>2 DEF Entry
    <3>2. entries[b].lastRefill <= clock /\ Available(b) <= ideal[b]
      BY <2>2, <1>2, GatesTypes DEF Covered
    <3> HIDE DEF e
    <3> QED BY <3>1, <3>2 DEF Available
  <2> QED BY <2>1, <2>2
<1> HIDE DEF e, new
<1>7. /\ entries'[b] = e /\ \A c \in BucketKey \ {b} : entries'[c] = entries[c]
      /\ entries' \in [BucketKey -> Entry]
  BY <1>1, <1>2, <1>5 DEF GatesTypeOK
<1>8. /\ request'[r] = [request[r] EXCEPT !.stage = "reserving"]
      /\ request'[r] \in RequestState
      /\ \A q \in Request \ {r} : request'[q] = request[q]
  BY <1>1, <1>2 DEF GatesTypeOK, RequestState, RequestStage
<1>9. GatesTypeOK'
  BY <1>1, <1>7, <1>8 DEF GatesTypeOK
<1>10. \A k \in Key : CachedInTime(k)'
  BY <1>1 DEF CachedInTime
<1>11. ASSUME NEW c \in BucketKey PROVE Covered(c)'
  <2>1. CASE c = b
    <3>1. Available(c)' <= ideal'[c]
      BY <2>1, <1>1, <1>6, <1>7 DEF Available, Least
    <3> QED BY <2>1, <3>1, <1>1, <1>2, <1>3, <1>5, <1>6, <1>7 DEF Covered
  <2>2. CASE c # b
    <3>1. entries'[c] = entries[c]
      BY <2>2, <1>7
    <3> QED BY <3>1, <1>1 DEF Covered, Available
  <2> QED BY <2>1, <2>2
<1>12. ASSUME NEW q \in Request PROVE AnswerInTime(q)' /\ Reserving(q)'
  <2>1. CASE q = r
    <3>1. request'[q].stage = "reserving" /\ request'[q].bucket = b
      BY <2>1, <1>2, <1>8 DEF RequestState
    <3> QED BY <3>1, <1>1, <1>5, <1>7 DEF AnswerInTime, Reserving
  <2>2. CASE q # r
    <3>1. request'[q] = request[q] /\ request[q].bucket \in BucketKey
      BY <2>2, <1>8, GatesTypes
    <3> QED BY <3>1, <1>1, <1>5, <1>7 DEF AnswerInTime, Reserving
  <2> QED BY <2>1, <2>2
<1> QED BY <1>9, <1>10, <1>11, <1>12

\* A token that is handed out was there in the bucket that is never evicted.
LEMMA ReserveInv ==
  ASSUME GatesInv, NEW r \in Request, Reserve(r)
  PROVE  GatesInv'
<1> USE DEF GatesInv
<1> DEFINE b == request[r].bucket
           had == Available(b)
           left == IF had >= 1 THEN had - 1 ELSE had
<1>1. /\ request[r].stage = "reserving"
      /\ entries' = [entries EXCEPT ![b].lastRefill = clock, ![b].tokens = left]
      /\ ideal' = IF had >= 1 THEN [ideal EXCEPT ![b] = @ - 1] ELSE ideal
      /\ request' = [request EXCEPT ![r] = NoRequest]
      /\ UNCHANGED <<clock, grant, cache, revokedAt>>
  BY DEF Reserve, Available
<1>2. /\ b \in BucketKey /\ entries[b] \in Entry /\ entries[b] # NoBucket
      /\ entries[b].lastSeen = clock
  BY <1>1, GatesTypes DEF GatesTypeOK, Reserving
<1>3. /\ ideal[b] \in 0 .. Burst /\ had <= ideal[b] /\ entries[b].lastRefill <= clock
      /\ clock \in Nat /\ clock \in 0 .. NotYet /\ clock # NotYet /\ Burst \in Nat
  BY <1>2, GatesTypes DEF Covered
<1>4. had \in 0 .. Burst
  <2>1. Rate * (clock - entries[b].lastRefill) \in Nat
    <3>1. clock - entries[b].lastRefill \in Nat
      BY <1>2, <1>3, GatesTypes
    <3> QED BY <3>1, ProductGrows, GatesTypes
  <2>2. entries[b].tokens \in Nat
    BY <1>2, GatesTypes
  <2> QED BY <1>3, <2>1, <2>2 DEF Available, Least
<1> HIDE DEF had
<1>5. left \in 0 .. Burst /\ left <= had
  BY <1>3, <1>4
<1>6. /\ entries'[b] = [entries[b] EXCEPT !.lastRefill = clock, !.tokens = left]
      /\ \A c \in BucketKey \ {b} : entries'[c] = entries[c] /\ ideal'[c] = ideal[c]
  BY <1>1, <1>2 DEF GatesTypeOK
<1>7. /\ entries'[b] \in Entry /\ entries'[b].tokens = left
      /\ entries'[b].lastRefill = clock /\ entries'[b].lastSeen = clock
      /\ entries' \in [BucketKey -> Entry]
  <2>1. /\ entries'[b] \in Entry /\ entries'[b].tokens = left
        /\ entries'[b].lastRefill = clock /\ entries'[b].lastSeen = clock
    BY <1>2, <1>3, <1>5, <1>6 DEF Entry
  <2> QED BY <2>1, <1>1, <1>2 DEF GatesTypeOK
<1>8. request' \in [Request -> RequestState] /\ request'[r] = NoRequest
      /\ \A q \in Request \ {r} : request'[q] = request[q]
  BY <1>1, NoRequestTyped DEF GatesTypeOK
<1>9. GatesTypeOK'
  <2>1. ideal' \in [BucketKey -> Int]
    BY <1>1, <1>2, <1>3 DEF GatesTypeOK
  <2> QED BY <2>1, <1>1, <1>7, <1>8 DEF GatesTypeOK
<1>10. \A k \in Key : CachedInTime(k)'
  BY <1>1 DEF CachedInTime
<1>11. ASSUME NEW c \in BucketKey PROVE Covered(c)'
  <2>1. CASE c = b
    <3>1. ideal'[b] \in 0 .. Burst /\ left <= ideal'[b]
      <4>1. CASE had >= 1
        <5>1. ideal'[b] = ideal[b] - 1
          BY <4>1, <1>1, <1>2 DEF GatesTypeOK
        <5> QED BY <4>1, <5>1, <1>3, <1>4
      <4>2. CASE ~(had >= 1)
        BY <4>2, <1>1, <1>3, <1>4
      <4> QED BY <4>1, <4>2
    <3>2. Available(c)' = Least(Burst, left + Rate * (clock - clock))
      <4>1. entries'[c].tokens = left /\ entries'[c].lastRefill = clock /\ clock' = clock
        BY <2>1, <1>1, <1>7
      <4> HIDE DEF left
      <4>2. left \in Nat /\ Rate * (clock - clock) \in Int
        BY <1>3, <1>5, GatesTypes
      <4> QED BY <4>1, <4>2, <1>3 DEF Available, Least
    <3>3. Rate * (clock - clock) = 0
      BY <1>3, GatesTypes
    <3>4. Available(c)' <= ideal'[c]
      <4> HIDE DEF left
      <4> QED BY <2>1, <3>1, <3>2, <3>3, <1>3, <1>5 DEF Least
    <3>5. entries'[b] # NoBucket
      BY <1>3, <1>7 DEF NoBucket
    <3>6. entries'[b].lastRefill <= entries'[b].lastSeen /\ entries'[b].lastSeen <= clock'
      BY <1>1, <1>3, <1>7
    <3> QED BY <2>1, <3>1, <3>4, <3>5, <3>6 DEF Covered
  <2>2. CASE c # b
    <3>1. entries'[c] = entries[c] /\ ideal'[c] = ideal[c]
      BY <2>2, <1>6
    <3> QED BY <3>1, <1>1 DEF Covered, Available
  <2> QED BY <2>1, <2>2
<1>12. ASSUME NEW q \in Request PROVE AnswerInTime(q)' /\ Reserving(q)'
  <2>1. CASE q = r
    BY <2>1, <1>8, NoRequestTyped DEF AnswerInTime, Reserving
  <2>2. CASE q # r
    <3>1. request'[q] = request[q] /\ request[q].bucket \in BucketKey
      BY <2>2, <1>8, GatesTypes
    <3>2. ASSUME request[q].stage = "reserving"
          PROVE  /\ entries'[request[q].bucket] # NoBucket
                 /\ entries'[request[q].bucket].lastSeen = clock
      <4>1. CASE request[q].bucket = b
        BY <4>1, <1>3, <1>7 DEF NoBucket
      <4>2. CASE request[q].bucket # b
        BY <3>1, <3>2, <4>2, <1>6 DEF Reserving
      <4> QED BY <4>1, <4>2
    <3> QED BY <3>1, <3>2, <1>1 DEF AnswerInTime, Reserving
  <2> QED BY <2>1, <2>2
<1> QED BY <1>9, <1>10, <1>11, <1>12

\* A bucket that is evicted would be full again.
LEMMA EvictInv == GatesInv /\ Evict => GatesInv'
<1> SUFFICES ASSUME GatesInv, Evict PROVE GatesInv' OBVIOUS
<1> USE DEF GatesInv
<1>1. /\ entries' = [b \in BucketKey |->
            IF entries[b] # NoBucket /\ entries[b].lastSeen + BucketTTL < clock
              THEN NoBucket ELSE entries[b]]
      /\ UNCHANGED <<clock, grant, cache, request, revokedAt, ideal>>
  BY DEF Evict
<1>2. GatesTypeOK'
  BY <1>1, NoneTyped DEF GatesTypeOK
<1>3. \A k \in Key : CachedInTime(k)'
  BY <1>1 DEF CachedInTime
<1>4. ASSUME NEW b \in BucketKey PROVE Covered(b)'
  <2>1. CASE entries'[b] = entries[b]
    BY <2>1, <1>1 DEF Covered, Available
  <2>2. CASE entries'[b] # entries[b]
    <3>1. /\ entries[b] # NoBucket /\ entries[b].lastSeen + BucketTTL < clock
          /\ entries'[b] = NoBucket
      BY <2>2, <1>1
    <3> DEFINE i == entries[b].lastRefill
    <3>2. /\ i \in Nat /\ clock \in Nat /\ BucketTTL \in Nat /\ Rate \in Nat /\ Burst \in Nat
          /\ BucketTTL <= clock - i /\ clock - i \in Nat
      BY <3>1, GatesTypes DEF Covered
    <3>3. Rate * BucketTTL <= Rate * (clock - i) /\ Rate * (clock - i) \in Nat
      BY <3>2, ProductGrows
    <3>4. Burst <= Rate * BucketTTL
      BY <3>2, LimitsAssumption
    <3>5. /\ ideal[b] \in 0 .. Burst /\ entries[b].tokens \in Nat
          /\ Least(Burst, entries[b].tokens + Rate * (clock - i)) <= ideal[b]
      BY <3>1, GatesTypes DEF Covered, Available
    <3>6. ideal[b] = Burst
      <4> DEFINE x == Rate * (clock - i)
      <4>1. x \in Nat /\ Burst <= x
        <5>1. Rate * BucketTTL \in Nat
          BY <3>2, ProductGrows
        <5> QED BY <5>1, <3>2, <3>3, <3>4
      <4>2. Least(Burst, entries[b].tokens + x) <= ideal[b]
        BY <3>5
      <4>3. ideal[b] \in 0 .. Burst /\ entries[b].tokens \in Nat /\ Burst \in Nat
        BY <3>2, <3>5
      <4> HIDE DEF x, i
      <4> QED BY <4>1, <4>2, <4>3 DEF Least
    <3> QED BY <3>1, <3>5, <3>6, <1>1 DEF Covered
  <2> QED BY <2>1, <2>2
<1>5. \A r \in Request : AnswerInTime(r)' /\ Reserving(r)'
  BY <1>1, GatesTypes DEF AnswerInTime, Reserving
<1> QED BY <1>2, <1>3, <1>4, <1>5

LEMMA NextGates == GatesInv /\ [GatesNext]_gateVars => GatesInv'
<1> SUFFICES ASSUME GatesInv, [GatesNext]_gateVars PROVE GatesInv' OBVIOUS
<1>1. CASE PassGateTime
  BY <1>1, PassGateTimeInv
<1>2. CASE Evict
  BY <1>2, EvictInv
<1>3. CASE \E k \in Key, res \in Grant : ChangeGrant(k, res)
  BY <1>3, ChangeGrantInv
<1>4. ASSUME NEW r \in Request, \/ \E a \in User : TalkAuth(r, a)
                                \/ APIKeyAuth(r) \/ RateLimit(r)
      PROVE  GatesInv'
  <2>1. CASE RateLimit(r)
    BY <2>1, GetInv, ReserveInv DEF RateLimit
  <2> QED BY <1>4, <2>1, RequestSteps
<1>5. CASE UNCHANGED gateVars
  <2> USE <1>5 DEF gateVars, GatesInv
  <2>1. GatesTypeOK' /\ \A k \in Key : CachedInTime(k)'
    BY DEF GatesTypeOK, CachedInTime
  <2>2. \A b \in BucketKey : Covered(b)'
    BY DEF Covered, Available
  <2>3. \A r \in Request : AnswerInTime(r)' /\ Reserving(r)'
    BY DEF AnswerInTime, Reserving
  <2> QED BY <2>1, <2>2, <2>3
<1> QED BY <1>1, <1>2, <1>3, <1>4, <1>5 DEF GatesNext

\* Only a step of a request with a key authenticates it by the key.
LEMMA AuthenticatedByKey ==
  ASSUME GatesInv, GatesNext, NEW r \in Request, request[r].stage # "authenticated",
         request'[r].stage = "authenticated", request'[r].by = "key"
  PROVE  APIKeyAuth(r)
<1> USE DEF GatesInv
<1>1. ~PassGateTime /\ ~Evict /\ \A k \in Key, res \in Grant : ~ChangeGrant(k, res)
  BY DEF PassGateTime, Evict, ChangeGrant
<1>2. PICK q \in Request : \/ \E a \in User : TalkAuth(q, a)
                          \/ APIKeyAuth(q) \/ RateLimit(q)
  BY <1>1 DEF GatesNext
<1>3. q = r
  <2> SUFFICES ASSUME q # r PROVE FALSE OBVIOUS
  <2>1. request'[r] = request[r] \/ APIKeyAuth(q)
    BY <1>2 DEF TalkAuth, RateLimit, Get, Reserve, GatesTypeOK
  <2>2. CASE APIKeyAuth(q)
    BY <2>2 DEF APIKeyAuth, Introspect, PassOn, AnswerKey, RememberKey, FailClosed, GatesTypeOK
  <2> QED BY <2>1, <2>2
<1>4. \A a \in User : ~TalkAuth(r, a)
  <2> SUFFICES ASSUME NEW a \in User, TalkAuth(r, a) PROVE FALSE OBVIOUS
  <2>1. request' = [request EXCEPT ![r] =
          [NoRequest EXCEPT !.stage = "authenticated", !.bucket = a]]
    BY DEF TalkAuth
  <2>2. request'[r].by = "session"
    BY <2>1, NoRequestTyped DEF GatesTypeOK
  <2> QED BY <2>2
<1>5. ~RateLimit(r)
  <2>1. Get(r) => request'[r].stage = "reserving"
    BY DEF Get, GatesTypeOK, RequestState
  <2>2. Reserve(r) => request'[r].stage = "idle"
    BY NoRequestTyped DEF Reserve, GatesTypeOK
  <2> QED BY <2>1, <2>2 DEF RateLimit
<1> QED BY <1>2, <1>3, <1>4, <1>5

----------------------------------------------------------------------------
\* The results

\* Every variable of the gates keeps to its type.
THEOREM GatesTyped == GatesSpec => []GatesTypeOK
<1>1. GatesSpec => []GatesInv
  BY InitGates, NextGates, PTL DEF GatesSpec
<1>2. GatesInv => GatesTypeOK
  BY DEF GatesInv
<1> QED BY <1>1, <1>2, PTL

\* Requests never get more than the burst and the rate since, however they interleave
\* and whatever is evicted between them.
THEOREM BurstsBounded == GatesSpec => []BurstBound
<1>1. GatesSpec => []GatesInv
  BY InitGates, NextGates, PTL DEF GatesSpec
<1>2. GatesInv => BurstBound
  BY GatesTypes DEF GatesInv, Covered, BurstBound
<1> QED BY <1>1, <1>2, PTL

\* A revoked key lets no request pass after the lifetime of an answer and the timeout of
\* a question, whichever answers overtake one another.
THEOREM RevokedKeysStop == GatesSpec => RevokedKeyStops
<1> DEFINE Stops ==
      \A r \in Request :
        /\ request[r].stage # "authenticated"
        /\ request'[r].stage = "authenticated" /\ request'[r].by = "key"
        => clock < revokedAt[request'[r].key] + KeyTTL + KeyTimeout
<1>1. GatesSpec => []GatesInv
  BY InitGates, NextGates, PTL DEF GatesSpec
<1>2. GatesInv /\ [GatesNext]_gateVars => [Stops]_gateVars
  <2> SUFFICES ASSUME GatesInv, GatesNext, NEW r \in Request,
                      request[r].stage # "authenticated",
                      request'[r].stage = "authenticated", request'[r].by = "key"
               PROVE  clock < revokedAt[request'[r].key] + KeyTTL + KeyTimeout
    BY DEF Stops
  <2> USE DEF GatesInv
  <2>1. APIKeyAuth(r)
    BY AuthenticatedByKey
  <2>2. CASE \E k \in Key : \E b \in {k, Owner[k]} : Introspect(r, k, b)
    <3>0. PICK k \in Key : \E b \in {k, Owner[k]} : Introspect(r, k, b)
      BY <2>2
    <3>1. PICK b \in {k, Owner[k]} : Introspect(r, k, b)
      BY <3>0
    <3>2. b \in BucketKey
      BY KeysAssumption DEF BucketKey
    <3>3. Fresh(k)
      <4>1. SUFFICES ASSUME ~Fresh(k) PROVE FALSE OBVIOUS
      <4>2. request' = [request EXCEPT ![r] =
              [NoRequest EXCEPT !.stage = "asking", !.key = k, !.bucket = b, !.at = clock]]
        BY <3>1, <4>1 DEF Introspect
      <4> QED BY <4>2, NoRequestTyped DEF GatesTypeOK
    <3>4. PassOn(r, k, b, cache[k].res)
      BY <3>1, <3>3 DEF Introspect
    <3>5. cache[k].res = "valid" /\ request'[r].key = k
      BY <3>2, <3>4, PassedOn
    <3>6. /\ cache[k].fetched <= revokedAt[k] + KeyTimeout
          /\ clock - cache[k].fetched < KeyTTL
      BY <3>3, <3>5 DEF Fresh, CachedInTime
    <3> QED BY <3>5, <3>6, GatesTypes
  <2>3. CASE RememberKey(r)
    <3>1. /\ request[r].stage = "answered"
          /\ PassOn(r, request[r].key, request[r].bucket, request[r].res)
      BY <2>3 DEF RememberKey
    <3>2. request[r].res = "valid" /\ request'[r].key = request[r].key
      BY <3>1, PassedOn, GatesTypes
    <3>3. /\ clock <= request[r].at + KeyTimeout
          /\ request[r].at <= revokedAt[request[r].key]
      BY <3>1, <3>2 DEF AnswerInTime
    <3> QED BY <3>2, <3>3, GatesTypes
  <2>4. CASE AnswerKey(r)
    BY <2>4 DEF AnswerKey, GatesTypeOK, RequestState
  <2>5. CASE FailClosed(r)
    BY <2>5, NoRequestTyped DEF FailClosed, GatesTypeOK
  <2> QED BY <2>1, <2>2, <2>3, <2>4, <2>5 DEF APIKeyAuth
<1> QED BY <1>1, <1>2, PTL DEF GatesSpec, RevokedKeyStops

==============================================================================
