-------------------------- MODULE ReadStateProofs --------------------------
(***************************************************************************)
(* Theorems about ReadState, for any requests and clocks.  The in-memory   *)
(* persister compares and writes in one step.  On the SQL ones the         *)
(* argument is that without overlap the only request in flight is the one  *)
(* that compared, so the cursor is still what it compared with.            *)
(*                                                                         *)
(* Then about ChannelView, for any channels, messages and requests.  All   *)
(* that the page holds of a message are moments of its life on the server, *)
(* so that a merge is the later of two; and each listing is whole up to    *)
(* the newest clock in it, so that what is shown up to a clock is all that *)
(* there is up to it.                                                      *)
(***************************************************************************)
EXTENDS MCReadState, WellFoundedInduction, TLAPS

\* A request that has been made carries a clock.
Marked == \A r \in Request : pc[r] # "idle" => mark[r] \in Clock

\* Without overlap requests follow one another, and a comparison still holds
\* when its upsert comes.
Serial ==
  /\ \A r, q \in Request : InFlight(r) /\ InFlight(q) => r = q
  /\ \A r \in Request : pc[r] = "newer" => cursor < mark[r]

Inv == TypeOK /\ Marked /\ (~ overlap => Serial) /\ AckedIsRead

LEMMA InitInv == Init => Inv
BY UnreadAssumption, PersistersAssumption
   DEF Init, Inv, TypeOK, Marked, Serial, InFlight, AckedIsRead

LEMMA MarkReadInv ==
  ASSUME Inv, NEW r \in Request, NEW c \in Clock, MarkRead(r, c)
  PROVE  Inv'
<1>1. TypeOK' /\ Marked'
  BY DEF Inv, TypeOK, Marked, MarkRead
<1>2. ~ overlap' => Serial'
  BY DEF Inv, TypeOK, Serial, MarkRead, InFlight
<1>3. AckedIsRead'
  BY DEF Inv, AckedIsRead, MarkRead
<1> QED BY <1>1, <1>2, <1>3 DEF Inv

LEMMA SaveInMemoryInv ==
  ASSUME Inv, NEW r \in Request, SaveInMemory(r)
  PROVE  Inv' /\ cursor <= cursor'
<1>1. mark[r] \in Clock /\ cursor \in Nat /\ mark[r] \in Nat
  BY ClockAssumption, UnreadAssumption DEF Inv, TypeOK, Marked, SaveInMemory
<1>2. cursor <= cursor' /\ mark[r] <= cursor' /\ cursor' \in Nat
  BY <1>1 DEF SaveInMemory, Newer
<1>3. TypeOK' /\ Marked'
  BY <1>1 DEF Inv, TypeOK, Marked, SaveInMemory, Return
<1>4. ~ overlap' => Serial'
  BY <1>1 DEF Inv, TypeOK, Serial, SaveInMemory, Return, InFlight
<1>5. AckedIsRead'
  BY <1>1, <1>2, ClockAssumption DEF Inv, TypeOK, AckedIsRead, SaveInMemory, Return
<1> QED BY <1>2, <1>3, <1>4, <1>5 DEF Inv

LEMMA CompareInv ==
  ASSUME Inv, NEW r \in Request, Compare(r)
  PROVE  Inv'
<1>1. mark[r] \in Clock /\ cursor \in Nat /\ mark[r] \in Nat
  BY ClockAssumption, UnreadAssumption DEF Inv, TypeOK, Marked, Compare
<1>2. TypeOK' /\ Marked'
  BY <1>1 DEF Inv, TypeOK, Marked, Compare, Return
<1>3. ~ overlap' => Serial'
  BY <1>1 DEF Inv, TypeOK, Serial, Compare, Return, InFlight, Newer
<1>4. AckedIsRead'
  <2>1. acked' = acked \/ (acked' = acked \cup {mark[r]} /\ mark[r] <= cursor)
    BY <1>1 DEF Compare, Return, Newer
  <2>2. UNCHANGED <<persister, overlap, cursor>>
    BY DEF Compare
  <2> QED BY <2>1, <2>2 DEF Inv, AckedIsRead
<1> QED BY <1>2, <1>3, <1>4 DEF Inv

LEMMA UpsertInv ==
  ASSUME Inv, NEW r \in Request, Upsert(r)
  PROVE  Inv'
<1>1. mark[r] \in Clock /\ cursor \in Nat /\ mark[r] \in Nat
  BY ClockAssumption, UnreadAssumption DEF Inv, TypeOK, Marked, Upsert
<1>2. TypeOK' /\ Marked'
  BY <1>1 DEF Inv, TypeOK, Marked, Upsert, Return
<1>3. ~ overlap' => Serial'
  BY <1>1 DEF Inv, TypeOK, Serial, Upsert, Return, InFlight
<1>4. AckedIsRead'
  BY <1>1, ClockAssumption
     DEF Inv, TypeOK, AckedIsRead, Serial, Upsert, Return
<1> QED BY <1>2, <1>3, <1>4 DEF Inv

LEMMA FailInv ==
  ASSUME Inv, NEW r \in Request, Fail(r)
  PROVE  Inv'
<1>1. TypeOK' /\ Marked'
  BY DEF Inv, TypeOK, Marked, Fail, InFlight
<1>2. ~ overlap' => Serial'
  BY DEF Inv, TypeOK, Serial, Fail, InFlight
<1>3. AckedIsRead'
  BY DEF Inv, AckedIsRead, Fail
<1> QED BY <1>1, <1>2, <1>3 DEF Inv

\* The inductive invariant holds in every reachable state.
THEOREM InvariantInv == Spec => []Inv
<1>1. Inv /\ [Next]_vars => Inv'
  <2> SUFFICES ASSUME Inv, [Next]_vars PROVE Inv'
    OBVIOUS
  <2>1. CASE UNCHANGED vars
    BY <2>1 DEF vars, Inv, TypeOK, Marked, Serial, InFlight, AckedIsRead
  <2>2. CASE Next
    BY <2>2, MarkReadInv, SaveInMemoryInv, CompareInv, UpsertInv, FailInv DEF Next
  <2> QED BY <2>1, <2>2
<1> QED BY <1>1, InitInv, PTL DEF Spec

\* What a client was told is read stays read (SaveReadState): in memory under
\* any overlap of requests, on the SQL persisters while requests do not overlap.
THEOREM AckedStaysRead == Spec => []AckedIsRead
<1>1. Inv => AckedIsRead
  BY DEF Inv
<1> QED BY <1>1, InvariantInv, PTL

----------------------------------------------------------------------------
\* The view

\* a is an earlier moment of a message's life than b, or the same.
Leads(a, b) ==
  \/ a = b
  \/ /\ a.clock < b.clock /\ b.state # "none"
     /\ a.state = "deleted" => b.state = "deleted"
     /\ a.state # "none" => b.state # "active"

Related(a, b) == Leads(a, b) \/ Leads(b, a)

\* Nothing that was written up to the newest clock of a channel's list is missing.
Whole(list) ==
  \A m, n \in MsgId :
    Home[m] = Home[n] /\ server[m].clock <= list[n].clock => server[m].clock <= list[m].clock

\* Up to clock k, every message of c has been shown as it is now.
Seen(c, k) == \A m \in MsgId : Home[m] = c /\ server[m].clock <= k => m \notin unseen

\* A message that is there has a clock.
Real(e) == e.clock = 0 <=> e.state = "none"

\* What is held of each message are moments of one life, none of them later than the server's.
Held(m) == {server[m], store[m]} \cup {fetch[f].list[m] : f \in Fetch}

OneLife ==
  \A m \in MsgId : \A e \in Held(m) :
    Real(e) /\ Leads(e, server[m]) /\ \A d \in Held(m) : Related(d, e)

\* What the selected channel shows is what was seen of it.
Shown ==
  /\ messages.list = Of(store, messages.of)
  /\ \A m \in unseen : server[m].clock # 0
  /\ messages.of = selected =>
       \A m \in unseen : Home[m] = selected => messages.list[m].clock < server[m].clock

\* A mark that is on its way covers what was seen, or is on its way to stray.
Marking ==
  \A f \in Fetch :
    /\ fetch[f].last <= Newest(server)
    /\ fetch[f].stage # "idle" /\ fetch[f].kind = "send" /\ fetch[f].of = fetch[f].channel =>
         Seen(fetch[f].channel, fetch[f].last)

Cursor ==
  \A c \in Channel :
    /\ readUpTo[c] <= Newest(server)
    /\ c \notin strayed => Seen(c, readUpTo[c])

ViewInv ==
  /\ ViewTypeOK
  /\ \A f \in Fetch : fetch[f].stage # "idle" => fetch[f].channel \in Channel
  /\ OneLife
  /\ Whole(store) /\ \A f \in Fetch : Whole(fetch[f].list)
  /\ Shown
  /\ Marking
  /\ Cursor

LEMMA NothingTyped == Nothing \in Entry /\ Nothing.clock = 0 /\ Nothing.state = "none"
BY BeforeAssumption DEF Nothing, Entry, State

LEMMA HeldTyped ==
  ASSUME ViewTypeOK, NEW m \in MsgId
  PROVE  Held(m) \subseteq Entry
BY DEF ViewTypeOK, Held, FetchState

LEMMA NothingLeads ==
  ASSUME NEW e \in Entry, Real(e)
  PROVE  Leads(Nothing, e) /\ Real(Nothing)
<1>1. e = [state |-> e.state, clock |-> e.clock] /\ e.clock \in Nat
  BY BeforeAssumption DEF Entry
<1> QED BY <1>1 DEF Leads, Real, Nothing

LEMMA LeadsOn ==
  ASSUME NEW a \in Entry, NEW b \in Entry, NEW c \in Entry, Leads(a, b), Leads(b, c)
  PROVE  Leads(a, c) /\ a.clock <= c.clock
BY BeforeAssumption DEF Leads, Entry

\* Of two moments of one life, a merge takes the later one.
LEMMA MergeIsLater ==
  ASSUME NEW a \in Entry, NEW b \in Entry, Related(a, b)
  PROVE  Merged(a, b) = (IF Leads(a, b) THEN b ELSE a)
<1>1. a.clock \in Nat /\ b.clock \in Nat /\ a.state \in State /\ b.state \in State
  BY BeforeAssumption DEF Entry
<1>2. CASE b.state = "none"
  <2>1. Merged(a, b) = a
    BY <1>2 DEF Merged
  <2> QED BY <1>1, <1>2, <2>1 DEF Related, Leads
<1>3. CASE b.state # "none" /\ a.state = "none"
  <2>1. Merged(a, b) = b
    BY <1>3 DEF Merged
  <2> QED BY <1>1, <1>3, <2>1 DEF Related, Leads
<1>4. CASE b.state = "active" /\ a.state # "none"
  <2>1. Merged(a, b) = a
    BY <1>4 DEF Merged
  <2> QED BY <1>1, <1>4, <2>1 DEF Related, Leads
<1>5. CASE b.state = "edited" /\ a.state # "none"
  <2>1. Merged(a, b) = IF a.state # "deleted" /\ b.clock > a.clock THEN b ELSE a
    BY <1>5 DEF Merged
  <2> QED BY <1>1, <1>5, <2>1 DEF Related, Leads
<1>6. CASE b.state = "deleted" /\ a.state # "none"
  <2>1. Merged(a, b) = [state |-> "deleted",
                        clock |-> IF b.clock > a.clock THEN b.clock ELSE a.clock]
    BY <1>6 DEF Merged
  <2>2. a = [state |-> a.state, clock |-> a.clock] /\ b = [state |-> b.state, clock |-> b.clock]
    BY DEF Entry
  <2> QED BY <1>1, <1>6, <2>1, <2>2 DEF Related, Leads
<1> QED BY <1>1, <1>2, <1>3, <1>4, <1>5, <1>6 DEF State

\* The newest clock of a list.
LEMMA NewestOfList ==
  ASSUME NEW list \in [MsgId -> Entry]
  PROVE  /\ Newest(list) \in 0 .. MaxClock
         /\ \E m \in MsgId : list[m].clock = Newest(list)
         /\ \A m \in MsgId : list[m].clock <= Newest(list)
<1> DEFINE clocks == {list[m].clock : m \in MsgId}
           above == {n \in Nat : \A k \in clocks : k <= n}
<1>1. clocks \subseteq 0 .. MaxClock /\ clocks \subseteq Nat /\ clocks # {} /\ MaxClock \in Nat
  BY BeforeAssumption DEF Entry
<1>2. MaxClock \in above
  BY <1>1
<1>3. PICK n \in above : \A m \in above : ~ <<m, n>> \in OpToRel(<, Nat)
  <2>1. above \subseteq Nat /\ above # {}
    BY <1>2
  <2> HIDE DEF above
  <2> QED BY <2>1, WFMin, NatLessThanWellFounded
<1>4. \A m \in above : ~ m < n
  BY <1>3 DEF OpToRel
<1>5. n \in clocks
  <2> SUFFICES ASSUME n \notin clocks PROVE FALSE
    OBVIOUS
  <2>1. PICK k \in clocks : TRUE
    BY <1>1
  <2>2. n \in Nat /\ \A j \in clocks : j \in Nat /\ j <= n /\ j # n
    BY <1>1
  <2>3. n - 1 \in Nat /\ \A j \in clocks : j <= n - 1
    <3> HIDE DEF clocks
    <3> QED BY <2>1, <2>2
  <2>4. n - 1 \in above /\ n - 1 < n
    BY <2>2, <2>3
  <2> QED BY <1>4, <2>4
<1>6. \A k \in clocks : n >= k
  BY <1>1
<1>7. Newest(list) \in clocks /\ \A k \in clocks : Newest(list) >= k
  BY <1>5, <1>6 DEF Newest, Max
<1> QED BY <1>1, <1>7

\* Requests as they are made.
LEMMA RequestTypes ==
  /\ Idle \in FetchState /\ Idle.stage = "idle" /\ Idle.kind = "poll" /\ Idle.last = 0
  /\ \A m \in MsgId : Idle.list[m] = Nothing
  /\ \A c \in Channel :
       /\ Load(c) \in FetchState /\ Load(c).kind = "poll" /\ Load(c).last = 0
       /\ Load(c).stage = "loading" /\ Load(c).channel = c /\ Load(c).list = Idle.list
<1>1. /\ Idle \in FetchState /\ Idle.stage = "idle" /\ Idle.kind = "poll" /\ Idle.last = 0
      /\ \A m \in MsgId : Idle.list[m] = Nothing
  <2>1. [m \in MsgId |-> Nothing] \in [MsgId -> Entry] /\ 0 \in 0 .. MaxClock
    BY NothingTyped, BeforeAssumption
  <2> QED BY <2>1 DEF Idle, FetchState
<1>2. \A c \in Channel : Load(c) = [Idle EXCEPT !.stage = "loading", !.channel = c]
  BY DEF Load
<1>3. ASSUME NEW c \in Channel
      PROVE  /\ Load(c) \in FetchState /\ Load(c).kind = "poll" /\ Load(c).last = 0
             /\ Load(c).stage = "loading" /\ Load(c).channel = c /\ Load(c).list = Idle.list
  <2>1. PICK idle \in FetchState : idle = Idle
    BY <1>1
  <2>2. idle.kind = "poll" /\ idle.last = 0
    BY <1>1, <2>1
  <2>3. Load(c) = [idle EXCEPT !.stage = "loading", !.channel = c]
    BY <1>2, <2>1
  <2> QED BY <2>1, <2>2, <2>3 DEF FetchState
<1> QED BY <1>1, <1>3

\* A life goes on when nothing is held but what was held, what is now on the server, or nothing.
LEMMA LifeGoesOn ==
  ASSUME ViewTypeOK, ViewTypeOK', OneLife,
         \A m \in MsgId : Real(server'[m]) /\ Leads(server[m], server'[m]),
         \A m \in MsgId : Held(m)' \subseteq Held(m) \cup {Nothing, server'[m]}
  PROVE  OneLife'
<1> SUFFICES ASSUME NEW m \in MsgId, NEW e \in Held(m)', NEW d \in Held(m)'
             PROVE  Real(e) /\ Leads(e, server'[m]) /\ Related(d, e)
  BY DEF OneLife
<1> DEFINE now == server'[m]
<1>1. server[m] \in Held(m) /\ server[m] \in Entry /\ now \in Entry /\ Real(now)
  BY DEF ViewTypeOK, Held
<1>2. Held(m) \subseteq Entry /\ Nothing \in Entry /\ Real(Nothing)
  BY <1>1, HeldTyped, NothingTyped, NothingLeads
<1>3. \A x \in Held(m) : Real(x) /\ Leads(x, now) /\ \A y \in Held(m) : Related(y, x)
  <2>1. ASSUME NEW x \in Held(m) PROVE Real(x) /\ Leads(x, server[m]) /\ Leads(server[m], now)
    BY DEF OneLife
  <2> QED BY <1>1, <1>2, <2>1, LeadsOn DEF OneLife
<1> HIDE DEF now
<1>4. \A x \in Held(m) \cup {now} : Leads(Nothing, x) /\ Leads(x, now)
  BY <1>1, <1>2, <1>3, NothingLeads DEF Leads
<1>5. e \in Held(m) \cup {Nothing, now} /\ d \in Held(m) \cup {Nothing, now}
  BY DEF now
<1>6. Leads(Nothing, Nothing)
  BY DEF Leads
<1> QED BY <1>1, <1>2, <1>3, <1>4, <1>5, <1>6 DEF Related, now

LEMMA HeldKept ==
  ASSUME ViewTypeOK, ViewTypeOK', OneLife, server' = server,
         \A m \in MsgId : Held(m)' \subseteq Held(m) \cup {Nothing, server[m]}
  PROVE  OneLife'
<1>1. \A m \in MsgId : Real(server[m]) /\ Leads(server[m], server[m])
  BY DEF OneLife, Held
<1> QED BY <1>1, LifeGoesOn

LEMMA ViewInitInv == ViewInit => ViewInv
<1> SUFFICES ASSUME ViewInit PROVE ViewInv
  OBVIOUS
<1>1. ViewTypeOK
  BY RequestTypes, NothingTyped, BeforeAssumption DEF ViewInit, ViewTypeOK
<1>2. OneLife
  <2>1. ASSUME NEW m \in MsgId, NEW e \in Held(m), NEW d \in Held(m)
        PROVE  Real(e) /\ Leads(e, server[m]) /\ Related(d, e)
    <3>1. server[m] \in Entry /\ Real(server[m])
      BY BeforeAssumption DEF ViewInit, Real
    <3>2. e \in {Nothing, server[m]} /\ d \in {Nothing, server[m]}
      BY <2>1, RequestTypes DEF ViewInit, Held
    <3> QED BY <3>1, <3>2, NothingLeads DEF Related, Leads
  <2> QED BY <2>1 DEF OneLife
<1>3. \A m \in MsgId : store[m].clock = 0 /\ server[m].clock \in Nat
  BY NothingTyped, <1>1, BeforeAssumption DEF ViewInit, ViewTypeOK, Entry
<1>4. Whole(store) /\ \A f \in Fetch : Whole(fetch[f].list)
  BY <1>3, RequestTypes, NothingTyped DEF Whole, ViewInit
<1>5. Shown
  <2>1. messages.list = Of(store, messages.of)
    BY HomeAssumption DEF ViewInit, Of
  <2>2. \A m \in unseen : server[m].clock # 0
    <3> SUFFICES ASSUME NEW m \in unseen PROVE server[m].clock # 0
      OBVIOUS
    <3>1. m \in MsgId /\ server[m] # Nothing /\ Real(server[m]) /\ server[m] \in Entry
      BY BeforeAssumption DEF ViewInit, Real
    <3>2. server[m] = [state |-> server[m].state, clock |-> server[m].clock]
      BY <3>1 DEF Entry
    <3> QED BY <3>1, <3>2 DEF Real, Nothing
  <2>3. \A m \in MsgId : Home[m] # selected
    BY HomeAssumption DEF ViewInit
  <2> QED BY <1>1, <2>1, <2>2, <2>3 DEF Shown, ViewTypeOK
<1>6. Newest(server) \in Nat
  BY <1>1, NewestOfList, BeforeAssumption DEF ViewTypeOK
<1>7. \A c \in Channel : Seen(c, 0)
  BY <1>1, <1>3, <1>5 DEF Seen, Shown
<1>8. Marking /\ Cursor
  BY <1>6, <1>7, RequestTypes DEF Marking, Cursor, ViewInit
<1> QED BY <1>1, <1>2, <1>4, <1>5, <1>8, RequestTypes DEF ViewInv, ViewInit

----------------------------------------------------------------------------
\* Writes on the server

\* A write leaves the message with a clock that nothing has had so far.
LEMMA WriteEffect ==
  ASSUME ViewInv, NEW m \in MsgId, Post(m) \/ Edit(m) \/ Delete(m)
  PROVE  /\ server' \in [MsgId -> Entry] /\ unseen' = unseen \cup {m}
         /\ server'[m].clock > Newest(server)
         /\ Newest(server) \in Nat /\ Newest(server') \in Nat /\ Newest(server) <= Newest(server')
         /\ \A x \in MsgId : Real(server'[x]) /\ Leads(server[x], server'[x])
         /\ \A x \in MsgId : x # m => server'[x] = server[x]
<1>1. server \in [MsgId -> Entry] /\ \A x \in MsgId : server[x] \in Entry /\ Real(server[x])
  BY DEF ViewInv, ViewTypeOK, OneLife, Held
<1>2. PICK state \in {"active", "edited", "deleted"} :
        /\ Stamped(m, state)
        /\ state = "active" => server[m].state = "none"
        /\ server[m].state = "deleted" => state = "deleted"
  BY DEF Post, Edit, Delete
<1>3. /\ Newest(server) \in Nat /\ Newest(server) < MaxClock /\ MaxClock \in Nat
      /\ \A x \in MsgId : server[x].clock <= Newest(server)
  BY <1>1, <1>2, NewestOfList, BeforeAssumption DEF Stamped
<1>4. PICK new : new = [state |-> state, clock |-> Newest(server) + 1]
  OBVIOUS
<1>5. new \in Entry /\ new.clock > Newest(server) /\ new.state = state /\ new.clock # 0
  BY <1>2, <1>3, <1>4 DEF Entry, State
<1>6. server' = [server EXCEPT ![m] = new] /\ unseen' = unseen \cup {m}
  BY <1>2, <1>4 DEF Stamped
<1>7. server' \in [MsgId -> Entry] /\ server'[m] = new
      /\ \A x \in MsgId : x # m => server'[x] = server[x]
  BY <1>1, <1>5, <1>6
<1>8. Newest(server') \in Nat /\ \A x \in MsgId : server'[x].clock <= Newest(server')
  <2>1. PICK after : after = server'
    OBVIOUS
  <2> QED BY <1>7, <2>1, NewestOfList, BeforeAssumption
<1>9. Newest(server) <= Newest(server')
  <2>1. new.clock \in Nat /\ new.clock <= Newest(server')
    BY <1>5, <1>7, <1>8, BeforeAssumption DEF Entry
  <2> QED BY <1>3, <1>5, <1>8, <2>1
<1>10. Real(new) /\ Leads(server[m], new)
  BY <1>1, <1>2, <1>3, <1>5 DEF Real, Leads, Entry
<1>11. \A x \in MsgId : Real(server'[x]) /\ Leads(server[x], server'[x])
  BY <1>1, <1>7, <1>10 DEF Leads
<1> QED BY <1>3, <1>5, <1>6, <1>7, <1>8, <1>9, <1>11

\* A request is as it was, or makes no mark (any more).
Milder(f) ==
  /\ fetch'[f].list \in {fetch[f].list, Idle.list}
  /\ fetch'[f].stage # "idle" => fetch'[f].channel \in Channel
  /\ \/ fetch'[f].kind # "send" /\ fetch'[f].last = 0
     \/ /\ fetch[f].stage # "idle"
        /\ fetch'[f].kind = fetch[f].kind /\ fetch'[f].last = fetch[f].last
        /\ fetch'[f].of = fetch[f].of /\ fetch'[f].channel = fetch[f].channel
     \/ fetch'[f] = fetch[f]

LEMMA MilderHeld ==
  ASSUME ViewTypeOK, store' = store, \A f \in Fetch : Milder(f), NEW m \in MsgId
  PROVE  Held(m)' \subseteq Held(m) \cup {Nothing, server'[m]}
<1> SUFFICES ASSUME NEW f \in Fetch PROVE fetch'[f].list[m] \in Held(m) \cup {Nothing}
  BY DEF Held
<1> QED BY RequestTypes DEF Milder, Held

LEMMA WriteInv ==
  ASSUME ViewInv, NEW m \in MsgId, Post(m) \/ Edit(m) \/ Delete(m),
         UNCHANGED <<store, selected, messages, readUpTo, strayed>>,
         fetch' \in [Fetch -> FetchState], \A f \in Fetch : Milder(f)
  PROVE  ViewInv'
<1> USE WriteEffect
<1>1. ViewTypeOK'
  BY DEF ViewInv, ViewTypeOK
<1>2. OneLife'
  BY <1>1, MilderHeld, LifeGoesOn DEF ViewInv
<1>3. \A x \in MsgId : server[x].clock <= Newest(server) /\ server[x].clock \in Nat
  BY NewestOfList, BeforeAssumption DEF ViewInv, ViewTypeOK, Entry
<1>4. \A x \in MsgId, k \in Nat : k <= Newest(server) /\ server'[x].clock <= k =>
        x # m /\ server[x].clock <= k /\ server'[x] = server[x]
  <2>1. server'[m].clock \in Nat
    BY BeforeAssumption DEF Entry
  <2> QED BY <2>1
<1>5. ASSUME NEW list \in [MsgId -> Entry], Whole(list),
             \A x \in MsgId : Leads(list[x], server[x])
      PROVE  Whole(list)'
  <2>1. \A x \in MsgId : list[x].clock \in Nat /\ list[x].clock <= Newest(server)
    BY <1>3, <1>5, BeforeAssumption DEF Leads, Entry
  <2> QED BY <1>4, <1>5, <2>1 DEF Whole
<1>6. Whole(store)'
  <2>1. store \in [MsgId -> Entry] /\ \A x \in MsgId : Leads(store[x], server[x])
    BY DEF ViewInv, ViewTypeOK, OneLife, Held
  <2>2. PICK list : list = store
    OBVIOUS
  <2>3. Whole(list)'
    BY <1>5, <2>1, <2>2 DEF ViewInv, Whole
  <2> QED BY <2>2, <2>3 DEF Whole
<1>7. ASSUME NEW f \in Fetch PROVE Whole(fetch[f].list)'
  <2>1. PICK list : list = fetch'[f].list
    OBVIOUS
  <2>2. list \in {fetch[f].list, Idle.list}
    BY <2>1 DEF Milder
  <2>3. CASE list = fetch[f].list
    <3>1. list \in [MsgId -> Entry] /\ \A x \in MsgId : Leads(list[x], server[x])
      BY <2>3 DEF ViewInv, ViewTypeOK, FetchState, OneLife, Held
    <3>2. Whole(list)
      BY <2>3 DEF ViewInv, Whole
    <3>3. Whole(list)'
      BY <1>5, <3>1, <3>2
    <3> QED BY <2>1, <3>3 DEF Whole
  <2>4. CASE list = Idle.list
    <3>1. \A x \in MsgId : list[x].clock = 0
      BY <2>4, RequestTypes, NothingTyped
    <3>2. \A x \in MsgId : server'[x].clock \in Nat
      BY BeforeAssumption DEF Entry
    <3> QED BY <2>1, <3>1, <3>2 DEF Whole
  <2> QED BY <2>2, <2>3, <2>4
<1>8. Shown'
  <2>1. \A x \in MsgId : server'[x].clock \in Nat /\ server[x].clock <= server'[x].clock
                         /\ messages.list[x].clock <= server[x].clock
                         /\ messages.list[x].clock \in Nat
    <3> SUFFICES ASSUME NEW x \in MsgId
                 PROVE  /\ server'[x].clock \in Nat /\ server[x].clock <= server'[x].clock
                        /\ messages.list[x].clock <= server[x].clock
                        /\ messages.list[x].clock \in Nat
      OBVIOUS
    <3>1. messages.list[x] \in {store[x], Nothing}
      BY DEF ViewInv, Shown, Of
    <3>2. Leads(store[x], server[x]) /\ Leads(server[x], server'[x])
      BY DEF ViewInv, OneLife, Held
    <3>3. store[x] \in Entry /\ server[x] \in Entry /\ server'[x] \in Entry
      BY DEF ViewInv, ViewTypeOK
    <3> QED BY <3>1, <3>2, <3>3, NothingTyped, LeadsOn, BeforeAssumption DEF Leads, Entry
  <2>2. server'[m].clock > messages.list[m].clock
    BY <1>3, <2>1
  <2> QED BY <1>3, <2>1, <2>2 DEF ViewInv, ViewTypeOK, Shown
<1>9. \A k \in Nat, c \in Channel : k <= Newest(server) /\ Seen(c, k) => Seen(c, k)'
  BY <1>4 DEF Seen
<1>10. Marking'
  <2> SUFFICES ASSUME NEW f \in Fetch
               PROVE  /\ fetch'[f].last <= Newest(server')
                      /\ fetch'[f].stage # "idle" /\ fetch'[f].kind = "send"
                         /\ fetch'[f].of = fetch'[f].channel
                           => Seen(fetch[f].channel, fetch[f].last)'
    BY DEF Marking
  <2>1. fetch'[f].last \in {fetch[f].last, 0} /\ fetch[f].last \in Nat
        /\ fetch[f].last <= Newest(server)
    <3>1. fetch'[f].last \in {fetch[f].last, 0}
      BY DEF Milder
    <3>2. fetch[f] \in FetchState /\ fetch[f].last <= Newest(server)
      BY DEF ViewInv, ViewTypeOK, Marking
    <3> QED BY <3>1, <3>2, BeforeAssumption DEF FetchState
  <2>2. ASSUME fetch'[f].stage # "idle", fetch'[f].kind = "send", fetch'[f].of = fetch'[f].channel
        PROVE  Seen(fetch[f].channel, fetch[f].last)'
    <3>1. /\ fetch[f].stage # "idle" /\ fetch[f].kind = "send" /\ fetch[f].of = fetch[f].channel
          /\ fetch'[f].channel = fetch[f].channel /\ fetch'[f].last = fetch[f].last
      BY <2>2 DEF Milder
    <3>2. fetch[f].channel \in Channel /\ Seen(fetch[f].channel, fetch[f].last)
      BY <3>1 DEF ViewInv, Marking
    <3>3. PICK c, k : c = fetch[f].channel /\ k = fetch[f].last
      OBVIOUS
    <3>4. Seen(c, k)'
      BY <1>9, <2>1, <3>2, <3>3
    <3> QED BY <3>1, <3>3, <3>4 DEF Seen
  <2> QED BY <2>1, <2>2
<1>11. Cursor'
  <2> SUFFICES ASSUME NEW c \in Channel
               PROVE  readUpTo[c] <= Newest(server') /\ (c \notin strayed => Seen(c, readUpTo[c])')
    BY DEF Cursor
  <2>1. readUpTo[c] \in Nat /\ readUpTo[c] <= Newest(server)
        /\ (c \notin strayed => Seen(c, readUpTo[c]))
    BY BeforeAssumption DEF ViewInv, ViewTypeOK, Cursor
  <2>2. PICK k : k = readUpTo[c]
    OBVIOUS
  <2>3. c \notin strayed => Seen(c, k)'
    BY <1>9, <2>1, <2>2
  <2> QED BY <2>1, <2>2, <2>3 DEF Seen
<1> QED BY <1>1, <1>2, <1>6, <1>7, <1>8, <1>10, <1>11 DEF ViewInv, Milder

LEMMA OthersInv ==
  ASSUME ViewInv, NEW m \in MsgId, Others(m)
  PROVE  ViewInv'
<1>1. fetch' \in [Fetch -> FetchState] /\ \A f \in Fetch : Milder(f)
  BY DEF Others, Milder, ViewInv, ViewTypeOK
<1> QED BY <1>1, WriteInv DEF Others

\* A request that starts or ends without a mark.
LEMMA OneMilder ==
  ASSUME ViewInv, NEW f \in Fetch, NEW new \in FetchState,
         fetch' = [fetch EXCEPT ![f] = new],
         new = Idle \/ \E c \in Channel : new = Load(c)
  PROVE  fetch' \in [Fetch -> FetchState] /\ \A g \in Fetch : Milder(g)
<1>1. fetch \in [Fetch -> FetchState]
  BY DEF ViewInv, ViewTypeOK
<1>2. \A g \in Fetch : fetch'[g] = IF g = f THEN new ELSE fetch[g]
  BY <1>1
<1>3. new.list = Idle.list /\ new.kind # "send" /\ new.last = 0
      /\ (new.stage # "idle" => new.channel \in Channel)
  BY RequestTypes
<1> QED BY <1>1, <1>2, <1>3 DEF Milder, ViewInv

LEMMA PerformInv ==
  ASSUME ViewInv, NEW f \in Fetch, Perform(f)
  PROVE  ViewInv'
<1>1. PICK m \in MsgId : Post(m) \/ Edit(m) \/ Delete(m)
  BY DEF Perform
<1>2. fetch[f] \in FetchState /\ fetch[f].stage # "idle" /\ fetch[f].channel \in Channel
      /\ fetch \in [Fetch -> FetchState]
  BY DEF Perform, ViewInv, ViewTypeOK
<1>3. PICK new : /\ fetch' = [fetch EXCEPT ![f] = new]
                 /\ \/ new = Idle \/ new = Load(fetch[f].channel)
                    \/ new = [fetch[f] EXCEPT !.stage = "loading"]
  BY DEF Perform, Awaited
<1>4. CASE new = Idle \/ new = Load(fetch[f].channel)
  <2>1. new \in FetchState
    BY <1>2, <1>4, RequestTypes
  <2> QED BY <1>1, <1>2, <1>3, <1>4, <2>1, OneMilder, WriteInv DEF Perform
<1>5. CASE new = [fetch[f] EXCEPT !.stage = "loading"]
  <2>1. /\ new \in FetchState /\ new.list = fetch[f].list /\ new.channel = fetch[f].channel
        /\ new.kind = fetch[f].kind /\ new.last = fetch[f].last /\ new.of = fetch[f].of
    BY <1>2, <1>5 DEF FetchState
  <2>2. \A g \in Fetch : fetch'[g] = IF g = f THEN new ELSE fetch[g]
    BY <1>2, <1>3
  <2>3. fetch' \in [Fetch -> FetchState] /\ \A g \in Fetch : Milder(g)
    BY <1>2, <1>3, <2>1, <2>2 DEF Milder, ViewInv
  <2> QED BY <1>1, <2>3, WriteInv DEF Perform
<1> QED BY <1>3, <1>4, <1>5

----------------------------------------------------------------------------
\* The page

\* What has been seen stays seen while the server stands still.
LEMMA SeenStays ==
  ASSUME server' = server, unseen' \subseteq unseen, NEW c, NEW k, Seen(c, k)
  PROVE  Seen(c, k)'
BY DEF Seen

\* Milder requests, when the server stands still.
LEMMA MilderInv ==
  ASSUME ViewInv, server' = server, unseen' \subseteq unseen,
         \A f \in Fetch : Milder(f)
  PROVE  /\ Marking'
         /\ \A f \in Fetch : Whole(fetch[f].list)'
         /\ \A f \in Fetch : fetch'[f].stage # "idle" => fetch'[f].channel \in Channel
<1>1. Newest(server) \in Nat /\ Newest(server') = Newest(server)
      /\ \A x \in MsgId : server[x].clock \in Nat
  BY NewestOfList, BeforeAssumption DEF ViewInv, ViewTypeOK, Entry
<1>2. ASSUME NEW f \in Fetch PROVE Whole(fetch[f].list)'
  <2>1. CASE fetch'[f].list = fetch[f].list
    BY <2>1 DEF ViewInv, Whole
  <2>2. CASE fetch'[f].list = Idle.list
    BY <1>1, <2>2, RequestTypes, NothingTyped DEF Whole
  <2> QED BY <2>1, <2>2 DEF Milder
<1>3. Marking'
  <2> SUFFICES ASSUME NEW f \in Fetch
               PROVE  /\ fetch'[f].last <= Newest(server')
                      /\ fetch'[f].stage # "idle" /\ fetch'[f].kind = "send"
                         /\ fetch'[f].of = fetch'[f].channel
                           => Seen(fetch[f].channel, fetch[f].last)'
    BY DEF Marking
  <2>1. fetch'[f].last \in {fetch[f].last, 0} /\ fetch[f].last <= Newest(server)
    BY DEF Milder, ViewInv, Marking
  <2>2. ASSUME fetch'[f].stage # "idle", fetch'[f].kind = "send", fetch'[f].of = fetch'[f].channel
        PROVE  Seen(fetch[f].channel, fetch[f].last)'
    <3>1. /\ fetch[f].stage # "idle" /\ fetch[f].kind = "send" /\ fetch[f].of = fetch[f].channel
          /\ fetch'[f].channel = fetch[f].channel /\ fetch'[f].last = fetch[f].last
      BY <2>2 DEF Milder
    <3> QED BY <3>1 DEF ViewInv, Marking, Seen
  <2> QED BY <1>1, <2>1, <2>2
<1> QED BY <1>2, <1>3 DEF Milder

LEMMA SelectInv ==
  ASSUME ViewInv, NEW c \in Channel, NEW f \in Fetch, Select(c, f)
  PROVE  ViewInv'
<1>1. fetch' \in [Fetch -> FetchState] /\ \A g \in Fetch : Milder(g)
  BY OneMilder, RequestTypes DEF Select
<1>2. \A m \in MsgId : Home[m] # NoChannel
  BY HomeAssumption
<1>3. Of(store, NoChannel) = [m \in MsgId |-> Nothing]
  BY <1>2 DEF Of
<1>4. ViewTypeOK'
  BY <1>1, <1>3, NothingTyped DEF Select, ViewInv, ViewTypeOK
<1>5. OneLife'
  BY <1>1, <1>4, MilderHeld, HeldKept DEF Select, ViewInv
<1>6. Shown'
  BY HomeAssumption DEF Select, ViewInv, Shown, Of
<1>7. Whole(store)' /\ Cursor'
  BY DEF Select, ViewInv, Whole, Cursor, Seen
<1> QED BY <1>1, <1>4, <1>5, <1>6, <1>7, MilderInv DEF Select, ViewInv

LEMMA PollInv ==
  ASSUME ViewInv, NEW f \in Fetch, Poll(f)
  PROVE  ViewInv'
<1>1. fetch' \in [Fetch -> FetchState] /\ \A g \in Fetch : Milder(g)
  <2>1. selected \in Channel /\ fetch' = [fetch EXCEPT ![f] = Load(selected)]
    BY DEF Poll, ViewInv, ViewTypeOK
  <2> QED BY <2>1, OneMilder, RequestTypes
<1>2. ViewTypeOK'
  BY <1>1 DEF Poll, ViewInv, ViewTypeOK
<1>3. OneLife'
  BY <1>1, <1>2, MilderHeld, HeldKept DEF Poll, ViewInv
<1>4. Shown'
  BY DEF Poll, ViewInv, Shown, Of
<1>5. Whole(store)' /\ Cursor'
  BY DEF Poll, ViewInv, Whole, Cursor, Seen
<1> QED BY <1>1, <1>2, <1>3, <1>4, <1>5, MilderInv DEF Poll, ViewInv

\* What the selected channel shows is all that was written up to its newest message.
LEMMA NewestIsSeen ==
  ASSUME ViewInv, selected # NoChannel, messages.of = selected
  PROVE  Seen(selected, Newest(messages.list))
<1>1. messages.list \in [MsgId -> Entry]
  BY DEF ViewInv, ViewTypeOK
<1>2. PICK n \in MsgId : messages.list[n].clock = Newest(messages.list)
  BY <1>1, NewestOfList
<1> SUFFICES ASSUME NEW m \in MsgId, Home[m] = selected,
                    server[m].clock <= Newest(messages.list), m \in unseen
             PROVE  FALSE
  BY DEF Seen
<1>3. server[m].clock \in Nat /\ server[m].clock # 0
      /\ messages.list[m].clock \in Nat /\ messages.list[m].clock < server[m].clock
  BY <1>1, BeforeAssumption DEF ViewInv, ViewTypeOK, Entry, Shown
<1>4. Home[n] = selected /\ messages.list[n] = store[n]
  BY <1>2, <1>3, NothingTyped DEF ViewInv, Shown, Of
<1>5. messages.list[m] = store[m]
  BY DEF ViewInv, Shown, Of
<1>6. server[m].clock <= store[m].clock
  BY <1>2, <1>4 DEF ViewInv, Whole
<1> QED BY <1>3, <1>5, <1>6

LEMMA SubmitInv ==
  ASSUME ViewInv, NEW f \in Fetch, NEW kind \in {"send", "change"}, Submit(f, kind)
  PROVE  ViewInv'
<1>1. /\ UNCHANGED <<server, store, selected, messages, readUpTo, unseen, strayed>>
      /\ selected \in Channel /\ selected # NoChannel /\ fetch \in [Fetch -> FetchState]
  BY DEF Submit, ViewInv, ViewTypeOK
<1>2. PICK new :
        /\ fetch' = [fetch EXCEPT ![f] = new]
        /\ new = IF kind = "send"
                   THEN [Idle EXCEPT !.stage = "submitted", !.kind = kind, !.channel = selected,
                                     !.last = Newest(messages.list), !.of = messages.of]
                   ELSE [Idle EXCEPT !.stage = "submitted", !.kind = kind, !.channel = selected]
  BY DEF Submit
<1>3. Newest(messages.list) \in 0 .. MaxClock /\ messages.of \in Channel \cup {NoChannel}
  BY NewestOfList DEF ViewInv, ViewTypeOK
<1>4. /\ new \in FetchState /\ new.list = Idle.list /\ new.channel = selected
      /\ kind = "send" => new.last = Newest(messages.list) /\ new.of = messages.of
      /\ kind # "send" => new.kind # "send" /\ new.last = 0
  <2>1. PICK idle \in FetchState : idle = Idle /\ idle.last = 0
    BY RequestTypes
  <2>2. CASE kind = "send"
    <3>1. new = [idle EXCEPT !.stage = "submitted", !.kind = kind, !.channel = selected,
                             !.last = Newest(messages.list), !.of = messages.of]
      BY <1>2, <2>1, <2>2
    <3> QED BY <1>1, <1>3, <2>1, <2>2, <3>1 DEF FetchState
  <2>3. CASE kind = "change"
    <3>1. new = [idle EXCEPT !.stage = "submitted", !.kind = kind, !.channel = selected]
      BY <1>2, <2>1, <2>3
    <3> QED BY <1>1, <2>1, <2>3, <3>1 DEF FetchState
  <2> QED BY <2>2, <2>3
<1>5. \A g \in Fetch : fetch'[g] = IF g = f THEN new ELSE fetch[g]
  BY <1>1, <1>2
<1>6. fetch' \in [Fetch -> FetchState]
  BY <1>1, <1>2, <1>4
<1>7. ViewTypeOK'
  BY <1>1, <1>6 DEF ViewInv, ViewTypeOK
<1>8. OneLife'
  <2>1. \A m \in MsgId : Held(m)' \subseteq Held(m) \cup {Nothing, server[m]}
    BY <1>1, <1>4, <1>5, RequestTypes DEF Held
  <2> QED BY <1>1, <1>7, <2>1, HeldKept DEF ViewInv
<1>9. ASSUME NEW g \in Fetch PROVE Whole(fetch[g].list)'
  <2>1. \A m \in MsgId : server[m].clock \in Nat
    BY BeforeAssumption DEF ViewInv, ViewTypeOK, Entry
  <2> QED BY <1>1, <1>4, <1>5, <2>1, RequestTypes, NothingTyped DEF ViewInv, Whole
<1>10. Marking'
  <2>1. Newest(messages.list) <= Newest(server) /\ 0 <= Newest(server)
    <3>1. messages.list \in [MsgId -> Entry] /\ server \in [MsgId -> Entry]
      BY DEF ViewInv, ViewTypeOK
    <3>2. PICK m \in MsgId : messages.list[m].clock = Newest(messages.list)
      BY <3>1, NewestOfList
    <3>3. messages.list[m] \in {store[m], Nothing} /\ store[m] \in Entry /\ server[m] \in Entry
          /\ Leads(store[m], server[m])
      BY DEF ViewInv, ViewTypeOK, Shown, Of, OneLife, Held
    <3>4. messages.list[m].clock <= server[m].clock
      BY <3>3, NothingTyped, BeforeAssumption DEF Leads, Entry
    <3>5. server[m].clock <= Newest(server) /\ Newest(server) \in Nat /\ server[m].clock \in Nat
      BY <3>1, NewestOfList, BeforeAssumption DEF Entry
    <3> QED BY <1>3, <3>2, <3>4, <3>5
  <2>2. new.last <= Newest(server)
    BY <1>4, <2>1
  <2>3. ASSUME new.kind = "send", new.of = new.channel PROVE Seen(new.channel, new.last)
    <3>1. messages.of = selected /\ new.last = Newest(messages.list)
      BY <1>4, <2>3
    <3> QED BY <1>1, <1>4, <3>1, NewestIsSeen
  <2> SUFFICES ASSUME NEW g \in Fetch
               PROVE  /\ fetch'[g].last <= Newest(server)
                      /\ fetch'[g].stage # "idle" /\ fetch'[g].kind = "send"
                         /\ fetch'[g].of = fetch'[g].channel
                           => Seen(fetch[g].channel, fetch[g].last)'
    BY <1>1 DEF Marking
  <2> QED BY <1>1, <1>5, <2>2, <2>3 DEF ViewInv, Marking, Seen
<1>11. Whole(store)' /\ Shown' /\ Cursor'
  BY <1>1 DEF ViewInv, Whole, Shown, Of, Cursor, Seen
<1> QED BY <1>1, <1>4, <1>5, <1>7, <1>8, <1>9, <1>10, <1>11 DEF ViewInv

LEMMA ListInv ==
  ASSUME ViewInv, NEW f \in Fetch, List(f)
  PROVE  ViewInv'
<1>1. /\ UNCHANGED <<server, store, selected, messages, readUpTo, unseen, strayed>>
      /\ fetch[f].stage = "loading" /\ fetch \in [Fetch -> FetchState]
      /\ \A m \in MsgId : server[m] \in Entry /\ server[m].clock \in Nat
  BY BeforeAssumption DEF List, ViewInv, ViewTypeOK, Entry
<1>2. PICK list : list = Of(server, fetch[f].channel)
  OBVIOUS
<1>3. list \in [MsgId -> Entry]
      /\ \A m \in MsgId : list[m] = IF Home[m] = fetch[f].channel THEN server[m] ELSE Nothing
  BY <1>1, <1>2, NothingTyped DEF Of
<1>4. PICK new : new = [fetch[f] EXCEPT !.stage = "listed", !.list = list]
  OBVIOUS
<1>5. /\ new \in FetchState /\ new.list = list /\ new.channel = fetch[f].channel
      /\ new.kind = fetch[f].kind /\ new.last = fetch[f].last /\ new.of = fetch[f].of
  BY <1>1, <1>3, <1>4 DEF FetchState
<1>6. fetch' = [fetch EXCEPT ![f] = new]
  BY <1>1, <1>2, <1>4 DEF List
<1>7. fetch' \in [Fetch -> FetchState]
      /\ \A g \in Fetch : fetch'[g] = IF g = f THEN new ELSE fetch[g]
  BY <1>1, <1>5, <1>6
<1>8. ViewTypeOK'
  BY <1>1, <1>7 DEF ViewInv, ViewTypeOK
<1>9. OneLife'
  <2>1. \A m \in MsgId : Held(m)' \subseteq Held(m) \cup {Nothing, server[m]}
    BY <1>1, <1>3, <1>5, <1>7 DEF Held
  <2> QED BY <1>1, <1>8, <2>1, HeldKept DEF ViewInv
<1>10. ASSUME NEW g \in Fetch PROVE Whole(fetch[g].list)'
  <2>1. CASE g # f
    BY <1>1, <1>7, <2>1 DEF ViewInv, Whole
  <2>2. Whole(list)
    BY <1>1, <1>3, NothingTyped DEF Whole
  <2>3. CASE g = f
    BY <1>1, <1>5, <1>7, <2>2, <2>3 DEF Whole
  <2> QED BY <2>1, <2>3
<1>11. Marking'
  BY <1>1, <1>5, <1>7 DEF ViewInv, Marking, Seen
<1>12. Whole(store)' /\ Shown' /\ Cursor'
  BY <1>1 DEF ViewInv, Whole, Shown, Of, Cursor, Seen
<1> QED BY <1>1, <1>5, <1>7, <1>8, <1>9, <1>10, <1>11, <1>12 DEF ViewInv

LEMMA MaxOfTwo ==
  ASSUME NEW a \in Nat, NEW b \in Nat
  PROVE  Max({a, b}) \in {a, b}
<1>1. \E x \in {a, b} : \A y \in {a, b} : x >= y
  BY a >= b \/ b >= a
<1> QED BY <1>1 DEF Max

\* A mark moves the cursor over what was seen, or strays.
LEMMA MarkReadLatestCursor ==
  ASSUME ViewInv, NEW f \in Fetch, fetch[f].stage # "idle", MarkReadLatest(f),
         server' = server, unseen' \subseteq unseen
  PROVE  readUpTo' \in [Channel -> 0 .. MaxClock] /\ strayed' \subseteq Channel /\ Cursor'
<1>1. PICK c \in Channel : c = fetch[f].channel
  BY DEF ViewInv
<1>2. /\ readUpTo \in [Channel -> 0 .. MaxClock] /\ strayed \subseteq Channel
      /\ fetch[f].last \in 0 .. MaxClock /\ MaxClock \in Nat
  BY BeforeAssumption DEF ViewInv, ViewTypeOK, FetchState
<1>3. CASE UNCHANGED <<readUpTo, strayed>>
  BY <1>2, <1>3 DEF ViewInv, Cursor, Seen
<1>4. CASE fetch[f].kind = "send"
           /\ readUpTo' \in {readUpTo, [readUpTo EXCEPT ![c] = Max({@, fetch[f].last})]}
           /\ strayed' = IF fetch[f].of # c THEN strayed \cup {c} ELSE strayed
  <2>1. Max({readUpTo[c], fetch[f].last}) \in {readUpTo[c], fetch[f].last}
    BY <1>2, MaxOfTwo
  <2>2. PICK k \in {readUpTo[c], fetch[f].last} : readUpTo' = [readUpTo EXCEPT ![c] = k]
    BY <1>2, <1>4, <2>1
  <2>3. readUpTo' \in [Channel -> 0 .. MaxClock] /\ strayed' \subseteq Channel
    BY <1>2, <1>4, <2>2
  <2>4. k <= Newest(server)
    BY <2>2 DEF ViewInv, Marking, Cursor
  <2>5. c \notin strayed' => Seen(c, k)
    <3>1. c \notin strayed' => fetch[f].of = c /\ c \notin strayed
      BY <1>4
    <3> QED BY <1>1, <1>4, <2>2, <3>1 DEF ViewInv, Marking, Cursor
  <2>6. Cursor'
    <3> SUFFICES ASSUME NEW d \in Channel
                 PROVE  readUpTo'[d] <= Newest(server)
                        /\ (d \notin strayed' => Seen(d, readUpTo[d])')
      BY DEF Cursor
    <3>1. CASE d = c
      BY <1>2, <2>2, <2>4, <2>5, <3>1 DEF Seen
    <3>2. CASE d # c
      <4>1. readUpTo'[d] = readUpTo[d] /\ (d \notin strayed' => d \notin strayed)
        BY <1>2, <1>4, <2>2, <3>2
      <4> QED BY <4>1 DEF ViewInv, Cursor, Seen
    <3> QED BY <3>1, <3>2
  <2> QED BY <2>3, <2>6
<1> QED BY <1>1, <1>3, <1>4 DEF MarkReadLatest

LEMMA LoseInv ==
  ASSUME ViewInv, NEW f \in Fetch, Lose(f)
  PROVE  ViewInv'
<1>1. /\ UNCHANGED <<server, store, selected, messages, unseen>>
      /\ fetch[f].stage # "idle" /\ fetch' = [fetch EXCEPT ![f] = Idle]
  BY DEF Lose
<1>2. fetch' \in [Fetch -> FetchState] /\ \A g \in Fetch : Milder(g)
  BY <1>1, OneMilder, RequestTypes
<1>3. readUpTo' \in [Channel -> 0 .. MaxClock] /\ strayed' \subseteq Channel /\ Cursor'
  <2>1. CASE UNCHANGED <<readUpTo, strayed>>
    BY <1>1, <2>1 DEF ViewInv, ViewTypeOK, Cursor, Seen
  <2>2. CASE MarkReadLatest(f)
    BY <1>1, <2>2, MarkReadLatestCursor
  <2> QED BY <2>1, <2>2 DEF Lose
<1>4. ViewTypeOK'
  BY <1>1, <1>2, <1>3 DEF ViewInv, ViewTypeOK
<1>5. OneLife'
  BY <1>1, <1>2, <1>4, MilderHeld, HeldKept DEF ViewInv
<1>6. Whole(store)' /\ Shown'
  BY <1>1 DEF ViewInv, Whole, Shown, Of
<1> QED BY <1>1, <1>2, <1>3, <1>4, <1>5, <1>6, MilderInv DEF ViewInv

\* What the store becomes is, of each message, the later of what is known and what is listed.
LEMMA MergeOpsEffect ==
  ASSUME ViewInv, NEW f \in Fetch, store' = MergeOps(fetch[f].list), NEW m \in MsgId
  PROVE  /\ store[m] \in Entry /\ fetch[f].list[m] \in Entry
         /\ store'[m] \in {store[m], fetch[f].list[m]}
         /\ Leads(store[m], store'[m]) /\ Leads(fetch[f].list[m], store'[m])
         /\ store[m].clock <= store'[m].clock /\ fetch[f].list[m].clock <= store'[m].clock
<1>1. PICK a, b : a = store[m] /\ b = fetch[f].list[m]
  OBVIOUS
<1>2. a \in Entry /\ b \in Entry /\ Related(a, b)
  BY <1>1, HeldTyped DEF ViewInv, OneLife, Held
<1>3. store'[m] = IF Leads(a, b) THEN b ELSE a
  BY <1>1, <1>2, MergeIsLater DEF MergeOps
<1>4. Leads(a, a) /\ Leads(b, b)
  BY DEF Leads
<1>5. \A x \in Entry, y \in Entry : Leads(x, y) => x.clock <= y.clock
  BY BeforeAssumption DEF Leads, Entry
<1> QED BY <1>1, <1>2, <1>3, <1>4, <1>5 DEF Related

LEMMA ArriveInv ==
  ASSUME ViewInv, NEW f \in Fetch, Arrive(f)
  PROVE  ViewInv'
<1>1. PICK c \in Channel : c = fetch[f].channel
  BY DEF Arrive, ViewInv
<1>2. /\ fetch[f].stage # "idle" /\ store' = MergeOps(fetch[f].list)
      /\ messages' = [of |-> c, list |-> Of(store', c)] /\ unseen' = Unseen(c)
      /\ fetch' = [fetch EXCEPT ![f] = Idle] /\ UNCHANGED <<server, selected>>
  BY <1>1 DEF Arrive
<1>3. unseen' \subseteq unseen /\ unseen \subseteq MsgId
  BY <1>2 DEF Unseen, ViewInv, ViewTypeOK
<1>4. fetch' \in [Fetch -> FetchState] /\ \A g \in Fetch : Milder(g)
  BY <1>2, OneMilder, RequestTypes
<1>5. readUpTo' \in [Channel -> 0 .. MaxClock] /\ strayed' \subseteq Channel /\ Cursor'
  BY <1>2, <1>3, MarkReadLatestCursor DEF Arrive
<1>6. store' \in [MsgId -> Entry]
  <2>1. \A m \in MsgId : store'[m] \in Entry
    BY <1>2, MergeOpsEffect
  <2> QED BY <1>2, <2>1 DEF MergeOps
<1>7. Of(store', c) \in [MsgId -> Entry]
  BY <1>6, NothingTyped DEF Of
<1>8. ViewTypeOK'
  BY <1>2, <1>3, <1>4, <1>5, <1>6, <1>7 DEF ViewInv, ViewTypeOK
<1>9. OneLife'
  <2>1. ASSUME NEW m \in MsgId PROVE Held(m)' \subseteq Held(m) \cup {Nothing, server[m]}
    <3>1. store'[m] \in Held(m)
      BY <1>2, MergeOpsEffect DEF Held
    <3>2. \A g \in Fetch : fetch'[g].list[m] \in Held(m) \cup {Nothing}
      BY <1>4, RequestTypes DEF Milder, Held
    <3> QED BY <1>2, <3>1, <3>2 DEF Held
  <2> QED BY <1>2, <1>8, <2>1, HeldKept DEF ViewInv
<1>10. Whole(store)'
  <2> SUFFICES ASSUME NEW m \in MsgId, NEW n \in MsgId, Home[m] = Home[n],
                      server[m].clock <= store'[n].clock
               PROVE  server[m].clock <= store'[m].clock
    BY <1>2 DEF Whole
  <2>1. store'[n] \in {store[n], fetch[f].list[n]}
    BY <1>2, MergeOpsEffect
  <2>2. server[m].clock <= store[m].clock \/ server[m].clock <= fetch[f].list[m].clock
    BY <2>1 DEF ViewInv, Whole
  <2>3. store[m].clock <= store'[m].clock /\ fetch[f].list[m].clock <= store'[m].clock
    BY <1>2, MergeOpsEffect
  <2>4. /\ server[m].clock \in Nat /\ store[m].clock \in Nat /\ fetch[f].list[m].clock \in Nat
        /\ store'[m].clock \in Nat
    BY <1>2, <1>6, MergeOpsEffect, BeforeAssumption DEF ViewInv, ViewTypeOK, Entry
  <2> QED BY <2>2, <2>3, <2>4
<1>11. Shown'
  <2>1. messages'.list = Of(store', messages'.of) /\ messages'.of = c
    BY <1>2
  <2>2. c = selected =>
          \A m \in unseen' : Home[m] = selected => messages'.list[m].clock < server[m].clock
    BY <1>2 DEF Unseen
  <2> QED BY <1>2, <1>3, <2>1, <2>2 DEF ViewInv, Shown
<1> QED BY <1>2, <1>3, <1>4, <1>5, <1>8, <1>9, <1>10, <1>11, MilderInv DEF ViewInv

----------------------------------------------------------------------------
\* The view's invariant holds in every reachable state.
THEOREM ViewInvariant == ViewSpec => []ViewInv
<1>1. ViewInv /\ [ViewNext]_viewVars => ViewInv'
  <2> SUFFICES ASSUME ViewInv, [ViewNext]_viewVars PROVE ViewInv'
    OBVIOUS
  <2>1. CASE UNCHANGED viewVars
    BY <2>1 DEF viewVars, ViewInv, ViewTypeOK, OneLife, Held, Whole, Shown, Marking, Cursor, Seen
  <2>2. CASE ViewNext
    BY <2>2, OthersInv, SelectInv, PollInv, SubmitInv, PerformInv, ListInv, ArriveInv, LoseInv
       DEF ViewNext
  <2> QED BY <2>1, <2>2
<1> QED BY <1>1, ViewInitInv, PTL DEF ViewSpec

\* The view keeps to its types (ChannelView.jsx, lib/crdt/messages.js).
THEOREM ViewTyped == ViewSpec => []ViewTypeOK
<1>1. ViewInv => ViewTypeOK
  BY DEF ViewInv
<1> QED BY <1>1, ViewInvariant, PTL

\* What the server is told was read has been shown as it is, under any overlap of
\* polls, sends, changes of channel and lost answers (send, loadMessages).
THEOREM ReadMeansShown == ViewSpec => []MarkedWasShown
<1>1. ViewInv => MarkedWasShown
  BY HomeAssumption DEF ViewInv, Cursor, Seen, MarkedWasShown
<1> QED BY <1>1, ViewInvariant, PTL

\* An answer that was overtaken takes no message of the open channel back
\* (MessageStore.mergeOps, loadMessages).
THEOREM OvertakenTakesNothingBack == ViewSpec => ListKeepsUp
<1>1. ASSUME ViewInv, ViewInv', [ViewNext]_viewVars, messages'.of = messages.of, NEW m \in MsgId
      PROVE  /\ messages.list[m].clock <= messages'.list[m].clock
             /\ messages.list[m].state = "deleted" => messages'.list[m].state = "deleted"
  <2>1. Leads(store[m], store'[m])
    <3>1. store' = store \/ \E f \in Fetch : store' = MergeOps(fetch[f].list)
      BY <1>1 DEF ViewNext, Others, Select, Poll, Submit, Perform, List, Arrive, Lose, viewVars
    <3> QED BY <1>1, <3>1, MergeOpsEffect DEF Leads
  <2>2. /\ messages.list[m] = IF Home[m] = messages.of THEN store[m] ELSE Nothing
        /\ messages'.list[m] = IF Home[m] = messages.of THEN store'[m] ELSE Nothing
    BY <1>1 DEF ViewInv, Shown, Of
  <2>3. store[m].clock \in Nat /\ store'[m].clock \in Nat
    BY <1>1, BeforeAssumption DEF ViewInv, ViewTypeOK, Entry
  <2> QED BY <2>1, <2>2, <2>3, NothingTyped DEF Leads
<1>2. ViewInv /\ ViewInv' /\ [ViewNext]_viewVars =>
        [messages'.of = messages.of =>
           \A m \in MsgId :
             /\ messages.list[m].clock <= messages'.list[m].clock
             /\ messages.list[m].state = "deleted" => messages'.list[m].state = "deleted"]_viewVars
  BY <1>1
<1> QED BY <1>2, ViewInvariant, PTL DEF ViewSpec, ListKeepsUp

----------------------------------------------------------------------------
\* Both, as the run composes them: the cursor on the server and the view in the browser
\* keep to their types, whichever of the two moves (SaveReadState, ChannelView).
THEOREM HalvesTyped == MCSpec => []AllTyped
<1>1. MCSpec => Spec /\ ViewSpec
  <2>1. MCInit => Init /\ ViewInit
    BY DEF MCInit
  <2>2. [MCNext]_mcVars => [Next]_vars /\ [ViewNext]_viewVars
    BY DEF MCNext, mcVars
  <2> QED BY <2>1, <2>2, PTL DEF MCSpec, Spec, ViewSpec
<1>2. Inv => TypeOK
  BY DEF Inv
<1>3. TypeOK /\ ViewTypeOK => AllTyped
  BY DEF AllTyped
<1> QED BY <1>1, <1>2, <1>3, InvariantInv, ViewTyped, PTL

============================================================================
