------------------------- MODULE MessageCRDTProofs -------------------------
(***************************************************************************)
(* Facts about the hybrid logical clock and the merge rule that the        *)
(* stores' proofs cite: the order of clocks, what Tick and Receive         *)
(* (store.go) guarantee about the clocks issued or received before, and    *)
(* what merging one operation into one entry (applyToIndex) preserves, for *)
(* every clock, entry and operation.                                       *)
(***************************************************************************)
EXTENDS MessageCRDT, TLAPS

\* The fields of a SeqClock are numbers, compared as such.
LEMMA ClockFields ==
  ASSUME NEW a \in SeqClock
  PROVE  a.wall \in Nat /\ a.counter \in Nat /\ a.node \in Nat
<1>1. a.wall \in Nat /\ a.counter \in Counter /\ a.node \in Node
  BY DEF SeqClock
<1>2. a.counter \in Nat
  BY <1>1, CounterAssumption DEF Counter
<1> QED BY <1>1, <1>2, NodeAssumption

\* The order of SeqClock strings is a strict total order.
LEMMA BeforeIrreflexive ==
  ASSUME NEW a \in SeqClock
  PROVE  ~ Before(a, a)
BY ClockFields DEF Before

LEMMA BeforeTransitive ==
  ASSUME NEW a \in SeqClock, NEW b \in SeqClock, NEW c \in SeqClock,
         Before(a, b), Before(b, c)
  PROVE  Before(a, c)
<1>1. /\ a.wall \in Nat /\ a.counter \in Nat /\ a.node \in Nat
      /\ b.wall \in Nat /\ b.counter \in Nat /\ b.node \in Nat
      /\ c.wall \in Nat /\ c.counter \in Nat /\ c.node \in Nat
  BY ClockFields
<1> QED BY <1>1 DEF Before

LEMMA BeforeTotal ==
  ASSUME NEW a \in SeqClock, NEW b \in SeqClock
  PROVE  a = b \/ Before(a, b) \/ Before(b, a)
<1>1. /\ a.wall \in Nat /\ a.counter \in Nat /\ a.node \in Nat
      /\ b.wall \in Nat /\ b.counter \in Nat /\ b.node \in Nat
  BY ClockFields
<1>2. a.wall = b.wall /\ a.counter = b.counter /\ a.node = b.node => a = b
  BY DEF SeqClock
<1> QED BY <1>1, <1>2 DEF Before

LEMMA LaterIsUpper ==
  ASSUME NEW a \in SeqClock, NEW b \in SeqClock
  PROVE  /\ Later(a, b) \in SeqClock
         /\ AtMost(a, Later(a, b))
BY DEF Later, AtMost

----------------------------------------------------------------------------
\* Every operation of the clock leaves a clock, and a stamp of it is a SeqClock.
LEMMA NewHLCType == NewHLC \in HLC
BY CounterAssumption DEF NewHLC, HLC, Counter

LEMMA BumpType ==
  ASSUME NEW c \in Counter
  PROVE  Bump(c) \in Counter
BY CounterAssumption DEF Bump, Counter

LEMMA TickType ==
  ASSUME NEW h \in HLC, NEW now \in Nat
  PROVE  Tick(h, now) \in HLC
BY BumpType, CounterAssumption DEF Tick, HLC, Counter

LEMMA StampType ==
  ASSUME NEW h \in HLC, NEW n \in Node
  PROVE  Stamp(h, n) \in SeqClock
BY DEF Stamp, HLC, SeqClock

LEMMA ReceiveType ==
  ASSUME NEW h \in HLC, NEW r \in SeqClock, NEW now \in Nat
  PROVE  Receive(h, r, now) \in HLC
BY BumpType, TickType DEF Receive, HLC, SeqClock

----------------------------------------------------------------------------
\* The local clock is at or past c, whatever node issued c.
Reached(h, c) ==
  \/ c.wall < h.wall
  \/ c.wall = h.wall /\ c.counter <= h.counter

\* Past(h, now, c): a clock with state h, at physical time now, will only issue
\* values after c, because it has reached c or because c is of an earlier
\* millisecond.
Past(h, now, c) == Reached(h, c) \/ c.wall < now

\* The counter will not wrap in the clock's next step.
HasRoom(h, now) == now > h.wall \/ h.counter + 1 < CounterModulus

\* Tick issues a value after every clock that is past (store.go, Tick: clocks
\* are issued in increasing order).
LEMMA TickIssuesLater ==
  ASSUME NEW h \in HLC, NEW now \in Nat, NEW n \in Node, NEW c \in SeqClock,
         HasRoom(h, now), Past(h, now, c)
  PROVE  Before(c, Stamp(Tick(h, now), n))
BY CounterAssumption
   DEF HasRoom, Past, Reached, Tick, Bump, Stamp, Before, HLC, SeqClock, Counter

\* What is past stays past when the clock ticks, and the issued value is past.
LEMMA TickKeepsPast ==
  ASSUME NEW h \in HLC, NEW now \in Nat, NEW c \in SeqClock,
         HasRoom(h, now), Past(h, now, c)
  PROVE  Past(Tick(h, now), now, c)
BY CounterAssumption
   DEF HasRoom, Past, Reached, Tick, Bump, HLC, SeqClock, Counter

LEMMA StampIsPast ==
  ASSUME NEW h \in HLC, NEW now \in Nat, NEW n \in Node
  PROVE  Past(h, now, Stamp(h, n))
BY DEF Past, Reached, Stamp, HLC, Counter

\* What is past stays past when a clock is received, too.
LEMMA ReceiveKeepsPast ==
  ASSUME NEW h \in HLC, NEW now \in Nat, NEW r \in SeqClock, NEW c \in SeqClock,
         HasRoom(h, now), r.counter + 1 < CounterModulus, Past(h, now, c)
  PROVE  Past(Receive(h, r, now), now, c)
<1>1. CASE r.wall > h.wall /\ r.wall > now
  BY <1>1, CounterAssumption
     DEF Past, Reached, Receive, Bump, HLC, SeqClock, Counter
<1>2. CASE ~ (r.wall > h.wall /\ r.wall > now) /\ r.wall = h.wall
  BY <1>2, CounterAssumption
     DEF Past, Reached, Receive, Bump, HLC, SeqClock, Counter
<1>3. CASE ~ (r.wall > h.wall /\ r.wall > now) /\ r.wall # h.wall
  BY <1>3, TickKeepsPast DEF Receive
<1> QED BY <1>1, <1>2, <1>3

\* A clock that adopts no future clock is never ahead of physical time.
LEMMA TickStaysBehind ==
  ASSUME NEW h \in HLC, NEW now \in Nat, h.wall <= now
  PROVE  Tick(h, now).wall <= now
BY DEF Tick, HLC

LEMMA ReceiveStaysBehind ==
  ASSUME NEW h \in HLC, NEW now \in Nat, NEW r \in SeqClock,
         h.wall <= now, r.wall <= now
  PROVE  Receive(h, r, now).wall <= now
BY TickStaysBehind DEF Receive, HLC, SeqClock

----------------------------------------------------------------------------

\* A deleted entry has no text left.
Tidy(entry) == IsDeleted(entry) => entry.body = Cleared

\* The three local mutations build operations, and well-formed ones.
LEMMA AppendOpType ==
  ASSUME NEW m \in MsgId, NEW u \in User, NEW b \in Body, NEW c \in SeqClock
  PROVE  AppendOp(m, u, b, c) \in Op /\ WellFormed(AppendOp(m, u, b, c))
BY DEF AppendOp, Op, Kind, Message, State, WellFormed

LEMMA EditOpType ==
  ASSUME NEW m \in MsgId, NEW e \in Message, NEW b \in Body, NEW c \in SeqClock
  PROVE  EditOp(m, e, b, c) \in Op /\ WellFormed(EditOp(m, e, b, c))
BY DEF EditOp, Op, Kind, Message, State, WellFormed

LEMMA TombstoneOpType ==
  ASSUME NEW m \in MsgId, NEW e \in Message, NEW c \in SeqClock
  PROVE  TombstoneOp(m, e, c) \in Op /\ WellFormed(TombstoneOp(m, e, c))
BY DEF TombstoneOp, Op, Kind, Message, State, WellFormed

LEMMA OpFields ==
  ASSUME NEW op \in Op
  PROVE  /\ op.id \in MsgId
         /\ op.msg \in Message
         /\ op.msg.clock \in SeqClock
         /\ op.msg # Absent
BY AbsentAssumption DEF Op, Message

----------------------------------------------------------------------------
\* A tombstone changes an existing entry's state, text and clock only.
LEMMA MergeTombstoneOfMessage ==
  ASSUME NEW e \in Message, NEW msg \in Message
  PROVE  /\ MergeTombstone(e, msg) \in Message
         /\ MergeTombstone(e, msg).state = "deleted"
         /\ MergeTombstone(e, msg).body = Cleared
         /\ MergeTombstone(e, msg).author = e.author
         /\ MergeTombstone(e, msg).clock = Later(e.clock, msg.clock)
<1>1. e # Absent
  BY AbsentAssumption
<1>2. Later(e.clock, msg.clock) \in SeqClock
  BY LaterIsUpper DEF Message
<1> QED BY <1>1, <1>2 DEF MergeTombstone, Message, State

\* Merging leaves an entry of the index.
LEMMA MergeType ==
  ASSUME NEW e \in Entry, NEW op \in Op
  PROVE  Merge(e, op) \in Entry
<1>1. op.msg \in Message
  BY OpFields
<1>2. MergeAppend(e, op.msg) \in Entry /\ MergeEdit(e, op.msg) \in Entry
  BY <1>1 DEF MergeAppend, MergeEdit, Entry
<1>3. MergeTombstone(e, op.msg) \in Entry
  <2>1. CASE e = Absent
    BY <2>1, <1>1 DEF MergeTombstone, Entry
  <2>2. CASE e # Absent
    BY <2>2, <1>1, MergeTombstoneOfMessage DEF Entry
  <2> QED BY <2>1, <2>2
<1> QED BY <1>2, <1>3 DEF Merge

\* A known message stays known, and its clock never goes back.
LEMMA MergeAdvances ==
  ASSUME NEW e \in Message, NEW op \in Op
  PROVE  Merge(e, op) \in Message /\ AtMost(e.clock, Merge(e, op).clock)
<1>1. op.msg \in Message /\ e # Absent
  BY OpFields, AbsentAssumption
<1>2. AtMost(e.clock, e.clock)
  BY DEF AtMost
<1>3. CASE op.kind = "tombstone"
  <2>1. AtMost(e.clock, Later(e.clock, op.msg.clock))
    BY <1>1, LaterIsUpper DEF Message
  <2> QED BY <1>1, <1>3, <2>1, MergeTombstoneOfMessage DEF Merge
<1>4. CASE op.kind # "tombstone"
  BY <1>1, <1>2, <1>4 DEF Merge, MergeAppend, MergeEdit, AtMost
<1> QED BY <1>3, <1>4

\* Every clock in the index comes from the entry or from the operation.
LEMMA MergeClock ==
  ASSUME NEW e \in Entry, NEW op \in Op, Merge(e, op) # Absent
  PROVE  \/ e # Absent /\ Merge(e, op).clock = e.clock
         \/ Merge(e, op).clock = op.msg.clock
<1>1. op.msg \in Message
  BY OpFields
<1>2. CASE e = Absent
  BY <1>2 DEF Merge, MergeAppend, MergeEdit, MergeTombstone
<1>3. CASE e # Absent /\ op.kind = "tombstone"
  BY <1>1, <1>3, MergeTombstoneOfMessage DEF Merge, Entry, Later
<1>4. CASE e # Absent /\ op.kind # "tombstone"
  BY <1>4 DEF Merge, MergeAppend, MergeEdit
<1> QED BY <1>2, <1>3, <1>4

\* A tombstone is terminal for the merge rule.
LEMMA MergeKeepsDeleted ==
  ASSUME NEW e \in Entry, NEW op \in Op, IsDeleted(e)
  PROVE  IsDeleted(Merge(e, op))
<1>1. op.msg \in Message /\ e \in Message /\ Absent \notin Message
  BY OpFields, AbsentAssumption DEF IsDeleted, Entry
<1>2. CASE op.kind = "tombstone"
  BY <1>1, <1>2, MergeTombstoneOfMessage DEF Merge, IsDeleted
<1>3. CASE op.kind # "tombstone"
  BY <1>3 DEF Merge, MergeAppend, MergeEdit, IsDeleted
<1> QED BY <1>2, <1>3

\* Well-formed operations leave deleted entries without text.
LEMMA MergeTidy ==
  ASSUME NEW e \in Entry, NEW op \in Op, Tidy(e), WellFormed(op)
  PROVE  Tidy(Merge(e, op))
<1>1. op.msg \in Message
  BY OpFields
<1>2. CASE e = Absent
  BY <1>2 DEF Merge, MergeAppend, MergeEdit, MergeTombstone, Tidy, IsDeleted, WellFormed
<1>3. CASE e # Absent /\ op.kind = "tombstone"
  BY <1>1, <1>3, MergeTombstoneOfMessage DEF Merge, Entry, Tidy, IsDeleted
<1>4. CASE e # Absent /\ op.kind # "tombstone"
  BY <1>4 DEF Merge, MergeAppend, MergeEdit, Tidy, IsDeleted, WellFormed
<1> QED BY <1>2, <1>3, <1>4

\* An operation in the name of the entry's author keeps the author.
LEMMA MergeKeepsAuthor ==
  ASSUME NEW e \in Entry, NEW op \in Op, Merge(e, op) # Absent
  PROVE  \/ Merge(e, op).author = op.msg.author
         \/ e # Absent /\ Merge(e, op).author = e.author
<1>1. op.msg \in Message
  BY OpFields
<1>2. CASE e = Absent
  BY <1>2 DEF Merge, MergeAppend, MergeEdit, MergeTombstone
<1>3. CASE e # Absent /\ op.kind = "tombstone"
  BY <1>1, <1>3, MergeTombstoneOfMessage DEF Merge, Entry
<1>4. CASE e # Absent /\ op.kind # "tombstone"
  BY <1>4 DEF Merge, MergeAppend, MergeEdit
<1> QED BY <1>2, <1>3, <1>4

LEMMA MergeAuthor ==  ASSUME NEW e \in Entry, NEW op \in Op, NEW u, op.msg.author = u,
         e # Absent => e.author = u, Merge(e, op) # Absent
  PROVE  Merge(e, op).author = u
<1>1. op.msg \in Message
  BY OpFields
<1>2. CASE e = Absent
  BY <1>2 DEF Merge, MergeAppend, MergeEdit, MergeTombstone
<1>3. CASE e # Absent /\ op.kind = "tombstone"
  BY <1>1, <1>3, MergeTombstoneOfMessage DEF Merge, Entry
<1>4. CASE e # Absent /\ op.kind # "tombstone"
  BY <1>4 DEF Merge, MergeAppend, MergeEdit
<1> QED BY <1>2, <1>3, <1>4

\* Merging changes the entry of the operation's message and no other.
LEMMA ApplyToIndexOthers ==
  ASSUME NEW index \in [MsgId -> Entry], NEW op \in Op
  PROVE  /\ ApplyToIndex(index, op) \in [MsgId -> Entry]
         /\ ApplyToIndex(index, op)[op.id] = Merge(index[op.id], op)
         /\ \A m \in MsgId \ {op.id} : ApplyToIndex(index, op)[m] = index[m]
BY OpFields, MergeType DEF ApplyToIndex

----------------------------------------------------------------------------
\* The algebra of Merge.

\* What the three local mutations build: only a tombstone deletes.
Clean(op) ==
  /\ op.kind \in Kind
  /\ WellFormed(op)
  /\ op.kind # "tombstone" => op.msg.state # "deleted"

\* Merging op into e changes nothing.
Absorbs(e, op) == Merge(e, op) = e

\* A tombstone that is not newer leaves a deleted entry as it is.
LEMMA DeletedAbsorbs ==
  ASSUME NEW e \in Message, e.state = "deleted", e.body = Cleared,
         NEW op \in Op, op.kind = "tombstone", ~ Before(e.clock, op.msg.clock)
  PROVE  Merge(e, op) = e
<1>1. e # Absent /\ Later(e.clock, op.msg.clock) = e.clock
  BY AbsentAssumption DEF Later
<1>2. [e EXCEPT !.state = "deleted", !.body = Cleared, !.clock = e.clock] = e
  BY DEF Message
<1> QED BY <1>1, <1>2 DEF Merge, MergeTombstone

\* Merging an operation a second time at once changes nothing.
LEMMA MergeTwice ==
  ASSUME NEW e \in Entry, Tidy(e), NEW op \in Op, WellFormed(op)
  PROVE  Absorbs(Merge(e, op), op)
<1>1. op.msg \in Message /\ op.msg.clock \in SeqClock /\ op.msg # Absent
  BY OpFields
<1>2. ~ Before(op.msg.clock, op.msg.clock)
  BY <1>1, BeforeIrreflexive
<1>3. CASE op.kind = "tombstone"
  <2> DEFINE new == Merge(e, op)
  <2>1. new \in Message /\ new # Absent /\ new.state = "deleted"
    <3>1. CASE e = Absent
      BY <1>1, <1>3, <3>1 DEF Merge, MergeTombstone, WellFormed
    <3>2. CASE e # Absent
      BY <1>1, <1>3, <3>2, MergeTombstoneOfMessage, AbsentAssumption DEF Merge, Entry
    <3> QED BY <3>1, <3>2
  <2>2. new.body = Cleared
    BY <2>1, MergeTidy DEF Tidy, IsDeleted
  <2>3. ~ Before(new.clock, op.msg.clock)
    <3>1. CASE e = Absent
      BY <1>2, <1>3, <3>1 DEF Merge, MergeTombstone
    <3>2. CASE e # Absent
      <4>1. e \in Message /\ e.clock \in SeqClock
        BY <3>2 DEF Entry, Message
      <4>2. new.clock = Later(e.clock, op.msg.clock)
        BY <1>1, <1>3, <3>2, <4>1, MergeTombstoneOfMessage DEF Merge
      <4> QED BY <1>2, <4>2 DEF Later
    <3> QED BY <3>1, <3>2
  <2> HIDE DEF new
  <2>4. Merge(new, op) = new
    BY <1>3, <2>1, <2>2, <2>3, DeletedAbsorbs
  <2> QED BY <2>4 DEF Absorbs, new
<1>4. CASE op.kind # "tombstone"
  BY <1>1, <1>2, <1>4 DEF Absorbs, Merge, MergeAppend, MergeEdit
<1> QED BY <1>3, <1>4

\* An entry that absorbs an operation still does after any other operation.
LEMMA StillAbsorbs ==
  ASSUME NEW e \in Entry, Tidy(e), NEW op \in Op, Absorbs(e, op),
         NEW p \in Op, WellFormed(p)
  PROVE  Absorbs(Merge(e, p), op)
<1> DEFINE new == Merge(e, p)
<1>1. op.msg \in Message /\ op.msg.clock \in SeqClock /\ op.msg # Absent
  BY OpFields
<1>2. CASE e = Absent
  <2>1. op.kind \notin Kind
    BY <1>1, <1>2 DEF Absorbs, Merge, MergeAppend, MergeEdit, MergeTombstone, Kind
  <2> QED BY <2>1 DEF Absorbs, Merge, Kind
<1>3. CASE e # Absent
  <2>1. /\ e \in Message /\ new \in Message /\ new # Absent /\ AtMost(e.clock, new.clock)
        /\ e.clock \in SeqClock /\ new.clock \in SeqClock
    <3>1. e \in Message
      BY <1>3 DEF Entry
    <3> QED BY <3>1, MergeAdvances, AbsentAssumption DEF Message
  <2>2. IsDeleted(e) => IsDeleted(new)
    BY MergeKeepsDeleted
  <2>3. Tidy(new)
    BY MergeTidy
  <2> HIDE DEF new
  <2>4. ~ Before(e.clock, op.msg.clock) => ~ Before(new.clock, op.msg.clock)
    BY <1>1, <2>1, BeforeTransitive DEF AtMost
  <2>5. CASE op.kind = "tombstone"
    <3>1. /\ e = MergeTombstone(e, op.msg) /\ e.state = "deleted"
          /\ e.clock = Later(e.clock, op.msg.clock)
      BY <1>1, <2>1, <2>5, MergeTombstoneOfMessage DEF Absorbs, Merge
    <3>2. ~ Before(e.clock, op.msg.clock)
      BY <1>1, <3>1, BeforeIrreflexive DEF Later
    <3>3. new.state = "deleted" /\ new.body = Cleared
      BY <1>3, <2>1, <2>2, <2>3, <3>1 DEF IsDeleted, Tidy
    <3>4. Merge(new, op) = new
      BY <2>1, <2>4, <2>5, <3>2, <3>3, DeletedAbsorbs
    <3> QED BY <3>4 DEF Absorbs, new
  <2>6. CASE op.kind = "edit"
    <3>1. IsDeleted(e) \/ ~ Before(e.clock, op.msg.clock)
      <4>1. CASE ~ IsDeleted(e) /\ Before(e.clock, op.msg.clock)
        <5>1. e = op.msg
          BY <1>3, <2>6, <4>1 DEF Absorbs, Merge, MergeEdit, IsDeleted
        <5> QED BY <1>1, <4>1, <5>1, BeforeIrreflexive
      <4> QED BY <4>1
    <3>2. IsDeleted(new) \/ ~ Before(new.clock, op.msg.clock)
      BY <2>2, <2>4, <3>1
    <3> QED BY <2>1, <2>6, <3>2 DEF Absorbs, Merge, MergeEdit, IsDeleted, new
  <2>7. CASE op.kind \notin {"tombstone", "edit"}
    BY <2>1, <2>7 DEF Absorbs, Merge, MergeAppend, new
  <2> QED BY <2>5, <2>6, <2>7
<1> QED BY <1>2, <1>3

\* Two operations on a message that its replicas may merge in either order: by one author,
\* of different clocks, and the append, if it is one of them, the earlier.
EitherOrder(a, b) ==
  /\ a.msg.author = b.msg.author
  /\ a.msg.clock # b.msg.clock
  /\ a.kind = "append" => b.kind # "append" /\ Before(a.msg.clock, b.msg.clock)
  /\ b.kind = "append" => Before(b.msg.clock, a.msg.clock)

\* Merging is idempotent and commutative, as mergeOps says of itself (messages.js): a
\* repeated operation changes nothing, however late it comes, and two operations show
\* the same in either order.
THEOREM MergeIdempotentCommutative ==
  ASSUME NEW e \in Entry, Tidy(e), NEW a \in Op, NEW b \in Op, Clean(a), Clean(b)
  PROVE  /\ Merge(Merge(e, a), a) = Merge(e, a)
         /\ Merge(Merge(Merge(e, a), b), a) = Merge(Merge(e, a), b)
         /\ EitherOrder(a, b) /\ (e # Absent => e.author = a.msg.author) =>
              Visible(Merge(Merge(e, a), b)) = Visible(Merge(Merge(e, b), a))
<1>1. WellFormed(a) /\ WellFormed(b)
  BY DEF Clean
<1>2. Merge(e, a) \in Entry /\ Tidy(Merge(e, a)) /\ Merge(e, b) \in Entry
  BY <1>1, MergeType, MergeTidy
<1>3. Absorbs(Merge(e, a), a)
  BY <1>1, MergeTwice
<1>4. Absorbs(Merge(Merge(e, a), b), a)
  BY <1>1, <1>2, <1>3, StillAbsorbs
<1>5. ASSUME EitherOrder(a, b), e # Absent => e.author = a.msg.author
      PROVE  Visible(Merge(Merge(e, a), b)) = Visible(Merge(Merge(e, b), a))
  <2> DEFINE ab == Merge(Merge(e, a), b)
             ba == Merge(Merge(e, b), a)
  <2>1. /\ a.msg \in Message /\ a.msg.clock \in SeqClock /\ a.msg # Absent
        /\ b.msg \in Message /\ b.msg.clock \in SeqClock /\ b.msg # Absent
        /\ a.kind \in Kind /\ b.kind \in Kind
    BY OpFields DEF Clean
  <2>2. \A x \in Entry, op \in Op : Clean(op) /\ op.kind = "tombstone" => IsDeleted(Merge(x, op))
    <3> SUFFICES ASSUME NEW x \in Entry, NEW op \in Op, Clean(op), op.kind = "tombstone"
                 PROVE  IsDeleted(Merge(x, op))
      OBVIOUS
    <3>1. op.msg \in Message /\ op.msg # Absent
      BY OpFields
    <3>2. CASE x = Absent
      BY <3>1, <3>2 DEF Merge, MergeTombstone, Clean, WellFormed, IsDeleted
    <3>3. CASE x # Absent
      BY <3>1, <3>3, MergeTombstoneOfMessage, AbsentAssumption DEF Merge, Entry, IsDeleted
    <3> QED BY <3>2, <3>3
  <2>3. CASE IsDeleted(e) \/ a.kind = "tombstone" \/ b.kind = "tombstone"
    <3>1. IsDeleted(ab) /\ IsDeleted(ba)
      BY <1>2, <2>2, <2>3, MergeKeepsDeleted
    <3>2. Merge(e, a) # Absent => Merge(e, a).author = a.msg.author
      BY <1>5, MergeAuthor
    <3>3. Merge(e, b) # Absent => Merge(e, b).author = a.msg.author
      BY <1>5, MergeAuthor DEF EitherOrder
    <3>4. ab.author = a.msg.author
      BY <1>2, <1>5, <3>1, <3>2, MergeAuthor DEF EitherOrder, IsDeleted
    <3>5. ba.author = a.msg.author
      BY <1>2, <3>1, <3>3, MergeAuthor DEF IsDeleted
    <3> HIDE DEF ab, ba
    <3>6. Visible(ab) = Visible(ba)
      BY <3>1, <3>4, <3>5 DEF Visible
    <3> QED BY <3>6 DEF ab, ba
  <2>4. CASE ~ IsDeleted(e) /\ a.kind # "tombstone" /\ b.kind # "tombstone"
    <3>1. a.msg.state # "deleted" /\ b.msg.state # "deleted"
      BY <2>4 DEF Clean
    <3>2. a.kind \in {"append", "edit"} /\ b.kind \in {"append", "edit"}
      BY <2>1, <2>4 DEF Kind
    <3>3. /\ Before(a.msg.clock, b.msg.clock) <=> ~ Before(b.msg.clock, a.msg.clock)
      BY <1>5, <2>1, BeforeTotal, BeforeTransitive, BeforeIrreflexive DEF EitherOrder
    <3>4. CASE e = Absent
      BY <1>5, <2>1, <3>1, <3>2, <3>3, <3>4 DEF EitherOrder, Merge, MergeAppend, MergeEdit
    <3>5. CASE e # Absent
      <4>1. e.clock \in SeqClock /\ e.state # "deleted"
        BY <2>4, <3>5 DEF Entry, Message, IsDeleted
      <4>2. /\ Before(e.clock, a.msg.clock) /\ Before(a.msg.clock, b.msg.clock) =>
                 Before(e.clock, b.msg.clock)
            /\ Before(e.clock, b.msg.clock) /\ Before(b.msg.clock, a.msg.clock) =>
                 Before(e.clock, a.msg.clock)
        BY <2>1, <4>1, BeforeTransitive
      <4> QED BY <2>1, <3>1, <3>2, <3>3, <3>5, <4>1, <4>2 DEF Merge, MergeAppend, MergeEdit
    <3> QED BY <3>4, <3>5
  <2> QED BY <2>3, <2>4
<1> QED BY <1>3, <1>4, <1>5 DEF Absorbs

============================================================================
