---------------------- MODULE SpacesReplicationProofs ----------------------
(***************************************************************************)
(* Theorems about SpacesReplication, for any set of replicas, messages,    *)
(* users and texts, any skew of the physical clocks and any order, delay   *)
(* and repetition of the merges.                                           *)
(*                                                                         *)
(* The inductive invariant relates three things:                           *)
(*   Consistent  the operations known anywhere: one author per message,    *)
(*               no clock twice, the append before all else on a message;  *)
(*   Means       an index entry: a function of the set of operations that  *)
(*               the replica has merged on that message;                   *)
(*   Informed    a replica's clock: past every clock in its log, and every *)
(*               operation is in the log of the replica that issued it.    *)
(* Informed gives the next local operation a clock that is new and later   *)
(* than the entry it was made from; Consistent is what makes Merge, which  *)
(* never looks at a log, compute the outcome of a set.                     *)
(***************************************************************************)
EXTENDS SpacesReplication, MessageCRDTProofs

----------------------------------------------------------------------------
OneAuthor(ops) == \A a, b \in ops : a.id = b.id => a.msg.author = b.msg.author

ClocksDistinct(ops) == \A a, b \in ops : a.msg.clock = b.msg.clock => a = b

AppendFirst(ops) ==
  \A a, b \in ops : a.id = b.id /\ a.kind = "append" /\ b # a =>
    Before(a.msg.clock, b.msg.clock)

Consistent(ops) ==
  /\ ops \subseteq Op
  /\ \A op \in ops : Clean(op)
  /\ OneAuthor(ops)
  /\ ClocksDistinct(ops)
  /\ AppendFirst(ops)

Deletes(ops) == \E op \in ops : op.kind = "tombstone"

IsNewest(ops, op) == op \in ops /\ \A o \in ops : AtMost(o.msg.clock, op.msg.clock)

\* An entry e after merging ops, the operations on one message.
Means(ops, e) ==
  /\ ops = {} => e = Absent
  /\ \A op \in ops : e # Absent /\ e.author = op.msg.author
  /\ ops # {} => \E op \in ops : e.clock = op.msg.clock
  /\ Deletes(ops) => IsDeleted(e)
  /\ ops # {} /\ ~ Deletes(ops) => \E op \in ops : IsNewest(ops, op) /\ e = op.msg

Logged(n, m) == {op \in log[n] : op.id = m}

IndexMeans == \A n \in Node, m \in MsgId : Means(Logged(n, m), index[n][m])

Informed ==
  /\ \A op \in Known : op \in log[op.msg.clock.node]
  /\ \A n \in Node : \A op \in log[n] : Past(hlc[n], wall[n], op.msg.clock)

Inv == TypeOK /\ Consistent(Known) /\ IndexMeans /\ Informed
----------------------------------------------------------------------------
\* Sets of operations.

\* A new operation with a fresh clock that agrees with the earlier operations
\* on its message leaves the set consistent.
LEMMA ConsistentAdd ==
  ASSUME NEW ops, Consistent(ops), NEW op \in Op, Clean(op),
         \A a \in ops : a.msg.clock # op.msg.clock,
         \A a \in ops : a.id = op.id =>
           /\ a.msg.author = op.msg.author
           /\ op.kind # "append"
           /\ a.kind = "append" => Before(a.msg.clock, op.msg.clock)
  PROVE  Consistent(ops \cup {op})
<1> DEFINE all == ops \cup {op}
<1>1. all \subseteq Op /\ \A o \in all : Clean(o)
  BY DEF Consistent
<1>2. OneAuthor(all)
  BY DEF Consistent, OneAuthor
<1>3. ClocksDistinct(all)
  BY DEF Consistent, ClocksDistinct
<1>4. AppendFirst(all)
  <2> SUFFICES ASSUME NEW a \in all, NEW b \in all, a.id = b.id, a.kind = "append", b # a
               PROVE  Before(a.msg.clock, b.msg.clock)
    BY DEF AppendFirst
  <2>1. CASE a \in ops /\ b \in ops
    BY <2>1 DEF Consistent, AppendFirst
  <2>2. CASE a \in ops /\ b = op
    BY <2>2
  <2>3. CASE a = op /\ b \in ops
    BY <2>3
  <2> QED BY <2>1, <2>2, <2>3
<1> QED BY <1>1, <1>2, <1>3, <1>4 DEF Consistent

\* The newest operation is unique.
LEMMA NewestUnique ==
  ASSUME NEW known, Consistent(known), NEW ops \in SUBSET known,
         NEW a, NEW b, IsNewest(ops, a), IsNewest(ops, b)
  PROVE  a = b
<1>1. a \in known /\ b \in known /\ a \in Op /\ b \in Op
  BY DEF IsNewest, Consistent
<1>2. a.msg.clock \in SeqClock /\ b.msg.clock \in SeqClock
  BY <1>1, OpFields
<1>3. AtMost(a.msg.clock, b.msg.clock) /\ AtMost(b.msg.clock, a.msg.clock)
  BY DEF IsNewest
<1>4. a.msg.clock = b.msg.clock
  BY <1>2, <1>3, BeforeTransitive, BeforeIrreflexive DEF AtMost
<1> QED BY <1>1, <1>4 DEF Consistent, ClocksDistinct

\* Merge (store.go, applyToIndex) takes the entry of a set of operations to the
\* entry of the set with one more operation: in whatever order they come.
LEMMA MergeMeans ==
  ASSUME NEW known, Consistent(known), NEW op \in known, NEW ops \in SUBSET known,
         \A o \in ops : o.id = op.id, NEW e \in Entry, Means(ops, e)
  PROVE  Means(ops \cup {op}, Merge(e, op))
<1> DEFINE all == ops \cup {op}
           new == Merge(e, op)
<1>1. /\ op \in Op /\ Clean(op) /\ op.msg \in Message /\ op.msg.clock \in SeqClock
      /\ op.msg # Absent
      /\ \A o \in ops : o \in Op /\ Clean(o) /\ o.msg.clock \in SeqClock
  BY OpFields DEF Consistent
<1>2. \A o \in ops : o.msg.author = op.msg.author
  BY DEF Consistent, OneAuthor
<1>3. CASE e = Absent
  <2>1. ops = {}
    BY <1>3 DEF Means
  <2>2. new = op.msg
    BY <1>1, <1>3 DEF Merge, MergeAppend, MergeEdit, MergeTombstone, Clean, Kind
  <2>3. op.kind = "tombstone" => IsDeleted(new)
    BY <1>1, <2>2 DEF Clean, WellFormed, IsDeleted
  <2>4. IsNewest(all, op)
    BY <2>1 DEF IsNewest, AtMost
  <2> QED BY <1>1, <2>1, <2>2, <2>3, <2>4 DEF Means, Deletes
<1>4. CASE e # Absent
  <2>1. e \in Message /\ ops # {} /\ e.author = op.msg.author
    BY <1>2, <1>4 DEF Means, Entry
  <2>2. new \in Message /\ new # Absent
    BY <1>1, <2>1, MergeAdvances, AbsentAssumption
  <2>3. new.author = op.msg.author
    BY <1>1, <2>1, <2>2, MergeAuthor DEF Entry
  <2>4. \E o \in all : new.clock = o.msg.clock
    BY <1>1, <2>1, <2>2, MergeClock DEF Means, Entry
  <2>5. Deletes(all) => IsDeleted(new)
    <3>1. CASE op.kind = "tombstone"
      BY <1>1, <2>1, <2>2, <3>1, MergeTombstoneOfMessage DEF Merge, IsDeleted
    <3>2. CASE Deletes(ops)
      BY <1>1, <3>2, MergeKeepsDeleted DEF Means
    <3> QED BY <3>1, <3>2 DEF Deletes
  <2>6. ASSUME ~ Deletes(all) PROVE \E o \in all : IsNewest(all, o) /\ new = o.msg
    <3>1. PICK o \in ops : IsNewest(ops, o) /\ e = o.msg
      BY <2>1, <2>6 DEF Means, Deletes
    <3>2. op.kind # "tombstone" /\ e.state # "deleted"
      BY <1>1, <2>6, <3>1 DEF Deletes, Clean
    <3>3. CASE op.kind = "append"
      <4>1. new = e
        BY <1>4, <3>3 DEF Merge, MergeAppend
      <4>2. AtMost(op.msg.clock, o.msg.clock)
        BY <3>3 DEF Consistent, AppendFirst, AtMost
      <4> QED BY <3>1, <4>1, <4>2 DEF IsNewest
    <3>4. CASE op.kind = "edit" /\ Before(e.clock, op.msg.clock)
      <4>1. new = op.msg
        BY <1>4, <3>2, <3>4 DEF Merge, MergeEdit
      <4>2. \A p \in ops : AtMost(p.msg.clock, op.msg.clock)
        BY <1>1, <3>1, <3>4, BeforeTransitive DEF IsNewest, AtMost
      <4> QED BY <4>1, <4>2 DEF IsNewest, AtMost
    <3>5. CASE op.kind = "edit" /\ ~ Before(e.clock, op.msg.clock)
      <4>1. new = e
        BY <1>4, <3>2, <3>5 DEF Merge, MergeEdit
      <4>2. AtMost(op.msg.clock, o.msg.clock)
        BY <1>1, <3>1, <3>5, BeforeTotal DEF AtMost
      <4> QED BY <3>1, <4>1, <4>2 DEF IsNewest
    <3> QED BY <1>1, <3>2, <3>3, <3>4, <3>5 DEF Clean, Kind
  <2> QED BY <1>2, <2>2, <2>3, <2>4, <2>5, <2>6 DEF Means
<1> QED BY <1>3, <1>4

----------------------------------------------------------------------------
\* Type correctness, and what every write and merge does to a replica.

LEMMA KnownType ==
  ASSUME TypeOK
  PROVE  Known \in SUBSET Op /\ \A n \in Node : log[n] \subseteq Known
BY DEF TypeOK, Known

\* Each of the three local mutations is a LocalWrite of a clean operation that
\* carries the next stamp and continues the replica's entry.
Prepared(n, op) ==
  /\ Clean(op)
  /\ op.msg.clock = NextStamp(n)
  /\ \/ op.kind = "append" /\ \A a \in Known : a.id # op.id
     \/ op.kind # "append" /\ index[n][op.id] # Absent
          /\ op.msg.author = index[n][op.id].author

LEMMA NextStampType ==
  ASSUME TypeOK, NEW n \in Node
  PROVE  Tick(hlc[n], wall[n]) \in HLC /\ NextStamp(n) \in SeqClock
BY TickType, StampType DEF TypeOK, NextStamp

LEMMA SendIsWrite ==
  ASSUME TypeOK, NEW n \in Node, NEW m \in MsgId, NEW u \in User, NEW b \in Body,
         Send(n, m, u, b)
  PROVE  \E op \in Op : Prepared(n, op) /\ LocalWrite(n, op)
<1> DEFINE op == AppendOp(m, u, b, NextStamp(n))
<1>1. op \in Op /\ WellFormed(op)
  BY NextStampType, AppendOpType
<1>2. Prepared(n, op)
  BY <1>1 DEF Send, Prepared, AppendOp, Clean, Kind
<1> QED BY <1>1, <1>2 DEF Send

LEMMA EditIsWrite ==
  ASSUME TypeOK, NEW n \in Node, NEW m \in MsgId, NEW b \in Body, Edit(n, m, b)
  PROVE  \E op \in Op : Prepared(n, op) /\ LocalWrite(n, op)
<1> DEFINE op == EditOp(m, index[n][m], b, NextStamp(n))
<1>1. index[n][m] \in Message
  BY DEF TypeOK, Entry, Edit
<1>2. op \in Op /\ WellFormed(op)
  BY <1>1, NextStampType, EditOpType
<1>3. /\ op.kind = "edit" /\ op.id = m /\ op.msg.clock = NextStamp(n)
      /\ op.msg.state = "edited" /\ op.msg.author = index[n][m].author
  BY <1>1 DEF EditOp, Message
<1>4. Prepared(n, op)
  BY <1>2, <1>3 DEF Edit, Prepared, Clean, Kind
<1> QED BY <1>2, <1>4 DEF Edit

LEMMA DeleteIsWrite ==
  ASSUME TypeOK, NEW n \in Node, NEW m \in MsgId, Delete(n, m)
  PROVE  \E op \in Op : Prepared(n, op) /\ LocalWrite(n, op)
<1> DEFINE op == TombstoneOp(m, index[n][m], NextStamp(n))
<1>1. index[n][m] \in Message
  BY DEF TypeOK, Entry, Delete
<1>2. op \in Op /\ WellFormed(op)
  BY <1>1, NextStampType, TombstoneOpType
<1>3. /\ op.kind = "tombstone" /\ op.id = m /\ op.msg.clock = NextStamp(n)
      /\ op.msg.author = index[n][m].author
  BY <1>1 DEF TombstoneOp, Message
<1>4. Prepared(n, op)
  BY <1>2, <1>3 DEF Delete, Prepared, Clean, Kind
<1> QED BY <1>2, <1>4 DEF Delete

\* Every step writes a prepared operation, merges a known one, lets physical
\* time pass or changes nothing.
LEMMA StepKinds ==
  ASSUME TypeOK, [Next]_vars
  PROVE  \/ \E n \in Node : \E op \in Op : Prepared(n, op) /\ LocalWrite(n, op)
         \/ \E n \in Node : \E op \in Known : MergeOp(n, op)
         \/ \E n \in Node : AdvanceWall(n)
         \/ UNCHANGED vars
<1>1. CASE Next
  BY <1>1, SendIsWrite, EditIsWrite, DeleteIsWrite DEF Next
<1> QED BY <1>1

\* What a replica's write or merge does to its index and its log.
LEMMA ApplyEffect ==
  ASSUME TypeOK, NEW n \in Node, NEW op \in Op, Apply(n, op)
  PROVE  /\ index' \in [Node -> [MsgId -> Entry]]
         /\ index'[n][op.id] = Merge(index[n][op.id], op)
         /\ \A m \in MsgId \ {op.id} : index'[n][m] = index[n][m]
         /\ \A p \in Node \ {n} : index'[p] = index[p]
         /\ log' \in [Node -> SUBSET Op]
         /\ log'[n] = log[n] \cup {op}
         /\ \A p \in Node \ {n} : log'[p] = log[p]
         /\ Known' = Known \cup {op}
<1>1. index[n] \in [MsgId -> Entry]
  BY DEF TypeOK
<1>2. index' = [index EXCEPT ![n] = ApplyToIndex(index[n], op)]
  BY DEF Apply, TypeOK
<1>3. log' = [log EXCEPT ![n] = log[n] \cup {op}]
  BY DEF Apply, TypeOK
<1>4. /\ log'[n] = log[n] \cup {op} /\ \A p \in Node \ {n} : log'[p] = log[p]
      /\ log' \in [Node -> SUBSET Op]
  BY <1>3 DEF TypeOK
<1>5. /\ index'[n] = ApplyToIndex(index[n], op)
      /\ \A p \in Node \ {n} : index'[p] = index[p]
      /\ index' \in [Node -> [MsgId -> Entry]]
  BY <1>1, <1>2, ApplyToIndexOthers DEF TypeOK
<1>6. Known' = Known \cup {op}
  BY <1>4 DEF Known
<1> QED BY <1>1, <1>4, <1>5, <1>6, ApplyToIndexOthers

\* Clocks, logs and indices keep their types (uint32 counters, fields of ops).
THEOREM ReplicasTyped == Spec => []TypeOK
<1>1. Init => TypeOK
  BY NewHLCType DEF Init, TypeOK, Entry
<1>2. TypeOK /\ [Next]_vars => TypeOK'
  <2> SUFFICES ASSUME TypeOK, [Next]_vars PROVE TypeOK'
    OBVIOUS
  <2>1. ASSUME NEW n \in Node, NEW op \in Op, LocalWrite(n, op) PROVE TypeOK'
    <3>1. wall' = wall /\ Apply(n, op)
      BY <2>1 DEF LocalWrite
    <3>2. hlc' \in [Node -> HLC]
      BY <2>1, NextStampType DEF LocalWrite, TypeOK
    <3> QED BY <3>1, <3>2, ApplyEffect DEF TypeOK
  <2>2. ASSUME NEW n \in Node, NEW op \in Known, MergeOp(n, op) PROVE TypeOK'
    <3>1. wall' = wall /\ Apply(n, op) /\ op \in Op
      BY <2>2, KnownType DEF MergeOp
    <3>2. Receive(hlc[n], op.msg.clock, wall[n]) \in HLC
      BY <3>1, OpFields, ReceiveType DEF TypeOK
    <3>3. hlc' \in [Node -> HLC]
      BY <2>2, <3>2 DEF MergeOp, TypeOK
    <3> QED BY <3>1, <3>3, ApplyEffect DEF TypeOK
  <2>3. ASSUME NEW n \in Node, AdvanceWall(n) PROVE TypeOK'
    BY <2>3 DEF AdvanceWall, TypeOK
  <2>4. CASE UNCHANGED vars
    BY <2>4 DEF vars, TypeOK
  <2> QED BY <2>1, <2>2, <2>3, <2>4, StepKinds
<1> QED BY <1>1, <1>2, PTL DEF Spec

\* A replica never goes back to an older version of a message, whatever comes
\* late or twice (store.go, applyToIndex), even when clocks tie.
THEOREM NeverBack == Spec => NoRegression
<1> DEFINE Kept(n, m) ==
      index[n][m] # Absent =>
        /\ index'[n][m] # Absent
        /\ AtMost(index[n][m].clock, index'[n][m].clock)
        /\ IsDeleted(index[n][m]) => IsDeleted(index'[n][m])
<1>1. TypeOK /\ [Next]_vars => \A n \in Node, m \in MsgId : Kept(n, m)
  <2> SUFFICES ASSUME TypeOK, [Next]_vars, NEW p \in Node, NEW m \in MsgId PROVE Kept(p, m)
    OBVIOUS
  <2>1. CASE index'[p][m] = index[p][m]
    BY <2>1 DEF AtMost
  <2>2. ASSUME NEW n \in Node, NEW op \in Op, Apply(n, op) PROVE Kept(p, m)
    <3>1. CASE p = n /\ m = op.id
      <4>1. index'[p][m] = Merge(index[p][m], op) /\ index[p][m] \in Entry
        BY <2>2, <3>1, ApplyEffect DEF TypeOK
      <4>2. CASE index[p][m] \in Message
        BY <4>1, <4>2, MergeAdvances, MergeKeepsDeleted, AbsentAssumption
      <4> QED BY <4>1, <4>2 DEF Entry
    <3>2. CASE ~ (p = n /\ m = op.id)
      BY <2>1, <2>2, <3>2, ApplyEffect
    <3> QED BY <3>1, <3>2
  <2>3. CASE UNCHANGED index
    BY <2>1, <2>3
  <2> QED BY <2>2, <2>3, StepKinds, KnownType DEF LocalWrite, MergeOp, AdvanceWall, vars
<1> QED BY <1>1, ReplicasTyped, PTL DEF Spec, NoRegression

----------------------------------------------------------------------------
\* At least once is as good as once, with ties or without.

\* Every entry has absorbed the operations in its replica's log.
Absorbed == \A n \in Node : \A op \in log[n] : Absorbs(index[n][op.id], op)

AbsorbedInv ==
  /\ \A op \in Known : Clean(op)
  /\ \A n \in Node, m \in MsgId : Tidy(index[n][m])
  /\ Absorbed

LEMMA ApplyAbsorbed ==
  ASSUME TypeOK, AbsorbedInv, NEW n \in Node, NEW op \in Op, Apply(n, op), Clean(op)
  PROVE  AbsorbedInv'
<1>1. /\ index'[n][op.id] = Merge(index[n][op.id], op)
      /\ \A m \in MsgId \ {op.id} : index'[n][m] = index[n][m]
      /\ \A p \in Node \ {n} : index'[p] = index[p]
      /\ log'[n] = log[n] \cup {op}
      /\ \A p \in Node \ {n} : log'[p] = log[p]
      /\ Known' = Known \cup {op}
  BY ApplyEffect
<1>2. \A o \in Known' : Clean(o)
  BY <1>1 DEF AbsorbedInv
<1>3. op.id \in MsgId /\ index[n][op.id] \in Entry /\ Tidy(index[n][op.id]) /\ WellFormed(op)
  BY OpFields DEF TypeOK, AbsorbedInv, Clean
<1>4. Tidy(index'[n][op.id])
  BY <1>1, <1>3, MergeTidy
<1>5. ASSUME NEW p \in Node, NEW m \in MsgId PROVE Tidy(index'[p][m])
  BY <1>1, <1>4 DEF AbsorbedInv
<1>6. ASSUME NEW p \in Node, NEW o \in log'[p] PROVE Absorbs(index'[p][o.id], o)
  <2>1. CASE p = n /\ o = op
    BY <1>1, <1>3, <2>1, MergeTwice
  <2>2. CASE ~ (p = n /\ o = op)
    <3>1. o \in log[p] /\ Absorbs(index[p][o.id], o)
      BY <1>1, <2>2 DEF AbsorbedInv, Absorbed
    <3>2. o \in Op /\ o.id \in MsgId
      BY <3>1, OpFields DEF TypeOK
    <3>3. CASE p = n /\ o.id = op.id
      BY <1>1, <1>3, <3>1, <3>2, <3>3, StillAbsorbs
    <3>4. CASE ~ (p = n /\ o.id = op.id)
      <4>1. index'[p][o.id] = index[p][o.id]
        BY <1>1, <3>2, <3>4
      <4> QED BY <3>1, <4>1
    <3> QED BY <3>3, <3>4
  <2> QED BY <2>1, <2>2
<1> QED BY <1>2, <1>5, <1>6 DEF AbsorbedInv, Absorbed

\* An operation that a replica has merged changes nothing when it comes again, however
\* often, however late and whatever came between, so that delivery at least once is
\* enough (MergeOps, mergeOps): only the clock moves on.
THEOREM RedeliveryChangesNothing ==
  Spec => [](\A n \in Node : \A op \in log[n] : ApplyToIndex(index[n], op) = index[n])
<1>1. Init => AbsorbedInv
  <2> SUFFICES ASSUME Init PROVE AbsorbedInv
    OBVIOUS
  <2>1. Known = {} /\ \A n \in Node : log[n] = {}
    BY DEF Init, Known
  <2>2. \A n \in Node, m \in MsgId : index[n][m] = Absent
    BY DEF Init
  <2> QED BY <2>1, <2>2 DEF AbsorbedInv, Absorbed, Tidy, IsDeleted
<1>2. TypeOK /\ AbsorbedInv /\ [Next]_vars => AbsorbedInv'
  <2> SUFFICES ASSUME TypeOK, AbsorbedInv, [Next]_vars PROVE AbsorbedInv'
    OBVIOUS
  <2>1. ASSUME NEW n \in Node, NEW op \in Op, Prepared(n, op), LocalWrite(n, op)
        PROVE  AbsorbedInv'
    BY <2>1, ApplyAbsorbed DEF Prepared, LocalWrite
  <2>2. ASSUME NEW n \in Node, NEW op \in Known, MergeOp(n, op) PROVE AbsorbedInv'
    BY <2>2, KnownType, ApplyAbsorbed DEF AbsorbedInv, MergeOp
  <2>3. CASE UNCHANGED <<index, log>>
    <3>1. Known' = Known
      BY <2>3 DEF Known
    <3> QED BY <2>3, <3>1 DEF AbsorbedInv, Absorbed
  <2> QED BY <2>1, <2>2, <2>3, StepKinds DEF AdvanceWall, vars
<1>3. TypeOK /\ AbsorbedInv =>
        \A n \in Node : \A op \in log[n] : ApplyToIndex(index[n], op) = index[n]
  <2> SUFFICES ASSUME TypeOK, AbsorbedInv, NEW n \in Node, NEW op \in log[n]
               PROVE  ApplyToIndex(index[n], op) = index[n]
    OBVIOUS
  <2>1. op \in Op /\ op.id \in MsgId /\ index[n] \in [MsgId -> Entry]
    BY OpFields DEF TypeOK
  <2>2. Merge(index[n][op.id], op) = index[n][op.id]
    BY DEF AbsorbedInv, Absorbed, Absorbs
  <2> QED BY <2>1, <2>2 DEF ApplyToIndex
<1> QED BY <1>1, <1>2, <1>3, ReplicasTyped, PTL DEF Spec

----------------------------------------------------------------------------
\* Clocks are issued once, with ties or without.

OwnClocksPast ==
  \A op \in Known : LET n == op.msg.clock.node IN Past(hlc[n], wall[n], op.msg.clock)

LEMMA OwnClocks == Spec => [](OwnClocksPast /\ ClocksDistinct(Known))
<1> DEFINE I == OwnClocksPast /\ ClocksDistinct(Known)
<1>1. Init => I
  <2> SUFFICES ASSUME Init PROVE I
    OBVIOUS
  <2>1. Known = {}
    BY DEF Init, Known
  <2> QED BY <2>1 DEF OwnClocksPast, ClocksDistinct
<1>2. TypeOK /\ I /\ [Next]_vars => I'
  <2> SUFFICES ASSUME TypeOK, I, [Next]_vars PROVE I'
    OBVIOUS
  <2>1. \A a \in Known : a \in Op /\ a.msg.clock \in SeqClock /\ a.msg.clock.node \in Node
    BY KnownType, OpFields DEF SeqClock
  <2>2. \A n \in Node : hlc[n] \in HLC /\ wall[n] \in Nat
    BY DEF TypeOK
  <2>3. ASSUME Known' = Known,
               \A a \in Known : LET n == a.msg.clock.node IN
                 Past(hlc'[n], wall'[n], a.msg.clock)
        PROVE  I'
    BY <2>3 DEF OwnClocksPast, ClocksDistinct
  <2>4. ASSUME NEW n \in Node, NEW op \in Op, Prepared(n, op), LocalWrite(n, op) PROVE I'
    <3> DEFINE h == hlc[n]
               c == op.msg.clock
    <3>1. /\ wall' = wall /\ HasRoom(h, wall[n]) /\ Known' = Known \cup {op}
          /\ hlc'[n] = Tick(h, wall[n]) /\ \A p \in Node \ {n} : hlc'[p] = hlc[p]
          /\ c = NextStamp(n) /\ c.node = n
      BY <2>2, <2>4, ApplyEffect
         DEF TypeOK, LocalWrite, TickRoom, HasRoom, Prepared, NextStamp, Stamp
    <3>2. ASSUME NEW a \in Known, a.msg.clock.node = n
          PROVE  Before(a.msg.clock, c) /\ Past(hlc'[n], wall[n], a.msg.clock)
      <4>1. Past(h, wall[n], a.msg.clock)
        BY <3>2 DEF OwnClocksPast
      <4> QED BY <2>1, <2>2, <3>1, <4>1, TickIssuesLater, TickKeepsPast DEF NextStamp
    <3>3. Past(hlc'[n], wall[n], c)
      BY <2>2, <3>1, NextStampType, StampIsPast DEF NextStamp
    <3>4. \A a \in Known : a.msg.clock # c
      BY <2>1, <3>1, <3>2, BeforeIrreflexive
    <3>5. ClocksDistinct(Known \cup {op})
      BY <3>4 DEF ClocksDistinct
    <3>6. \A a \in Known : LET p == a.msg.clock.node IN Past(hlc'[p], wall[p], a.msg.clock)
      BY <2>1, <3>1, <3>2 DEF OwnClocksPast
    <3> HIDE DEF h, c
    <3> QED BY <3>1, <3>3, <3>5, <3>6 DEF OwnClocksPast, ClocksDistinct, c
  <2>5. ASSUME NEW n \in Node, NEW op \in Known, MergeOp(n, op) PROVE I'
    <3> DEFINE r == op.msg.clock
    <3>1. /\ wall' = wall /\ HasRoom(hlc[n], wall[n]) /\ r.counter + 1 < CounterModulus
          /\ hlc'[n] = Receive(hlc[n], r, wall[n])
          /\ \A p \in Node \ {n} : hlc'[p] = hlc[p]
      BY <2>5 DEF TypeOK, MergeOp, TickRoom, HasRoom
    <3>2. Known' = Known
      <4>1. Known' = Known \cup {op}
        BY <2>1, <2>5, ApplyEffect DEF MergeOp
      <4> QED BY <4>1
    <3> HIDE DEF r
    <3>3. ASSUME NEW a \in Known, NEW p \in Node, p = a.msg.clock.node
          PROVE  Past(hlc'[p], wall'[p], a.msg.clock)
      <4>1. Past(hlc[p], wall[p], a.msg.clock)
        BY <3>3 DEF OwnClocksPast
      <4>2. r \in SeqClock
        BY <2>1 DEF r
      <4> QED BY <2>1, <2>2, <3>1, <4>1, <4>2, ReceiveKeepsPast
    <3> QED BY <2>1, <2>3, <3>2, <3>3
  <2>6. ASSUME NEW n \in Node, AdvanceWall(n) PROVE I'
    <3>1. UNCHANGED <<hlc, log>> /\ Known' = Known
      BY <2>6 DEF AdvanceWall, Known
    <3>2. \A p \in Node : wall'[p] = wall[p] \/ wall'[p] = wall[p] + 1
      BY <2>6 DEF AdvanceWall, TypeOK
    <3>3. ASSUME NEW a \in Known, NEW p \in Node, p = a.msg.clock.node
          PROVE  Past(hlc'[p], wall'[p], a.msg.clock)
      <4>1. Past(hlc[p], wall[p], a.msg.clock)
        BY <3>3 DEF OwnClocksPast
      <4>2. a.msg.clock.wall \in Nat /\ wall[p] \in Nat
        BY <2>1, <2>2, ClockFields
      <4>3. a.msg.clock.wall < wall[p] => a.msg.clock.wall < wall'[p]
        BY <3>2, <4>2
      <4> QED BY <3>1, <4>1, <4>3 DEF Past
    <3> QED BY <2>1, <2>3, <3>1, <3>3
  <2>7. CASE UNCHANGED vars
    <3>1. UNCHANGED <<wall, hlc>> /\ Known' = Known
      BY <2>7 DEF vars, Known
    <3> QED BY <2>3, <3>1 DEF OwnClocksPast
  <2> QED BY <2>4, <2>5, <2>6, <2>7, StepKinds
<1> QED BY <1>1, <1>2, ReplicasTyped, PTL DEF Spec

\* No two operations anywhere carry the same clock: a replica stays past what it
\* issued, and clocks of two replicas differ in the node (Tick, Receive).
THEOREM ClocksNeverRepeat == Spec => []ClocksDistinct(Known)
BY OwnClocks, PTL

\* What n has merged is past for its clock, or it is of another replica and tied once.
Near(n, c) ==
  \/ Past(hlc[n], wall[n], c)
  \/ TiesPossible /\ c.node # n /\ c.wall <= hlc[n].wall

LogsNear == \A n \in Node : \A op \in log[n] : Near(n, op.msg.clock)

\* Nothing moves the clock of a replica back.
LEMMA ClockRises ==
  ASSUME NEW h \in HLC, NEW now \in Nat, NEW r \in SeqClock
  PROVE  Tick(h, now).wall >= h.wall /\ Receive(h, r, now).wall >= h.wall
BY DEF Tick, Receive, HLC, SeqClock

LEMMA NearStays ==
  ASSUME NEW h \in HLC, NEW next \in HLC, NEW c \in SeqClock, NEW n, NEW now, NEW later,
         next.wall >= h.wall,
         Past(h, now, c) => Past(next, later, c),
         Past(h, now, c) \/ (TiesPossible /\ c.node # n /\ c.wall <= h.wall)
  PROVE  Past(next, later, c) \/ (TiesPossible /\ c.node # n /\ c.wall <= next.wall)
BY DEF HLC, SeqClock

\* A received clock is past, or was a tie and its millisecond is reached.
LEMMA ReceivedIsNear ==
  ASSUME NEW h \in HLC, NEW now \in Nat, NEW r \in SeqClock,
         HasRoom(h, now), r.counter + 1 < CounterModulus
  PROVE  \/ Past(Receive(h, r, now), now, r)
         \/ r.wall = now /\ h.wall < now /\ r.wall <= Receive(h, r, now).wall
BY CounterAssumption DEF HasRoom, Past, Reached, Receive, Tick, Bump, HLC, SeqClock, Counter

LEMMA NearClocksAreEarlier ==
  ASSUME TypeOK, NEW n \in Node, TickRoom(n), NEW b \in SeqClock, Near(n, b)
  PROVE  \/ Before(b, NextStamp(n))
         \/ TiesPossible /\ b.node # n /\ b.wall = NextStamp(n).wall
<1>1. hlc[n] \in HLC /\ wall[n] \in Nat /\ HasRoom(hlc[n], wall[n])
  BY DEF TypeOK, TickRoom, HasRoom
<1>2. CASE Past(hlc[n], wall[n], b)
  BY <1>1, <1>2, TickIssuesLater DEF NextStamp
<1>3. CASE TiesPossible /\ b.node # n /\ b.wall <= hlc[n].wall
  <2>1. NextStamp(n) \in SeqClock /\ NextStamp(n).wall >= hlc[n].wall
    BY <1>1, NextStampType, ClockRises DEF NextStamp, Stamp
  <2> QED BY <1>1, <1>3, <2>1 DEF Before, SeqClock, HLC
<1> QED BY <1>2, <1>3 DEF Near

LEMMA LogsNearInv ==
  ASSUME TypeOK, OwnClocksPast, LogsNear, [Next]_vars
  PROVE  LogsNear'
<1>1. \A a \in Known : a \in Op /\ a.msg.clock \in SeqClock /\ a.msg.clock.node \in Node
  BY KnownType, OpFields DEF SeqClock
<1>2. \A n \in Node : hlc[n] \in HLC /\ wall[n] \in Nat /\ log[n] \subseteq Known
  BY KnownType DEF TypeOK
<1>3. ASSUME NEW n \in Node, NEW op \in Op, Prepared(n, op), LocalWrite(n, op) PROVE LogsNear'
  <2>1. /\ wall' = wall /\ HasRoom(hlc[n], wall[n])
        /\ hlc'[n] = Tick(hlc[n], wall[n]) /\ \A p \in Node \ {n} : hlc'[p] = hlc[p]
        /\ log'[n] = log[n] \cup {op} /\ \A p \in Node \ {n} : log'[p] = log[p]
        /\ op.msg.clock = NextStamp(n)
    BY <1>2, <1>3, ApplyEffect DEF TypeOK, LocalWrite, TickRoom, HasRoom, Prepared
  <2>2. Near(n, op.msg.clock)'
    BY <1>2, <2>1, NextStampType, StampIsPast DEF NextStamp, Near
  <2>3. ASSUME NEW b \in log[n] PROVE Near(n, b.msg.clock)'
    <3>1. b.msg.clock \in SeqClock /\ Near(n, b.msg.clock)
      BY <1>1, <1>2 DEF LogsNear
    <3>2. hlc'[n] \in HLC /\ hlc'[n].wall >= hlc[n].wall
      BY <1>2, <2>1, <3>1, NextStampType, ClockRises
    <3>3. Past(hlc[n], wall[n], b.msg.clock) => Past(hlc'[n], wall'[n], b.msg.clock)
      BY <1>2, <2>1, <3>1, TickKeepsPast
    <3> QED BY <1>2, <3>1, <3>2, <3>3, NearStays DEF Near
  <2> QED BY <2>1, <2>2, <2>3 DEF LogsNear, Near
<1>4. ASSUME NEW n \in Node, NEW op \in Known, MergeOp(n, op) PROVE LogsNear'
  <2> DEFINE r == op.msg.clock
  <2>1. /\ wall' = wall /\ HasRoom(hlc[n], wall[n]) /\ r.counter + 1 < CounterModulus
        /\ hlc'[n] = Receive(hlc[n], r, wall[n]) /\ \A p \in Node \ {n} : hlc'[p] = hlc[p]
        /\ log'[n] = log[n] \cup {op} /\ \A p \in Node \ {n} : log'[p] = log[p]
        /\ TiesPossible \/ ~ (r.wall = wall[n] /\ hlc[n].wall < wall[n])
    BY <1>1, <1>2, <1>4, ApplyEffect DEF TypeOK, MergeOp, TickRoom, HasRoom, Tie
  <2>2. r \in SeqClock /\ (r.node = n => Past(hlc[n], wall[n], r))
    BY <1>1 DEF OwnClocksPast
  <2>3. hlc'[n] \in HLC /\ hlc'[n].wall >= hlc[n].wall
    BY <1>2, <2>1, <2>2, ReceiveType, ClockRises
  <2> HIDE DEF r
  <2>4. Near(n, r)'
    <3>1. CASE r.node = n
      BY <1>2, <2>1, <2>2, <3>1, ReceiveKeepsPast DEF Near
    <3>2. CASE r.node # n
      BY <1>2, <2>1, <2>2, <3>2, ReceivedIsNear DEF Near
    <3> QED BY <3>1, <3>2
  <2>5. ASSUME NEW b \in log[n] PROVE Near(n, b.msg.clock)'
    <3>1. b.msg.clock \in SeqClock /\ Near(n, b.msg.clock)
      BY <1>1, <1>2 DEF LogsNear
    <3>2. Past(hlc[n], wall[n], b.msg.clock) => Past(hlc'[n], wall'[n], b.msg.clock)
      BY <1>2, <2>1, <2>2, <3>1, ReceiveKeepsPast
    <3> QED BY <1>2, <2>3, <3>1, <3>2, NearStays DEF Near
  <2> QED BY <2>1, <2>4, <2>5 DEF LogsNear, Near, r
<1>5. ASSUME UNCHANGED <<hlc, log>>,
             \A p \in Node : wall'[p] = wall[p] \/ wall'[p] = wall[p] + 1
      PROVE  LogsNear'
  <2> SUFFICES ASSUME NEW p \in Node, NEW b \in log[p] PROVE Near(p, b.msg.clock)'
    BY <1>5 DEF LogsNear, Near
  <2>1. b.msg.clock \in SeqClock /\ Near(p, b.msg.clock)
    BY <1>1, <1>2 DEF LogsNear
  <2>2. Past(hlc[p], wall[p], b.msg.clock) => Past(hlc'[p], wall'[p], b.msg.clock)
    BY <1>2, <1>5, <2>1, ClockFields DEF Past
  <2>3. hlc'[p].wall >= hlc[p].wall /\ hlc'[p] \in HLC
    BY <1>2, <1>5 DEF HLC
  <2> QED BY <1>2, <2>1, <2>2, <2>3, NearStays DEF Near
<1>6. ASSUME NEW n \in Node, AdvanceWall(n) PROVE LogsNear'
  <2>1. \A p \in Node : wall'[p] = wall[p] \/ wall'[p] = wall[p] + 1
    BY <1>6 DEF AdvanceWall, TypeOK
  <2> QED BY <1>5, <1>6, <2>1 DEF AdvanceWall
<1>7. CASE UNCHANGED vars
  BY <1>5, <1>7 DEF vars
<1> QED BY <1>3, <1>4, <1>6, <1>7, StepKinds

\* A new operation has a clock of its own, later than everything that its replica had
\* merged; when a replica may meet clocks of its own millisecond, all but what others
\* wrote in that very millisecond (Tick, Receive).
THEOREM NewWritesAreLater == Spec => ClocksTellWrites
<1> DEFINE Later1 ==
      \A n \in Node : \A op \in log'[n] \ Known :
        /\ \A b \in Known : b.msg.clock # op.msg.clock
        /\ \A b \in log[n] :
             \/ Before(b.msg.clock, op.msg.clock)
             \/ TiesPossible /\ b.msg.clock.node # n /\ b.msg.clock.wall = op.msg.clock.wall
<1>1. Init => LogsNear
  BY DEF Init, LogsNear
<1>2. TypeOK /\ OwnClocksPast /\ LogsNear /\ [Next]_vars => LogsNear'
  BY LogsNearInv
<1>3. TypeOK /\ OwnClocksPast /\ LogsNear /\ [Next]_vars => Later1
  <2> SUFFICES ASSUME TypeOK, OwnClocksPast, LogsNear, [Next]_vars,
                      NEW p \in Node, NEW op \in log'[p] \ Known
               PROVE  /\ \A b \in Known : b.msg.clock # op.msg.clock
                      /\ \A b \in log[p] :
                           \/ Before(b.msg.clock, op.msg.clock)
                           \/ /\ TiesPossible /\ b.msg.clock.node # p
                              /\ b.msg.clock.wall = op.msg.clock.wall
    OBVIOUS
  <2>1. \A b \in Known : b.msg.clock \in SeqClock
    BY KnownType, OpFields
  <2>2. \A n \in Node : log[n] \subseteq Known
    BY KnownType
  <2>3. PICK n \in Node, new \in Op : Prepared(n, new) /\ LocalWrite(n, new)
    <3>1. ASSUME NEW n \in Node, NEW o \in Known, MergeOp(n, o) PROVE FALSE
      BY <2>2, <3>1, KnownType, ApplyEffect DEF MergeOp
    <3>2. UNCHANGED log => FALSE
      BY <2>2
    <3> QED BY <3>1, <3>2, StepKinds DEF AdvanceWall, vars
  <2>4. n = p /\ op = new /\ TickRoom(p) /\ op.msg.clock = NextStamp(p)
    BY <2>2, <2>3, ApplyEffect DEF LocalWrite, Prepared
  <2>5. ASSUME NEW b \in log[p]
        PROVE  \/ Before(b.msg.clock, op.msg.clock)
               \/ /\ TiesPossible /\ b.msg.clock.node # p
                  /\ b.msg.clock.wall = op.msg.clock.wall
    BY <2>1, <2>2, <2>4, NearClocksAreEarlier DEF LogsNear
  <2>6. ASSUME NEW b \in Known PROVE b.msg.clock # op.msg.clock
    <3>1. CASE b.msg.clock.node = p
      <4>1. Past(hlc[p], wall[p], b.msg.clock) /\ hlc[p] \in HLC /\ wall[p] \in Nat
            /\ HasRoom(hlc[p], wall[p])
        BY <2>4, <3>1 DEF OwnClocksPast, TypeOK, TickRoom, HasRoom
      <4>2. Before(b.msg.clock, op.msg.clock)
        BY <2>1, <2>4, <4>1, TickIssuesLater DEF NextStamp
      <4> QED BY <2>1, <4>2, BeforeIrreflexive
    <3>2. CASE b.msg.clock.node # p
      BY <2>4, <3>2 DEF NextStamp, Stamp
    <3> QED BY <3>1, <3>2
  <2> QED BY <2>5, <2>6
<1>4. Spec => []OwnClocksPast
  BY OwnClocks, PTL
<1>5. TypeOK /\ OwnClocksPast /\ LogsNear /\ [Next]_vars => [Later1]_vars
  BY <1>3
<1> QED BY <1>1, <1>2, <1>4, <1>5, ReplicasTyped, PTL DEF Spec, ClocksTellWrites

----------------------------------------------------------------------------
\* The inductive invariant.

\* A received clock is past, except for a tie (Receive's last case).
LEMMA ReceivedIsPast ==
  ASSUME NEW h \in HLC, NEW now \in Nat, NEW r \in SeqClock,
         HasRoom(h, now), r.counter + 1 < CounterModulus,
         ~ (r.wall = now /\ h.wall < now)
  PROVE  Past(Receive(h, r, now), now, r)
BY CounterAssumption DEF HasRoom, Past, Reached, Receive, Tick, Bump, HLC, SeqClock, Counter

LEMMA InitInv == Init => Inv
<1> SUFFICES ASSUME Init PROVE Inv
  OBVIOUS
<1>1. TypeOK
  BY NewHLCType DEF Init, TypeOK, Entry
<1>2. Known = {} /\ \A n \in Node : log[n] = {}
  BY DEF Init, Known
<1>3. Consistent(Known) /\ Informed
  BY <1>2 DEF Consistent, OneAuthor, ClocksDistinct, AppendFirst, Informed
<1>4. IndexMeans
  <2>1. \A n \in Node, m \in MsgId : Logged(n, m) = {} /\ index[n][m] = Absent
    BY <1>2 DEF Logged, Init
  <2> QED BY <2>1 DEF IndexMeans, Means, Deletes
<1> QED BY <1>1, <1>3, <1>4 DEF Inv

\* The operations of a replica's log on one message agree with its entry.
LEMMA EntryOfLog ==
  ASSUME Inv, NEW n \in Node, NEW m \in MsgId
  PROVE  /\ index[n][m] \in Entry
         /\ Means(Logged(n, m), index[n][m])
         /\ Logged(n, m) \in SUBSET Known
         /\ index[n][m] # Absent =>
              \E o \in Logged(n, m) : index[n][m].clock = o.msg.clock
                                     /\ index[n][m].author = o.msg.author
<1>1. index[n][m] \in Entry /\ Means(Logged(n, m), index[n][m])
  BY DEF Inv, TypeOK, IndexMeans
<1>2. Logged(n, m) \in SUBSET Known
  BY KnownType DEF Inv, Logged
<1> QED BY <1>1, <1>2 DEF Means

\* A prepared operation has a clock of its own, after those of its message.
LEMMA PreparedIsNew ==
  ASSUME Inv, NEW n \in Node, NEW op \in Op, Prepared(n, op), TickRoom(n)
  PROVE  Consistent(Known \cup {op})
<1>1. TypeOK /\ Consistent(Known) /\ op.id \in MsgId /\ op.msg.clock = NextStamp(n)
  BY OpFields DEF Inv, Prepared
<1>2. hlc[n] \in HLC /\ wall[n] \in Nat /\ HasRoom(hlc[n], wall[n])
  BY <1>1 DEF TypeOK, TickRoom, HasRoom
<1>3. \A a \in Known : a \in Op /\ a.msg.clock \in SeqClock
  BY <1>1, OpFields DEF Consistent
<1>4. \A a \in log[n] : Before(a.msg.clock, op.msg.clock)
  BY <1>1, <1>2, <1>3, KnownType, TickIssuesLater DEF Inv, Informed, NextStamp
<1>5. ASSUME NEW a \in Known PROVE a.msg.clock # op.msg.clock
  <2> SUFFICES ASSUME a.msg.clock = op.msg.clock PROVE FALSE
    OBVIOUS
  <2>1. a.msg.clock.node = n
    BY <1>1 DEF NextStamp, Stamp
  <2>2. Before(a.msg.clock, a.msg.clock)
    BY <1>4, <2>1 DEF Inv, Informed
  <2> QED BY <1>3, <2>2, BeforeIrreflexive
<1>6. ASSUME NEW a \in Known, a.id = op.id
      PROVE  /\ a.msg.author = op.msg.author
             /\ op.kind # "append"
             /\ a.kind = "append" => Before(a.msg.clock, op.msg.clock)
  <2>1. /\ op.kind # "append" /\ index[n][op.id] # Absent
        /\ op.msg.author = index[n][op.id].author
    BY <1>6 DEF Prepared
  <2>2. PICK o \in Logged(n, op.id) : op.msg.author = o.msg.author
    BY <1>1, <2>1, EntryOfLog
  <2>3. o \in Known /\ o \in log[n] /\ o.id = a.id
    BY <1>1, <1>6, <2>2, EntryOfLog DEF Logged
  <2>4. a.msg.author = op.msg.author
    BY <1>1, <2>2, <2>3 DEF Consistent, OneAuthor
  <2>5. ASSUME a.kind = "append" PROVE Before(a.msg.clock, op.msg.clock)
    <3>1. Before(o.msg.clock, op.msg.clock)
      BY <1>4, <2>3
    <3>2. a = o \/ Before(a.msg.clock, o.msg.clock)
      BY <1>1, <2>3, <2>5 DEF Consistent, AppendFirst
    <3>3. op.msg.clock \in SeqClock
      BY OpFields
    <3> QED BY <1>3, <2>3, <3>1, <3>2, <3>3, BeforeTransitive
  <2> QED BY <2>1, <2>4, <2>5
<1>7. Clean(op)
  BY DEF Prepared
<1> QED BY <1>1, <1>5, <1>6, <1>7, ConsistentAdd

\* Applying an operation keeps every entry the meaning of its log.
LEMMA ApplyKeepsMeaning ==
  ASSUME Inv, NEW n \in Node, NEW op \in Op, Apply(n, op), Consistent(Known')
  PROVE  IndexMeans'
<1> SUFFICES ASSUME NEW p \in Node, NEW m \in MsgId PROVE Means(Logged(p, m), index[p][m])'
  BY DEF IndexMeans
<1>1. TypeOK /\ op.id \in MsgId
  BY OpFields DEF Inv
<1>2. /\ index'[n][op.id] = Merge(index[n][op.id], op)
      /\ \A k \in MsgId \ {op.id} : index'[n][k] = index[n][k]
      /\ \A k \in Node \ {n} : index'[k] = index[k]
      /\ log'[n] = log[n] \cup {op}
      /\ \A k \in Node \ {n} : log'[k] = log[k]
      /\ Known' = Known \cup {op}
  BY <1>1, ApplyEffect
<1>3. Means(Logged(p, m), index[p][m]) /\ index[p][m] \in Entry /\ Logged(p, m) \in SUBSET Known
  BY EntryOfLog
<1>4. CASE p = n /\ m = op.id
  <2>1. Logged(p, m)' = Logged(p, m) \cup {op}
    BY <1>2, <1>4 DEF Logged
  <2>2. op \in Known' /\ Logged(p, m) \in SUBSET Known' /\ \A o \in Logged(p, m) : o.id = op.id
    BY <1>2, <1>3, <1>4 DEF Logged
  <2>3. Means(Logged(p, m) \cup {op}, Merge(index[p][m], op))
    BY <1>3, <2>2, MergeMeans
  <2>4. index'[p][m] = Merge(index[p][m], op)
    BY <1>2, <1>4
  <2> QED BY <2>1, <2>3, <2>4 DEF Means, Deletes, IsNewest
<1>5. CASE ~ (p = n /\ m = op.id)
  <2>1. index'[p][m] = index[p][m]
    BY <1>2, <1>5
  <2>2. Logged(p, m)' = Logged(p, m)
    BY <1>2, <1>5 DEF Logged
  <2> QED BY <1>3, <2>1, <2>2 DEF Means, Deletes, IsNewest
<1> QED BY <1>4, <1>5

\* A replica's clock stays past what it had merged, and gets past the rest.
LEMMA ApplyKeepsInformed ==
  ASSUME Inv, NEW n \in Node, NEW op \in Op, Apply(n, op), wall' = wall,
         \A p \in Node \ {n} : hlc'[p] = hlc[p],
         \A c \in SeqClock : Past(hlc[n], wall[n], c) => Past(hlc'[n], wall[n], c),
         Past(hlc'[n], wall[n], op.msg.clock),
         op \in Known \/ op.msg.clock.node = n
  PROVE  Informed'
<1>1. TypeOK
  BY DEF Inv
<1>2. /\ log'[n] = log[n] \cup {op}
      /\ \A k \in Node \ {n} : log'[k] = log[k]
      /\ Known' = Known \cup {op}
  BY <1>1, ApplyEffect
<1>3. \A k \in Node : \A o \in log[k] :
        o \in Op /\ o.msg.clock \in SeqClock /\ Past(hlc[k], wall[k], o.msg.clock)
  BY <1>1, OpFields DEF TypeOK, Inv, Informed
<1>4. ASSUME NEW o \in Known' PROVE o \in log'[o.msg.clock.node]
  <2>1. o \in Known => o \in log[o.msg.clock.node]
    BY DEF Inv, Informed
  <2>2. o \in Op
    BY <1>1, <1>2, KnownType
  <2>3. o.msg.clock.node \in Node
    BY <2>2, OpFields DEF SeqClock
  <2> QED BY <1>2, <2>1, <2>3
<1>5. ASSUME NEW k \in Node, NEW o \in log'[k] PROVE Past(hlc'[k], wall'[k], o.msg.clock)
  BY <1>2, <1>3
<1> QED BY <1>4, <1>5 DEF Informed

LEMMA WriteInv ==
  ASSUME Inv, TypeOK', NEW n \in Node, NEW op \in Op, Prepared(n, op), LocalWrite(n, op)
  PROVE  Inv'
<1>1. /\ TypeOK /\ TickRoom(n) /\ Apply(n, op) /\ wall' = wall
      /\ hlc' = [hlc EXCEPT ![n] = Tick(hlc[n], wall[n])]
  BY DEF Inv, LocalWrite
<1>2. /\ hlc[n] \in HLC /\ wall[n] \in Nat /\ HasRoom(hlc[n], wall[n])
      /\ hlc'[n] = Tick(hlc[n], wall[n]) /\ hlc'[n] \in HLC
      /\ \A p \in Node \ {n} : hlc'[p] = hlc[p]
  BY <1>1, NextStampType DEF TypeOK, TickRoom, HasRoom
<1>3. Consistent(Known')
  BY <1>1, PreparedIsNew, ApplyEffect
<1>4. IndexMeans'
  BY <1>1, <1>3, ApplyKeepsMeaning
<1>5. \A c \in SeqClock : Past(hlc[n], wall[n], c) => Past(hlc'[n], wall[n], c)
  BY <1>2, TickKeepsPast
<1>6. Past(hlc'[n], wall[n], op.msg.clock) /\ op.msg.clock.node = n
  BY <1>2, StampIsPast DEF Prepared, NextStamp, Stamp
<1>7. Informed'
  BY <1>1, <1>2, <1>5, <1>6, ApplyKeepsInformed
<1> QED BY <1>3, <1>4, <1>7 DEF Inv

LEMMA MergeInv ==
  ASSUME ~ TiesPossible, Inv, TypeOK', NEW n \in Node, NEW op \in Known, MergeOp(n, op)
  PROVE  Inv'
<1> DEFINE r == op.msg.clock
<1>1. /\ TypeOK /\ TickRoom(n) /\ Apply(n, op) /\ wall' = wall
      /\ hlc' = [hlc EXCEPT ![n] = Receive(hlc[n], r, wall[n])]
      /\ r.counter + 1 < CounterModulus /\ ~ Tie(n, r)
  BY DEF Inv, MergeOp
<1>2. op \in Op /\ r \in SeqClock
  BY <1>1, KnownType, OpFields
<1>3. /\ hlc[n] \in HLC /\ wall[n] \in Nat /\ HasRoom(hlc[n], wall[n])
      /\ hlc'[n] = Receive(hlc[n], r, wall[n])
      /\ \A p \in Node \ {n} : hlc'[p] = hlc[p]
      /\ ~ (r.wall = wall[n] /\ hlc[n].wall < wall[n])
  BY <1>1, <1>2 DEF TypeOK, TickRoom, HasRoom, Tie
<1> HIDE DEF r
<1>4. Known' = Known
  <2>1. Known' = Known \cup {op}
    BY <1>1, <1>2, ApplyEffect
  <2> QED BY <2>1
<1>5. Consistent(Known')
  BY <1>4 DEF Inv
<1>6. IndexMeans'
  BY <1>1, <1>2, <1>5, ApplyKeepsMeaning
<1>7. \A c \in SeqClock : Past(hlc[n], wall[n], c) => Past(hlc'[n], wall[n], c)
  BY <1>1, <1>2, <1>3, ReceiveKeepsPast
<1>8. Past(hlc'[n], wall[n], r)
  BY <1>1, <1>2, <1>3, ReceivedIsPast
<1>9. Informed'
  BY <1>1, <1>2, <1>3, <1>7, <1>8, ApplyKeepsInformed DEF r
<1> QED BY <1>5, <1>6, <1>9 DEF Inv

\* Time passing makes more clocks past.
LEMMA AdvanceInv ==
  ASSUME Inv, TypeOK', NEW n \in Node, AdvanceWall(n)
  PROVE  Inv'
<1>1. /\ TypeOK /\ UNCHANGED <<hlc, index, log>>
      /\ wall'[n] = wall[n] + 1 /\ \A p \in Node \ {n} : wall'[p] = wall[p]
  BY DEF Inv, AdvanceWall, TypeOK
<1>2. Known' = Known /\ Consistent(Known')
  BY <1>1 DEF Known, Inv
<1>3. IndexMeans'
  BY <1>1 DEF Inv, IndexMeans, Means, Deletes, IsNewest, Logged
<1>4. ASSUME NEW p \in Node, NEW o \in log[p] PROVE Past(hlc[p], wall'[p], o.msg.clock)
  <2>1. Past(hlc[p], wall[p], o.msg.clock) /\ o.msg.clock \in SeqClock
    BY <1>1, OpFields DEF Inv, Informed, TypeOK
  <2>2. wall[p] \in Nat /\ (wall'[p] = wall[p] \/ wall'[p] = wall[p] + 1)
    BY <1>1 DEF TypeOK
  <2>3. o.msg.clock.wall \in Nat
    BY <2>1, ClockFields
  <2>4. o.msg.clock.wall < wall[p] => o.msg.clock.wall < wall'[p]
    BY <2>2, <2>3
  <2> QED BY <2>1, <2>4 DEF Past
<1>5. Informed'
  BY <1>1, <1>2, <1>4 DEF Inv, Informed
<1> QED BY <1>2, <1>3, <1>5 DEF Inv

LEMMA InvariantInv ==
  ASSUME ~ TiesPossible
  PROVE  Spec => []Inv
<1>1. Inv /\ [Next]_vars /\ TypeOK' => Inv'
  <2> SUFFICES ASSUME Inv, [Next]_vars, TypeOK' PROVE Inv'
    OBVIOUS
  <2>1. TypeOK
    BY DEF Inv
  <2>2. CASE UNCHANGED vars
    <3>1. UNCHANGED <<wall, hlc, index, log>> /\ Known' = Known
      BY <2>2 DEF vars, Known
    <3> QED BY <3>1 DEF Inv, TypeOK, Informed, IndexMeans, Means, Deletes, IsNewest, Logged
  <2> QED BY <2>1, <2>2, StepKinds, WriteInv, MergeInv, AdvanceInv
<1> QED BY <1>1, InitInv, ReplicasTyped, PTL DEF Spec

----------------------------------------------------------------------------
\* What the invariant gives, when no replica meets a tie.

\* What a replica shows is the order-free outcome of its log.
ShowsOutcome ==
  \A n \in Node : Shown[n] = [m \in MsgId |-> Promise!Outcome(log[n], m)]

LEMMA ShownIsOutcome == Inv => ShowsOutcome
<1> SUFFICES ASSUME Inv, NEW n \in Node, NEW m \in MsgId
             PROVE  Visible(index[n][m]) = Promise!Outcome(log[n], m)
  BY DEF Shown, ShowsOutcome
<1> DEFINE ops == Logged(n, m)
           e == index[n][m]
<1>1. Means(ops, e) /\ ops \in SUBSET Known /\ Consistent(Known)
  BY EntryOfLog DEF Inv
<1>2. ops = Promise!On(log[n], m)
  BY DEF Logged, Promise!On
<1> HIDE DEF ops, e
<1>3. \A o \in ops : o \in Op /\ Clean(o) /\ o.msg # Absent
  BY <1>1, OpFields DEF Consistent
<1>4. CASE ops = {}
  <2>1. e = Absent
    BY <1>1, <1>4 DEF Means
  <2> QED BY <1>2, <1>4, <2>1 DEF Promise!Outcome, Visible, IsDeleted, e
<1>5. CASE Deletes(ops)
  <2> DEFINE o == CHOOSE op \in ops : op.kind = "tombstone"
  <2>1. o \in ops /\ o.kind = "tombstone"
    BY <1>5 DEF Deletes
  <2>2. Promise!Outcome(log[n], m) = Promise!Visible(o.msg)
    BY <1>2, <1>5, <2>1 DEF Promise!Outcome, Deletes
  <2> HIDE DEF o
  <2>3. IsDeleted(o.msg) /\ IsDeleted(e) /\ e.author = o.msg.author
    BY <1>1, <1>3, <1>5, <2>1 DEF Clean, WellFormed, IsDeleted, Means
  <2>4. Visible(e) = Promise!Visible(o.msg)
    BY <2>3 DEF Visible, IsDeleted, Promise!Visible, Promise!IsDeleted
  <2> QED BY <2>2, <2>4 DEF e
<1>6. CASE ops # {} /\ ~ Deletes(ops)
  <2>1. PICK o \in ops : IsNewest(ops, o) /\ e = o.msg
    BY <1>1, <1>6 DEF Means
  <2>2. o = CHOOSE op \in ops : \A other \in ops : AtMost(other.msg.clock, op.msg.clock)
    <3> DEFINE P(op) == \A other \in ops : AtMost(other.msg.clock, op.msg.clock)
    <3>1. P(o)
      BY <2>1 DEF IsNewest
    <3>2. \A op \in ops : P(op) => op = o
      BY <1>1, <2>1, NewestUnique DEF IsNewest
    <3> QED BY <3>1, <3>2
  <2>3. o = Promise!Newest(ops)
    BY <2>2 DEF Promise!Newest, Promise!AtMost, Promise!Before, AtMost, Before
  <2>4. Promise!Outcome(log[n], m) = o.msg
    BY <1>2, <1>6, <2>3 DEF Promise!Outcome, Deletes
  <2>5. ~ IsDeleted(e)
    BY <1>3, <1>6, <2>1 DEF Deletes, Clean, IsDeleted
  <2> QED BY <2>1, <2>4, <2>5 DEF Visible, e
<1> QED BY <1>4, <1>5, <1>6

\* Replicas that merged the same operations, in whatever orders, show the same
\* messages (MergeOps, mergeOps).
THEOREM ReplicasConverge ==
  ASSUME ~ TiesPossible
  PROVE  Spec => []Convergence
<1>1. Inv => Convergence
  <2> SUFFICES ASSUME Inv, NEW n \in Node, NEW p \in Node, log[n] = log[p]
               PROVE  Shown[n] = Shown[p]
    BY DEF Convergence
  <2>1. /\ Shown[n] = [m \in MsgId |-> Promise!Outcome(log[n], m)]
        /\ Shown[p] = [m \in MsgId |-> Promise!Outcome(log[p], m)]
    BY ShownIsOutcome DEF ShowsOutcome
  <2> QED BY <2>1
<1> QED BY <1>1, InvariantInv, PTL

----------------------------------------------------------------------------
\* The refinement: a write or a merge is a Learn, everything else a stutter.
LEMMA InitRefines == Init => Promise!AInit
<1> SUFFICES ASSUME Init PROVE Promise!AInit
  OBVIOUS
<1>1. Shown = [n \in Node |-> [m \in MsgId |-> Absent]]
  BY DEF Init, Shown, Visible, IsDeleted
<1> QED BY <1>1 DEF Init, Promise!AInit

LEMMA ApplyIsLearn ==
  ASSUME TypeOK, ShowsOutcome', NEW n \in Node, NEW op \in Op, Apply(n, op)
  PROVE  Promise!ANext
<1>1. /\ index' = [index EXCEPT ![n] = ApplyToIndex(@, op)]
      /\ log' = [log EXCEPT ![n] = @ \cup {op}]
      /\ log'[n] = log[n] \cup {op}
      /\ \A p \in Node \ {n} : index'[p] = index[p]
  BY ApplyEffect DEF Apply
<1>2. Shown'[n] = [m \in MsgId |-> Promise!Outcome(log'[n], m)]
  BY DEF ShowsOutcome
<1>3. \A p \in Node \ {n} : Shown'[p] = Shown[p]
  BY <1>1 DEF Shown
<1>4. Shown' = [Shown EXCEPT ![n] = [m \in MsgId |-> Promise!Outcome(log'[n], m)]]
  BY <1>2, <1>3 DEF Shown
<1>5. Promise!Learn(n, op)
  BY <1>1, <1>4 DEF Promise!Learn
<1> QED BY <1>1, <1>5 DEF Promise!ANext

\* The replicas implement ConvergentMessages: what each shows is at every moment
\* the outcome of the set of operations that it has merged.
THEOREM ReplicasKeepThePromise ==
  ASSUME ~ TiesPossible
  PROVE  Spec => ImplementsPromise
<1>1. Inv /\ ShowsOutcome' /\ [Next]_vars => [Promise!ANext]_Promise!avars
  <2> SUFFICES ASSUME Inv, ShowsOutcome', [Next]_vars PROVE [Promise!ANext]_Promise!avars
    OBVIOUS
  <2>1. TypeOK
    BY DEF Inv
  <2>2. ASSUME UNCHANGED <<index, log>> PROVE UNCHANGED Promise!avars
    BY <2>2 DEF Promise!avars, Shown
  <2>3. ASSUME NEW n \in Node, NEW op \in Op, Apply(n, op) PROVE Promise!ANext
    BY <2>1, <2>3, ApplyIsLearn
  <2> QED BY <2>1, <2>2, <2>3, StepKinds, KnownType DEF LocalWrite, MergeOp, AdvanceWall, vars
<1> QED BY <1>1, InitRefines, InvariantInv, ShownIsOutcome, PTL DEF Spec, ImplementsPromise, Promise!ASpec

============================================================================
