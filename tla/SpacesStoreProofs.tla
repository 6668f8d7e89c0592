-------------------------- MODULE SpacesStoreProofs ------------------------
(***************************************************************************)
(* Theorems about SpacesStore, for any number of messages, users, replicas *)
(* and milliseconds, any batches that peers and clients may push, and any  *)
(* pattern of failing writes and restarts.                                 *)
(*                                                                         *)
(* The argument has three layers, each an inductive invariant:             *)
(*   Inv       types, tidy entries, and who owns the batch being merged;   *)
(*   ClockInv  every clock the store holds is past for the store's clock,  *)
(*             when received clocks are behind physical time;              *)
(*   AckInv    the durable rows keep what was acknowledged, when no peer   *)
(*             sends back an operation on a message minted here.           *)
(* Under the same assumption on peers, and none on clocks, LogInv says     *)
(* what the op-log has of each acknowledged write, and so what a replay of *)
(* it shows.                                                               *)
(***************************************************************************)
EXTENDS SpacesStore, MessageCRDTProofs, FiniteSetTheorems, WellFoundedInduction

----------------------------------------------------------------------------
\* Layer 1.

\* The index of an unknown channel is empty.
Listed == channel = "absent" => \A m \in MsgId : index[m] = Absent

AllTidy ==
  /\ \A m \in MsgId : Tidy(index[m]) /\ Tidy(disk[m])
  /\ \A i \in DOMAIN batch : WellFormed(batch[i])

\* What is left of a user's batch would still pass the validation.
OwnBatch == sender \in User => \A i \in DOMAIN batch : Valid(sender, batch[i])

Inv == TypeOK /\ Listed /\ AllTidy /\ OwnBatch

\* The next operation of a batch, and the rest of it.
LEMMA BatchParts ==
  ASSUME TypeOK, ~ Unlocked
  PROVE  /\ Head(batch) \in Op
         /\ Head(batch) = batch[1]
         /\ 1 \in DOMAIN batch
         /\ Tail(batch) \in Seq(Op)
         /\ \A i \in DOMAIN Tail(batch) : i + 1 \in DOMAIN batch /\ Tail(batch)[i] = batch[i + 1]
BY DEF TypeOK, Unlocked

LEMMA NextStampType ==
  ASSUME TypeOK
  PROVE  Tick(hlc, wall) \in HLC /\ NextStamp \in SeqClock
BY TickType, StampType, SelfAssumption DEF TypeOK, NextStamp

\* Each of the three local mutations is a LocalWrite of a well-formed operation
\* that carries the next stamp, and that the index is ready for.
Prepared(op) ==
  /\ op \in Op
  /\ WellFormed(op)
  /\ op.msg.clock = NextStamp
  /\ \/ op.kind = "append" /\ op.id \in LocalMsg /\ Unused(op.id) /\ channel # "absent"
     \/ op.kind = "edit" /\ index[op.id] # Absent /\ ~ IsDeleted(index[op.id])
     \/ op.kind = "tombstone" /\ index[op.id] # Absent /\ op.msg.body = Cleared
  /\ op.kind # "tombstone" => op.msg.state # "deleted"

LEMMA LocalIsWrite ==
  ASSUME TypeOK, NEW outcome, Local(outcome)
  PROVE  /\ Unlocked /\ TickRoom
         /\ \E op \in Op : Prepared(op) /\ LocalWrite(op, outcome)
<1>1. NextStamp \in SeqClock
  BY NextStampType
<1>2. ASSUME NEW m \in LocalMsg, NEW u \in Member, NEW b \in Body,
             SendMessage(m, u, b, outcome)
      PROVE  Unlocked /\ TickRoom /\ \E op \in Op : Prepared(op) /\ LocalWrite(op, outcome)
  <2> DEFINE op == AppendOp(m, u, b, NextStamp)
  <2>1. op \in Op /\ WellFormed(op)
    BY <1>1, AppendOpType, LocalMsgAssumption, MemberAssumption
  <2>2. Prepared(op)
    BY <1>2, <2>1 DEF SendMessage, Prepared, AppendOp
  <2> QED BY <1>2, <2>1, <2>2 DEF SendMessage
<1>3. ASSUME NEW m \in MsgId, NEW b \in Body, EditMessage(m, b, outcome)
      PROVE  Unlocked /\ TickRoom /\ \E op \in Op : Prepared(op) /\ LocalWrite(op, outcome)
  <2> DEFINE op == EditOp(m, index[m], b, NextStamp)
  <2>1. index[m] \in Message
    BY <1>3 DEF TypeOK, Entry, EditMessage
  <2>2. op \in Op /\ WellFormed(op)
    BY <1>1, <2>1, EditOpType
  <2>3. op.kind = "edit" /\ op.id = m /\ op.msg.clock = NextStamp /\ op.msg.state = "edited"
    BY <2>1 DEF EditOp, Message
  <2>4. Prepared(op)
    BY <1>3, <2>2, <2>3 DEF EditMessage, Prepared, IsDeleted
  <2> QED BY <1>3, <2>2, <2>4 DEF EditMessage
<1>4. ASSUME NEW m \in MsgId, DeleteMessage(m, outcome)
      PROVE  Unlocked /\ TickRoom /\ \E op \in Op : Prepared(op) /\ LocalWrite(op, outcome)
  <2> DEFINE op == TombstoneOp(m, index[m], NextStamp)
  <2>1. index[m] \in Message
    BY <1>4 DEF TypeOK, Entry, DeleteMessage
  <2>2. op \in Op /\ WellFormed(op)
    BY <1>1, <2>1, TombstoneOpType
  <2>3. op.kind = "tombstone" /\ op.id = m /\ op.msg.clock = NextStamp /\ op.msg.body = Cleared
    BY <2>1 DEF TombstoneOp, Message
  <2>4. Prepared(op)
    BY <1>4, <2>2, <2>3 DEF DeleteMessage, Prepared
  <2> QED BY <1>4, <2>2, <2>4 DEF DeleteMessage
<1> QED BY <1>2, <1>3, <1>4 DEF Local

\* What every applyLocal does to the entries, local or remote.
LEMMA ApplyLocalEntries ==
  ASSUME TypeOK, NEW op \in Op, NEW outcome, ApplyLocal(op, outcome)
  PROVE  /\ index' \in [MsgId -> Entry] /\ disk' \in [MsgId -> Entry] /\ log' \subseteq Op
         /\ index'[op.id] = Merge(index[op.id], op)
         /\ disk'[op.id] \in {disk[op.id], op.msg}
         /\ outcome = "ok" => disk'[op.id] = op.msg
         /\ \A m \in MsgId \ {op.id} : index'[m] = index[m] /\ disk'[m] = disk[m]
<1>1. op.id \in MsgId /\ op.msg \in Entry
  BY OpFields DEF Entry
<1>2. index \in [MsgId -> Entry] /\ disk \in [MsgId -> Entry] /\ log \subseteq Op
  BY DEF TypeOK
<1>3. /\ index' \in [MsgId -> Entry]
      /\ index'[op.id] = Merge(index[op.id], op)
      /\ \A m \in MsgId \ {op.id} : index'[m] = index[m]
  BY <1>2, ApplyToIndexOthers DEF ApplyLocal
<1> QED BY <1>1, <1>2, <1>3 DEF ApplyLocal, Persist
----------------------------------------------------------------------------
\* Layer 1 is inductive.
LEMMA InitInv == Init => Inv
<1> SUFFICES ASSUME Init PROVE Inv
  OBVIOUS
<1>1. TypeOK
  BY NewHLCType DEF Init, TypeOK, Empty, Entry
<1>2. Listed /\ AllTidy /\ OwnBatch
  BY DEF Init, Listed, AllTidy, OwnBatch, Empty, Tidy, IsDeleted, Valid
<1> QED BY <1>1, <1>2 DEF Inv

LEMMA LocalInv ==
  ASSUME Inv, NEW outcome, Local(outcome)
  PROVE  Inv'
<1>1. TypeOK
  BY DEF Inv
<1>2. PICK op \in Op : Prepared(op) /\ LocalWrite(op, outcome)
  BY <1>1, LocalIsWrite
<1>3. Unlocked
  BY <1>1, LocalIsWrite
<1>4. ApplyLocal(op, outcome)
  BY <1>2 DEF LocalWrite
<1>5. /\ index' \in [MsgId -> Entry] /\ disk' \in [MsgId -> Entry] /\ log' \subseteq Op
      /\ index'[op.id] = Merge(index[op.id], op)
      /\ disk'[op.id] \in {disk[op.id], op.msg}
      /\ \A m \in MsgId \ {op.id} : index'[m] = index[m] /\ disk'[m] = disk[m]
  BY <1>1, <1>4, ApplyLocalEntries
<1>6. op.id \in MsgId /\ op.msg \in Message
  BY OpFields
<1>7. TypeOK'
  <2>1. hlc' \in HLC
    BY <1>1, <1>2, NextStampType DEF LocalWrite
  <2>2. acked' \in [MsgId -> Entry]
    BY <1>1, <1>2, <1>6 DEF LocalWrite, TypeOK, Entry
  <2> QED BY <1>1, <1>2, <1>5, <2>1, <2>2 DEF LocalWrite, TypeOK
<1>8. Listed'
  <2>1. channel # "absent"
    BY <1>2, <1>6 DEF Inv, Listed, Prepared
  <2> QED BY <1>2, <2>1 DEF Listed, LocalWrite
<1>9. AllTidy'
  <2>1. Tidy(index[op.id]) /\ WellFormed(op)
    BY <1>2, <1>6 DEF Inv, AllTidy, Prepared
  <2>2. Tidy(index'[op.id])
    BY <1>1, <1>5, <1>6, <2>1, MergeTidy DEF TypeOK
  <2>3. Tidy(op.msg)
    BY <2>1 DEF Tidy, IsDeleted, WellFormed
  <2>4. \A m \in MsgId : Tidy(index'[m]) /\ Tidy(disk'[m])
    BY <1>5, <2>2, <2>3 DEF Inv, AllTidy
  <2> QED BY <1>2, <2>4 DEF Inv, AllTidy, LocalWrite
<1>10. OwnBatch'
  BY <1>2, <1>3 DEF OwnBatch, Unlocked, LocalWrite
<1> QED BY <1>7, <1>8, <1>9, <1>10 DEF Inv

LEMMA ApplyRemoteInv ==
  ASSUME Inv, NEW outcome, ApplyRemote(outcome)
  PROVE  Inv'
<1> DEFINE op == Head(batch)
<1>1. TypeOK /\ ~ Unlocked
  BY DEF Inv, ApplyRemote
<1>2. /\ op \in Op /\ op = batch[1] /\ 1 \in DOMAIN batch
      /\ Tail(batch) \in Seq(Op)
      /\ \A i \in DOMAIN Tail(batch) : i + 1 \in DOMAIN batch /\ Tail(batch)[i] = batch[i + 1]
  BY <1>1, BatchParts
<1>3. ApplyLocal(op, outcome)
  BY DEF ApplyRemote
<1> HIDE DEF op
<1>4. /\ index' \in [MsgId -> Entry] /\ disk' \in [MsgId -> Entry] /\ log' \subseteq Op
      /\ index'[op.id] = Merge(index[op.id], op)
      /\ disk'[op.id] \in {disk[op.id], op.msg}
      /\ \A m \in MsgId \ {op.id} : index'[m] = index[m] /\ disk'[m] = disk[m]
  BY <1>1, <1>2, <1>3, ApplyLocalEntries
<1>5. op.id \in MsgId /\ op.msg \in Message /\ op.msg.clock \in SeqClock
  BY <1>2, OpFields
<1>6. batch' \in Seq(Op) /\ (batch' = Tail(batch) \/ batch' = <<>>)
  BY <1>2 DEF ApplyRemote
<1>7. \A i \in DOMAIN batch' : i + 1 \in DOMAIN batch /\ batch'[i] = batch[i + 1]
  <2>1. CASE batch' = Tail(batch)
    BY <1>2, <2>1
  <2>2. CASE batch' = <<>>
    BY <2>2
  <2> QED BY <1>6, <2>1, <2>2
<1>8. TypeOK'
  <2>1. hlc' \in HLC
    BY <1>1, <1>5, ReceiveType DEF ApplyRemote, TypeOK, op
  <2>2. channel' \in {"absent", "skeleton", "saved"}
    BY <1>1 DEF ApplyRemote, EnsureChannel, TypeOK
  <2> QED BY <1>1, <1>4, <1>6, <2>1, <2>2 DEF ApplyRemote, TypeOK
<1>9. Listed'
  BY DEF ApplyRemote, EnsureChannel, Listed
<1>10. AllTidy'
  <2>1. Tidy(index[op.id]) /\ WellFormed(op)
    BY <1>2, <1>5 DEF Inv, AllTidy
  <2>2. Tidy(index'[op.id])
    BY <1>1, <1>2, <1>4, <1>5, <2>1, MergeTidy DEF TypeOK
  <2>3. Tidy(op.msg)
    BY <2>1 DEF Tidy, IsDeleted, WellFormed
  <2>4. \A m \in MsgId : Tidy(index'[m]) /\ Tidy(disk'[m])
    BY <1>4, <2>2, <2>3 DEF Inv, AllTidy
  <2> QED BY <1>7, <2>4 DEF Inv, AllTidy
<1>11. OwnBatch'
  <2> SUFFICES ASSUME sender' \in User, NEW i \in DOMAIN batch'
               PROVE  /\ batch'[i].msg.author = sender'
                      /\ index'[batch'[i].id] # Absent =>
                           index'[batch'[i].id].author \in {sender', NoAuthor}
    BY DEF OwnBatch, Valid
  <2>1. sender' = sender /\ sender \in User
    BY DEF ApplyRemote
  <2>2. Valid(sender, op) /\ Valid(sender, batch[i + 1]) /\ batch'[i] = batch[i + 1]
    BY <1>2, <1>7, <2>1 DEF Inv, OwnBatch
  <2>3. index'[op.id] # Absent => index'[op.id].author \in {sender, NoAuthor}
    <3>1. index[op.id] \in Entry
      BY <1>1, <1>5 DEF TypeOK
    <3> QED BY <1>2, <1>4, <2>2, <3>1, MergeKeepsAuthor DEF Valid
  <2>4. batch[i + 1].id \in MsgId
    BY <1>1, <1>7, OpFields DEF TypeOK
  <2>5. index'[batch[i + 1].id] # Absent =>
          index'[batch[i + 1].id].author \in {sender, NoAuthor}
    BY <1>4, <2>2, <2>3, <2>4 DEF Valid
  <2> QED BY <2>1, <2>2, <2>5 DEF Valid
<1> QED BY <1>8, <1>9, <1>10, <1>11 DEF Inv

LEMMA InvInductive == Inv /\ [Next]_vars => Inv'
<1> SUFFICES ASSUME Inv, [Next]_vars PROVE Inv'
  OBVIOUS
<1>1. CASE CreateChannelWithID
  <2>1. TypeOK'
    BY <1>1 DEF CreateChannelWithID, Inv, TypeOK, Empty, Entry
  <2>2. Listed' /\ AllTidy'
    BY <1>1 DEF CreateChannelWithID, Inv, Listed, AllTidy, Empty, Tidy, IsDeleted
  <2>3. OwnBatch'
    BY <1>1 DEF CreateChannelWithID, OwnBatch, Unlocked
  <2> QED BY <2>1, <2>2, <2>3 DEF Inv
<1>2. ASSUME NEW outcome \in Outcomes, Local(outcome) PROVE Inv'
  BY <1>2, LocalInv
<1>3. ASSUME NEW ops \in FabricBatches, MergeOps(ops) PROVE Inv'
  <2>1. TypeOK'
    BY <1>3, BatchesAssumption DEF MergeOps, Inv, TypeOK
  <2>2. Listed' /\ AllTidy'
    BY <1>3, PeersAssumption DEF MergeOps, Inv, Listed, AllTidy
  <2>3. OwnBatch'
    BY <1>3, AbsentUserAssumption DEF MergeOps, OwnBatch
  <2> QED BY <2>1, <2>2, <2>3 DEF Inv
<1>4. ASSUME NEW r \in RestBatches, MergeOpsAs(r[1], r[2]) PROVE Inv'
  <2>1. r[1] \in User /\ r[2] \in Seq(Op)
    BY BatchesAssumption
  <2>2. TypeOK'
    BY <1>4, <2>1 DEF MergeOpsAs, Inv, TypeOK
  <2>3. Listed' /\ AllTidy'
    BY <1>4, PeersAssumption DEF MergeOpsAs, Inv, Listed, AllTidy
  <2>4. OwnBatch'
    BY <1>4 DEF MergeOpsAs, OwnBatch, Valid
  <2> QED BY <2>2, <2>3, <2>4 DEF Inv
<1>5. ASSUME NEW outcome \in Outcomes, ApplyRemote(outcome) PROVE Inv'
  BY <1>5, ApplyRemoteInv
<1>6. CASE RejectRemote
  <2>1. TypeOK /\ ~ Unlocked
    BY <1>6 DEF Inv, RejectRemote
  <2>2. hlc' \in HLC
    BY <1>6, <2>1, BatchParts, OpFields, ReceiveType DEF RejectRemote, TypeOK
  <2>3. TypeOK'
    BY <1>6, <2>1, <2>2 DEF RejectRemote, EnsureChannel, TypeOK
  <2>4. Listed' /\ AllTidy' /\ OwnBatch'
    BY <1>6 DEF RejectRemote, EnsureChannel, Inv, Listed, AllTidy, OwnBatch
  <2> QED BY <2>3, <2>4 DEF Inv
<1>7. CASE AdvanceWall
  BY <1>7 DEF AdvanceWall, Inv, TypeOK, Listed, AllTidy, OwnBatch, Valid
<1>8. CASE Restart
  <2>1. TypeOK'
    BY <1>8, NewHLCType DEF Restart, Load, Empty, Inv, TypeOK, Entry
  <2>2. Listed' /\ AllTidy'
    BY <1>8 DEF Restart, Load, Empty, Inv, Listed, AllTidy, Tidy, IsDeleted
  <2>3. OwnBatch'
    BY <1>8 DEF Restart, OwnBatch
  <2> QED BY <2>1, <2>2, <2>3 DEF Inv
<1>9. CASE UNCHANGED vars
  BY <1>9 DEF vars, Inv, TypeOK, Listed, AllTidy, OwnBatch, Valid
<1> QED BY <1>1, <1>2, <1>3, <1>4, <1>5, <1>6, <1>7, <1>8, <1>9 DEF Next, Remote

THEOREM InvariantInv == Spec => []Inv
BY InitInv, InvInductive, PTL DEF Spec

\* The store keeps its types: whatever is merged, the clock, the index, the rows
\* and the log are what the store may hold (SpacesStore and its hlc).
THEOREM TypeCorrect == Spec => []TypeOK
<1>1. Inv => TypeOK
  BY DEF Inv
<1> QED BY <1>1, InvariantInv, PTL
----------------------------------------------------------------------------
\* What follows from layer 1 alone.

\* The index only changes by merging well-formed operations, or by a restart.
LEMMA IndexSteps ==
  ASSUME Inv, [Next]_vars, ~ Restarted, NEW m \in MsgId
  PROVE  \/ index'[m] = index[m]
         \/ \E op \in Op : WellFormed(op) /\ index'[m] = Merge(index[m], op)
<1>1. ASSUME NEW op \in Op, NEW outcome, ApplyLocal(op, outcome), WellFormed(op)
      PROVE  \/ index'[m] = index[m]
             \/ WellFormed(op) /\ index'[m] = Merge(index[m], op)
  BY <1>1, ApplyLocalEntries DEF Inv
<1>2. CASE CreateChannelWithID
  BY <1>2 DEF CreateChannelWithID, Inv, Listed, Empty
<1>3. ASSUME NEW outcome \in Outcomes, Local(outcome)
      PROVE  \/ index'[m] = index[m]
             \/ \E op \in Op : WellFormed(op) /\ index'[m] = Merge(index[m], op)
  BY <1>1, <1>3, LocalIsWrite DEF Inv, Prepared, LocalWrite
<1>4. CASE Remote
  <2>1. ASSUME NEW outcome \in Outcomes, ApplyRemote(outcome)
        PROVE  \E op \in Op : WellFormed(op) /\ ApplyLocal(op, outcome)
    <3>1. Head(batch) \in Op /\ WellFormed(Head(batch))
      BY <2>1, BatchParts DEF ApplyRemote, Inv, AllTidy
    <3> QED BY <2>1, <3>1 DEF ApplyRemote
  <2> QED BY <1>1, <1>4, <2>1 DEF Remote, MergeOps, MergeOpsAs, RejectRemote
<1>5. CASE AdvanceWall \/ Restart \/ UNCHANGED vars
  BY <1>5 DEF AdvanceWall, Restart, Restarted, vars
<1> QED BY <1>2, <1>3, <1>4, <1>5 DEF Next

\* A deleted message stays deleted and without text until the process restarts,
\* whatever is merged, in any order, and whichever writes fail (applyToIndex).
THEOREM DeletedStaysDeleted == Spec => DeletedIsTerminal
<1>1. ASSUME Inv, [Next]_vars, ~ Restarted, NEW m \in MsgId PROVE StaysDeleted(m)
  <2>1. index[m] \in Entry /\ Tidy(index[m])
    BY <1>1 DEF Inv, TypeOK, AllTidy
  <2>2. CASE index'[m] = index[m]
    BY <2>1, <2>2 DEF StaysDeleted, Tidy
  <2>3. ASSUME NEW op \in Op, WellFormed(op), index'[m] = Merge(index[m], op)
        PROVE  StaysDeleted(m)
    BY <2>1, <2>3, MergeKeepsDeleted, MergeTidy DEF StaysDeleted, Tidy
  <2> QED BY <1>1, <2>2, <2>3, IndexSteps
<1>2. Inv /\ [Next]_vars => [Restarted \/ \A m \in MsgId : StaysDeleted(m)]_vars
  BY <1>1
<1> QED BY <1>2, InvariantInv, PTL DEF Spec, DeletedIsTerminal

\* The clock of a listed message never goes back, so no late or repeated
\* operation re-orders what a reader has seen (applyToIndex).
THEOREM ListedClocksAdvance == Spec => ClocksOnlyAdvance
<1>1. ASSUME Inv, [Next]_vars, ~ Restarted, NEW m \in MsgId PROVE KeepsClock(m)
  <2>1. index[m] \in Entry
    BY <1>1 DEF Inv, TypeOK
  <2>2. CASE index'[m] = index[m]
    BY <2>2 DEF KeepsClock, AtMost
  <2>3. ASSUME NEW op \in Op, index'[m] = Merge(index[m], op)
        PROVE  KeepsClock(m)
    BY <2>1, <2>3, MergeAdvances, AbsentAssumption DEF KeepsClock, Entry
  <2> QED BY <1>1, <2>2, <2>3, IndexSteps
<1>2. Inv /\ [Next]_vars => [Restarted \/ \A m \in MsgId : KeepsClock(m)]_vars
  BY <1>1
<1> QED BY <1>2, InvariantInv, PTL DEF Spec, ClocksOnlyAdvance

OwnMessage(m) ==
  /\ index[m] # Absent => index[m].author \in {sender, NoAuthor}
  /\ index'[m].author = sender \/ (index[m] # Absent /\ index'[m].author = index[m].author)

\* A client's batch changes messages of that client and messages without an author only: the validation made
\* before the first operation still holds at the last one (MergeOpsAs).
THEOREM BatchStaysOwn == Spec => OnlyOwnMessagesMerged
<1>1. ASSUME Inv, [Next]_vars, Merging, NEW m \in MsgId, index'[m] # index[m]
      PROVE  OwnMessage(m)
  <2>1. ASSUME NEW outcome \in Outcomes, ApplyRemote(outcome)
        PROVE  OwnMessage(m)
    <3> DEFINE op == Head(batch)
    <3>1. op \in Op /\ op = batch[1] /\ 1 \in DOMAIN batch
      BY <1>1, BatchParts DEF Inv, Merging
    <3>2. Valid(sender, op)
      BY <1>1, <3>1 DEF Inv, OwnBatch, Merging
    <3>3. /\ index'[op.id] = Merge(index[op.id], op)
          /\ \A k \in MsgId \ {op.id} : index'[k] = index[k]
      BY <1>1, <2>1, <3>1, ApplyLocalEntries DEF Inv, ApplyRemote
    <3>4. m = op.id /\ index[m] \in Entry
      BY <1>1, <3>3 DEF Inv, TypeOK
    <3>5. index'[m] # Absent
      BY <1>1, <3>1, <3>3, <3>4, MergeAdvances, AbsentAssumption DEF Entry
    <3> HIDE DEF op
    <3> QED BY <3>1, <3>2, <3>3, <3>4, <3>5, MergeKeepsAuthor DEF OwnMessage, Valid
  <2>2. ASSUME NEW outcome, Local(outcome) PROVE FALSE
    BY <1>1, <2>2, LocalIsWrite DEF Inv, Merging
  <2>3. CASE AdvanceWall \/ Restart \/ UNCHANGED vars \/ CreateChannelWithID
    BY <1>1, <2>3
       DEF AdvanceWall, Restart, vars, CreateChannelWithID, Merging, Restarted
  <2> QED BY <1>1, <2>1, <2>2, <2>3 DEF Next, Remote, MergeOps, MergeOpsAs, RejectRemote
<1>2. Inv /\ [Next]_vars =>
        [Merging => \A m \in MsgId : index'[m] # index[m] =>
           /\ index[m] # Absent => index[m].author \in {sender, NoAuthor}
           /\ index'[m].author = sender \/ (index[m] # Absent /\ index'[m].author = index[m].author)
        ]_vars
  BY <1>1 DEF OwnMessage
<1> QED BY <1>2, InvariantInv, PTL DEF Spec, OnlyOwnMessagesMerged
----------------------------------------------------------------------------
\* Layer 2: clocks, when what peers send is older than this host's millisecond.
PeersBehind == PeerLead < 0

EntryPast(e) == e # Absent => Past(hlc, wall, e.clock)

ClockInv ==
  /\ hlc.wall <= wall
  /\ \A i \in DOMAIN batch : batch[i].msg.clock.wall < wall
  /\ \A m \in MsgId : EntryPast(index[m]) /\ EntryPast(disk[m]) /\ EntryPast(acked[m])

\* Applying an operation whose clock is past for the new clock keeps every
\* entry past, provided that the clock did not forget what it had reached.
LEMMA ApplyKeepsPast ==
  ASSUME Inv, ClockInv, NEW op \in Op, NEW outcome, ApplyLocal(op, outcome),
         wall' = wall, Past(hlc', wall, op.msg.clock),
         \A c \in SeqClock : Past(hlc, wall, c) => Past(hlc', wall, c)
  PROVE  \A m \in MsgId : EntryPast(index[m])' /\ EntryPast(disk[m])'
<1> SUFFICES ASSUME NEW m \in MsgId PROVE EntryPast(index[m])' /\ EntryPast(disk[m])'
  OBVIOUS
<1>1. /\ index'[op.id] = Merge(index[op.id], op)
      /\ disk'[op.id] \in {disk[op.id], op.msg}
      /\ \A k \in MsgId \ {op.id} : index'[k] = index[k] /\ disk'[k] = disk[k]
  BY ApplyLocalEntries DEF Inv
<1>2. index[m] \in Entry /\ disk[m] \in Entry
  BY DEF Inv, TypeOK
<1>3. ASSUME NEW e \in Entry, EntryPast(e), e # Absent PROVE Past(hlc', wall, e.clock)
  BY <1>3 DEF EntryPast, Entry, Message
<1>4. EntryPast(index[m]) /\ EntryPast(disk[m])
  BY DEF ClockInv
<1>5. index'[m] # Absent => Past(hlc', wall, index'[m].clock)
  BY <1>1, <1>2, <1>3, <1>4, MergeClock
<1>6. disk'[m] # Absent => Past(hlc', wall, disk'[m].clock)
  BY <1>1, <1>2, <1>3, <1>4
<1> QED BY <1>5, <1>6 DEF EntryPast

LEMMA InitClockInv == Init => ClockInv
BY DEF Init, ClockInv, EntryPast, Empty, NewHLC

LEMMA LocalClockInv ==
  ASSUME Inv, ClockInv, NEW outcome, Local(outcome)
  PROVE  ClockInv'
<1>1. TypeOK /\ wall \in Nat /\ hlc \in HLC /\ batch = <<>>
  BY LocalIsWrite DEF Inv, TypeOK, Unlocked
<1>2. PICK op \in Op : Prepared(op) /\ LocalWrite(op, outcome)
  BY <1>1, LocalIsWrite
<1>3. HasRoom(hlc, wall)
  BY <1>1, LocalIsWrite DEF TickRoom, HasRoom
<1>4. hlc' = Tick(hlc, wall) /\ hlc' \in HLC /\ wall' = wall /\ batch' = <<>>
  BY <1>1, <1>2, NextStampType DEF LocalWrite
<1>5. \A c \in SeqClock : Past(hlc, wall, c) => Past(hlc', wall, c)
  BY <1>1, <1>3, <1>4, TickKeepsPast
<1>6. Past(hlc', wall, op.msg.clock)
  BY <1>1, <1>2, <1>4, StampIsPast, SelfAssumption DEF Prepared, NextStamp
<1>7. \A m \in MsgId : EntryPast(index[m])' /\ EntryPast(disk[m])'
  BY <1>2, <1>4, <1>5, <1>6, ApplyKeepsPast DEF LocalWrite
<1>8. \A m \in MsgId : EntryPast(acked[m])'
  <2> SUFFICES ASSUME NEW m \in MsgId, acked'[m] # Absent
               PROVE  Past(hlc', wall, acked'[m].clock)
    BY <1>4 DEF EntryPast
  <2>1. CASE acked'[m] = acked[m]
    <3>1. Past(hlc, wall, acked[m].clock) /\ acked[m].clock \in SeqClock
      BY <1>1, <2>1 DEF ClockInv, EntryPast, TypeOK, Entry, Message
    <3> QED BY <1>5, <2>1, <3>1
  <2>2. CASE acked'[m] = op.msg
    BY <1>6, <2>2
  <2> QED BY <1>1, <1>2, <2>1, <2>2 DEF LocalWrite, TypeOK
<1>9. hlc'.wall <= wall'
  BY <1>1, <1>4, TickStaysBehind DEF ClockInv
<1> QED BY <1>4, <1>7, <1>8, <1>9 DEF ClockInv

LEMMA ApplyRemoteClockInv ==
  ASSUME Inv, ClockInv, NEW outcome, ApplyRemote(outcome)
  PROVE  ClockInv'
<1> DEFINE op == Head(batch)
<1>1. TypeOK /\ ~ Unlocked /\ wall \in Nat /\ hlc \in HLC
  BY DEF Inv, TypeOK, ApplyRemote
<1>2. /\ op \in Op /\ op = batch[1] /\ 1 \in DOMAIN batch
      /\ \A i \in DOMAIN Tail(batch) : i + 1 \in DOMAIN batch /\ Tail(batch)[i] = batch[i + 1]
  BY <1>1, BatchParts
<1>3. /\ ApplyLocal(op, outcome) /\ wall' = wall /\ acked' = acked
      /\ hlc' = Receive(hlc, op.msg.clock, wall)
      /\ HasRoom(hlc, wall) /\ op.msg.clock.counter + 1 < CounterModulus
  BY DEF ApplyRemote, ReceiveRoom, TickRoom, HasRoom
<1>4. \A i \in DOMAIN batch' : batch'[i].msg.clock.wall < wall'
  <2>1. CASE batch' = Tail(batch)
    BY <1>2, <1>3, <2>1 DEF ClockInv
  <2>2. CASE batch' = <<>>
    BY <2>2
  <2> QED BY <2>1, <2>2 DEF ApplyRemote
<1>5. op.msg.clock \in SeqClock /\ op.msg.clock.wall < wall
  BY <1>2, OpFields DEF ClockInv
<1> HIDE DEF op
<1>6. \A c \in SeqClock : Past(hlc, wall, c) => Past(hlc', wall, c)
  BY <1>1, <1>3, <1>5, ReceiveKeepsPast
<1>7. \A m \in MsgId : EntryPast(index[m])' /\ EntryPast(disk[m])'
  <2>1. Past(hlc', wall, op.msg.clock)
    BY <1>5 DEF Past
  <2> QED BY <1>2, <1>3, <1>6, <2>1, ApplyKeepsPast
<1>8. \A m \in MsgId : EntryPast(acked[m])'
  BY <1>1, <1>3, <1>6 DEF ClockInv, EntryPast, TypeOK, Entry, Message
<1>9. hlc'.wall <= wall'
  BY <1>1, <1>3, <1>5, ReceiveStaysBehind DEF ClockInv, SeqClock
<1> QED BY <1>4, <1>7, <1>8, <1>9 DEF ClockInv
LEMMA ClockInvInductive ==
  ASSUME PeersBehind, Inv, ClockInv, [Next]_vars
  PROVE  ClockInv'
<1>1. TypeOK /\ wall \in Nat /\ hlc \in HLC
  BY DEF Inv, TypeOK
<1>2. ASSUME NEW outcome \in Outcomes, Local(outcome) PROVE ClockInv'
  BY <1>2, LocalClockInv
<1>3. ASSUME NEW outcome \in Outcomes, ApplyRemote(outcome) PROVE ClockInv'
  BY <1>3, ApplyRemoteClockInv
<1>4. ASSUME NEW ops \in Seq(Op), Plausible(ops)
      PROVE  \A i \in DOMAIN ops : ops[i].msg.clock.wall < wall
  <2> SUFFICES ASSUME NEW i \in DOMAIN ops PROVE ops[i].msg.clock.wall < wall
    OBVIOUS
  <2>1. ops[i].msg.clock.wall \in Nat /\ ops[i].msg.clock.wall <= wall + PeerLead
    BY <1>4, OpFields DEF Plausible, SeqClock
  <2> QED BY <1>1, <2>1, PeerLeadAssumption DEF PeersBehind
<1>5. ASSUME NEW ops \in FabricBatches, MergeOps(ops) PROVE ClockInv'
  BY <1>4, <1>5, BatchesAssumption DEF MergeOps, ClockInv, EntryPast
<1>6. ASSUME NEW r \in RestBatches, MergeOpsAs(r[1], r[2]) PROVE ClockInv'
  <2>1. r[2] \in Seq(Op)
    BY BatchesAssumption
  <2> QED BY <1>4, <1>6, <2>1 DEF MergeOpsAs, ClockInv, EntryPast
<1>7. CASE RejectRemote
  <2> DEFINE r == Head(batch).msg.clock
  <2>1. r \in SeqClock /\ r.wall < wall /\ r.counter + 1 < CounterModulus
    BY <1>1, <1>7, BatchParts, OpFields DEF RejectRemote, ReceiveRoom, ClockInv
  <2>2. HasRoom(hlc, wall) /\ hlc' = Receive(hlc, r, wall) /\ wall' = wall
    BY <1>7 DEF RejectRemote, ReceiveRoom, TickRoom, HasRoom
  <2> HIDE DEF r
  <2>3. \A c \in SeqClock : Past(hlc, wall, c) => Past(hlc', wall', c)
    BY <1>1, <2>1, <2>2, ReceiveKeepsPast
  <2>4. \A e \in Entry : EntryPast(e) => (e # Absent => Past(hlc', wall', e.clock))
    BY <2>3 DEF EntryPast, Entry, Message
  <2>5. \A m \in MsgId : EntryPast(index[m])' /\ EntryPast(disk[m])' /\ EntryPast(acked[m])'
    BY <1>1, <1>7, <2>4 DEF RejectRemote, ClockInv, EntryPast, TypeOK
  <2>6. hlc'.wall <= wall'
    BY <1>1, <2>1, <2>2, ReceiveStaysBehind DEF ClockInv, SeqClock
  <2> QED BY <1>7, <2>5, <2>6 DEF RejectRemote, ClockInv
<1>8. ASSUME wall' = wall + 1, hlc' = hlc \/ hlc' = NewHLC
      PROVE  /\ hlc'.wall <= wall'
             /\ \A e \in Entry : EntryPast(e) => (e # Absent => Past(hlc', wall', e.clock))
  <2>1. hlc'.wall <= wall'
    BY <1>1, <1>8 DEF NewHLC, HLC, ClockInv
  <2>2. ASSUME NEW e \in Entry, EntryPast(e), e # Absent
        PROVE  Past(hlc', wall', e.clock)
    <3>1. e.clock \in SeqClock
      BY <2>2 DEF Entry, Message
    <3>2. e.clock.wall <= wall
      BY <1>1, <2>2, <3>1 DEF EntryPast, Past, Reached, ClockInv, HLC, SeqClock
    <3> QED BY <1>1, <1>8, <3>1, <3>2 DEF Past, SeqClock
  <2> QED BY <2>1, <2>2
<1>9. CASE AdvanceWall
  <2>1. \A m \in MsgId : index[m] \in Entry /\ disk[m] \in Entry /\ acked[m] \in Entry
    BY <1>1 DEF TypeOK
  <2>2. \A m \in MsgId : EntryPast(index[m])' /\ EntryPast(disk[m])' /\ EntryPast(acked[m])'
    BY <1>8, <1>9, <2>1 DEF AdvanceWall, ClockInv, EntryPast
  <2>3. \A i \in DOMAIN batch : batch[i].msg.clock.wall < wall'
    <3>1. \A i \in DOMAIN batch : batch[i].msg.clock.wall \in Nat
      BY <1>1, OpFields DEF TypeOK, SeqClock
    <3> QED BY <1>1, <1>9, <3>1 DEF AdvanceWall, ClockInv
  <2> QED BY <1>8, <1>9, <2>2, <2>3 DEF AdvanceWall, ClockInv
<1>10. CASE Restart
  <2>1. \A m \in MsgId : index'[m] = Absent \/ index'[m] = disk[m]
    BY <1>10 DEF Restart, Load, Empty
  <2>2. \A m \in MsgId : index[m] \in Entry /\ disk[m] \in Entry /\ acked[m] \in Entry
    BY <1>1 DEF TypeOK
  <2>3. \A m \in MsgId : EntryPast(index[m])' /\ EntryPast(disk[m])' /\ EntryPast(acked[m])'
    BY <1>8, <1>10, <2>1, <2>2 DEF Restart, ClockInv, EntryPast
  <2> QED BY <1>8, <1>10, <2>3 DEF Restart, ClockInv
<1>11. CASE CreateChannelWithID \/ UNCHANGED vars
  BY <1>11 DEF CreateChannelWithID, vars, ClockInv, EntryPast, Empty
<1> QED BY <1>2, <1>3, <1>5, <1>6, <1>7, <1>9, <1>10, <1>11 DEF Next, Remote

THEOREM InvariantClockInv ==
  ASSUME PeersBehind
  PROVE  Spec => [](Inv /\ ClockInv)
<1>1. Init => Inv /\ ClockInv
  BY InitInv, InitClockInv
<1>2. Inv /\ ClockInv /\ [Next]_vars => (Inv /\ ClockInv)'
  BY InvInductive, ClockInvInductive
<1> QED BY <1>1, <1>2, PTL DEF Spec

\* Only a local write is acknowledged; it carries the next stamp.
LEMMA AckSteps ==
  ASSUME TypeOK, [Next]_vars, NEW m \in MsgId, acked'[m] # acked[m]
  PROVE  /\ TickRoom
         /\ \E op \in Op : /\ Prepared(op)
                           /\ LocalWrite(op, "ok")
                           /\ op.id = m /\ acked'[m] = op.msg
<1>1. ASSUME NEW outcome, Local(outcome)
      PROVE  /\ TickRoom
             /\ \E op \in Op : /\ Prepared(op)
                               /\ LocalWrite(op, "ok")
                               /\ op.id = m /\ acked'[m] = op.msg
  BY <1>1, LocalIsWrite DEF LocalWrite, TypeOK
<1> QED BY <1>1 DEF Next, Remote, MergeOps, MergeOpsAs, ApplyRemote, RejectRemote,
                    AdvanceWall, Restart, CreateChannelWithID, vars

\* Whatever is past has a clock before the next stamp.
LEMMA PastIsBefore ==
  ASSUME TypeOK, TickRoom, NEW e \in Entry, EntryPast(e), e # Absent
  PROVE  Before(e.clock, NextStamp)
BY TickIssuesLater, SelfAssumption
   DEF TickRoom, HasRoom, EntryPast, NextStamp, TypeOK, Entry, Message

\* Acknowledged writes have increasing clocks, restarts included, although a
\* restart puts the clock back to zero (Tick, Receive, Open).
THEOREM AckedWritesOrdered ==
  ASSUME PeersBehind
  PROVE  Spec => LocalWritesOrdered
<1>1. ASSUME Inv, ClockInv, [Next]_vars, NEW m \in MsgId, acked'[m] # acked[m]
      PROVE  IsNewest(m)
  <2>1. TypeOK /\ TickRoom /\ acked'[m].clock = NextStamp
    BY <1>1, AckSteps DEF Inv, Prepared
  <2> QED BY <1>1, <2>1, PastIsBefore DEF IsNewest, ClockInv, TypeOK
<1>2. Inv /\ ClockInv /\ [Next]_vars =>
        [\A m \in MsgId : acked'[m] # acked[m] => IsNewest(m)]_vars
  BY <1>1
<1> QED BY <1>2, InvariantClockInv, PTL DEF Spec, LocalWritesOrdered

\* A write that reported success is what the index shows: last-writer-wins never
\* drops an edit made here (EditMessage, applyToIndex).
THEOREM AckedWriteTakesEffect ==
  ASSUME PeersBehind
  PROVE  Spec => LocalWriteTakesEffect
<1>1. ASSUME Inv, ClockInv, [Next]_vars, NEW m \in MsgId, acked'[m] # acked[m]
      PROVE  TakesEffect(m)
  <2>1. TypeOK /\ TickRoom
    BY <1>1, AckSteps DEF Inv
  <2>2. PICK op \in Op : /\ Prepared(op) /\ LocalWrite(op, "ok")
                         /\ op.id = m /\ acked'[m] = op.msg
    BY <1>1, <2>1, AckSteps
  <2>3. index'[m] = Merge(index[m], op) /\ op.msg \in Message /\ op.msg # Absent
    BY <2>1, <2>2, ApplyLocalEntries, OpFields DEF LocalWrite
  <2>4. index[m] \in Entry /\ EntryPast(index[m])
    BY <1>1, <2>1 DEF TypeOK, ClockInv
  <2>5. index[m] # Absent => Before(index[m].clock, op.msg.clock)
    BY <2>1, <2>2, <2>4, PastIsBefore DEF Prepared
  <2>6. CASE op.kind = "append"
    BY <2>2, <2>3, <2>6 DEF Prepared, Unused, Merge, MergeAppend, TakesEffect
  <2>7. CASE op.kind = "edit"
    BY <2>2, <2>3, <2>5, <2>7 DEF Prepared, IsDeleted, Merge, MergeEdit, TakesEffect
  <2>8. CASE op.kind = "tombstone"
    <3>1. index[m] \in Message /\ index[m] # Absent
      BY <2>2, <2>4, <2>8 DEF Prepared, Entry
    <3>2. op.msg.state = "deleted" /\ op.msg.body = Cleared
      BY <2>2, <2>8 DEF Prepared, WellFormed
    <3>3. index'[m] = MergeTombstone(index[m], op.msg)
      BY <2>3, <2>8 DEF Merge
    <3>4. Later(index[m].clock, op.msg.clock) = op.msg.clock
      BY <2>5, <3>1 DEF Later
    <3> QED BY <2>2, <2>3, <3>1, <3>2, <3>3, <3>4, MergeTombstoneOfMessage, AbsentAssumption
            DEF TakesEffect
  <2> QED BY <2>2, <2>6, <2>7, <2>8 DEF Prepared
<1>2. Inv /\ ClockInv /\ [Next]_vars =>
        [\A m \in MsgId : acked'[m] # acked[m] => TakesEffect(m)]_vars
  BY <1>1
<1> QED BY <1>2, InvariantClockInv, PTL DEF Spec, LocalWriteTakesEffect
----------------------------------------------------------------------------
\* Layer 3: durability, when no peer sends back an operation on a message that
\* was minted here (MCSpacesStoreRedelivery.cfg shows why this is needed).
NoRedelivery ==
  /\ \A ops \in FabricBatches : \A i \in DOMAIN ops : ops[i].id \notin LocalMsg
  /\ \A r \in RestBatches : \A i \in DOMAIN r[2] : r[2][i].id \notin LocalMsg

DeletionListed(m) == IsDeleted(acked[m]) /\ index[m] # Absent => IsDeleted(index[m])

AckInv ==
  /\ \A i \in DOMAIN batch : batch[i].id \notin LocalMsg
  /\ \A m \in LocalMsg : KeepsAcked(m) /\ DeletionListed(m)

LEMMA InitAckInv == Init => AckInv
BY LocalMsgAssumption DEF Init, AckInv, KeepsAcked, DeletionListed, IsDeleted, Empty

LEMMA LocalAckInv ==
  ASSUME Inv, ClockInv, AckInv, NEW outcome, Local(outcome), NEW m \in LocalMsg
  PROVE  KeepsAcked(m)' /\ DeletionListed(m)'
<1>1. TypeOK /\ TickRoom /\ m \in MsgId
  BY LocalIsWrite, LocalMsgAssumption DEF Inv
<1>2. PICK op \in Op : Prepared(op) /\ LocalWrite(op, outcome)
  BY <1>1, LocalIsWrite
<1>3. /\ index'[op.id] = Merge(index[op.id], op)
      /\ disk'[op.id] \in {disk[op.id], op.msg}
      /\ outcome = "ok" => disk'[op.id] = op.msg
      /\ \A k \in MsgId \ {op.id} : index'[k] = index[k] /\ disk'[k] = disk[k]
  BY <1>1, <1>2, ApplyLocalEntries DEF LocalWrite
<1>4. acked'[m] = acked[m] \/ (m = op.id /\ outcome = "ok" /\ acked'[m] = op.msg)
  BY <1>1, <1>2 DEF LocalWrite, TypeOK
<1>5. KeepsAcked(m) /\ DeletionListed(m)
  BY DEF AckInv
<1>6. CASE m # op.id
  BY <1>1, <1>3, <1>4, <1>5, <1>6 DEF KeepsAcked, DeletionListed
<1>7. CASE m = op.id /\ outcome = "ok" /\ acked'[m] = op.msg
  <2>1. KeepsAcked(m)'
    BY <1>3, <1>7, OpFields DEF KeepsAcked, AtMost
  <2>2. ASSUME IsDeleted(op.msg) PROVE IsDeleted(index'[m])
    <3>1. op.kind = "tombstone" /\ index[m] \in Message
      BY <1>1, <1>2, <1>7, <2>2 DEF Prepared, IsDeleted, TypeOK, Entry
    <3>2. index'[m] = MergeTombstone(index[m], op.msg)
      BY <1>3, <1>7, <3>1 DEF Merge
    <3> QED BY <3>1, <3>2, MergeTombstoneOfMessage, OpFields, AbsentAssumption DEF IsDeleted
  <2> QED BY <1>7, <2>1, <2>2 DEF DeletionListed
<1>8. CASE m = op.id /\ acked'[m] = acked[m]
  <2>1. CASE acked[m] = Absent
    BY <1>8, <2>1 DEF KeepsAcked, DeletionListed, IsDeleted
  <2>2. CASE acked[m] # Absent
    <3>1. op.kind # "append" /\ index[m] # Absent
      BY <1>2, <1>5, <1>8, <2>2 DEF KeepsAcked, Prepared, Unused
    <3>2. acked[m] \in Entry /\ index[m] \in Entry /\ EntryPast(acked[m])
      BY <1>1 DEF TypeOK, ClockInv
    <3>3. Before(acked[m].clock, op.msg.clock)
      BY <1>1, <1>2, <2>2, <3>2, PastIsBefore DEF Prepared
    <3>4. IsDeleted(acked[m]) => IsDeleted(op.msg) /\ IsDeleted(index'[m])
      <4> SUFFICES ASSUME IsDeleted(acked[m])
                   PROVE  IsDeleted(op.msg) /\ IsDeleted(index'[m])
        OBVIOUS
      <4>1. IsDeleted(index[m])
        BY <1>5, <3>1 DEF DeletionListed
      <4>2. op.kind = "tombstone"
        BY <1>2, <1>8, <3>1, <4>1 DEF Prepared
      <4>3. IsDeleted(op.msg)
        BY <1>2, <4>2, OpFields DEF Prepared, WellFormed, IsDeleted
      <4> QED BY <1>3, <1>8, <3>2, <4>1, <4>3, MergeKeepsDeleted
    <3>5. KeepsAcked(m)'
      BY <1>3, <1>5, <1>8, <2>2, <3>3, <3>4, OpFields DEF KeepsAcked, AtMost
    <3> QED BY <1>8, <3>4, <3>5 DEF DeletionListed
  <2> QED BY <2>1, <2>2
<1> QED BY <1>4, <1>6, <1>7, <1>8

LEMMA AckInvInductive ==
  ASSUME NoRedelivery, Inv, ClockInv, AckInv, [Next]_vars
  PROVE  AckInv'
<1>1. ASSUME NEW outcome, Local(outcome) PROVE AckInv'
  <2>1. batch' = batch
    BY <1>1, LocalIsWrite DEF Inv, LocalWrite
  <2>2. \A m \in LocalMsg : KeepsAcked(m)' /\ DeletionListed(m)'
    BY <1>1, LocalAckInv
  <2> QED BY <2>1, <2>2 DEF AckInv
<1>2. ASSUME NEW outcome \in Outcomes, ApplyRemote(outcome) PROVE AckInv'
  <2> DEFINE op == Head(batch)
  <2>1. /\ op \in Op /\ op = batch[1] /\ 1 \in DOMAIN batch
        /\ \A i \in DOMAIN Tail(batch) : i + 1 \in DOMAIN batch /\ Tail(batch)[i] = batch[i + 1]
    BY <1>2, BatchParts DEF Inv, ApplyRemote
  <2>2. op.id \notin LocalMsg
    BY <2>1 DEF AckInv
  <2>3. \A m \in MsgId \ {op.id} : index'[m] = index[m] /\ disk'[m] = disk[m]
    BY <1>2, <2>1, ApplyLocalEntries DEF ApplyRemote, Inv
  <2>4. \A m \in LocalMsg : index'[m] = index[m] /\ disk'[m] = disk[m] /\ acked' = acked
    BY <1>2, <2>2, <2>3, LocalMsgAssumption DEF ApplyRemote
  <2>5. \A m \in LocalMsg : KeepsAcked(m)' /\ DeletionListed(m)'
    BY <2>4 DEF AckInv, KeepsAcked, DeletionListed
  <2>6. \A i \in DOMAIN batch' : batch'[i].id \notin LocalMsg
    <3>1. CASE batch' = Tail(batch)
      BY <2>1, <3>1 DEF AckInv
    <3>2. CASE batch' = <<>>
      BY <3>2
    <3> QED BY <1>2, <3>1, <3>2 DEF ApplyRemote
  <2> QED BY <2>5, <2>6 DEF AckInv
<1>3. ASSUME NEW ops \in FabricBatches, MergeOps(ops) PROVE AckInv'
  BY <1>3 DEF MergeOps, NoRedelivery, AckInv, KeepsAcked, DeletionListed
<1>4. ASSUME NEW r \in RestBatches, MergeOpsAs(r[1], r[2]) PROVE AckInv'
  BY <1>4 DEF MergeOpsAs, NoRedelivery, AckInv, KeepsAcked, DeletionListed
<1>5. CASE Restart
  <2>1. \A m \in LocalMsg : index'[m] = Absent \/ index'[m] = disk[m]
    BY <1>5, LocalMsgAssumption DEF Restart, Load, Empty
  <2>2. disk' = disk /\ acked' = acked /\ batch' = <<>>
    BY <1>5 DEF Restart
  <2>3. ASSUME NEW m \in LocalMsg PROVE KeepsAcked(m)' /\ DeletionListed(m)'
    <3>1. KeepsAcked(m)
      BY DEF AckInv
    <3>2. KeepsAcked(m)'
      BY <2>2, <3>1 DEF KeepsAcked
    <3>3. DeletionListed(m)'
      BY <2>1, <2>2, <3>1 DEF KeepsAcked, DeletionListed, IsDeleted
    <3> QED BY <3>2, <3>3
  <2>4. \A i \in DOMAIN batch' : batch'[i].id \notin LocalMsg
    BY <2>2
  <2> QED BY <2>3, <2>4 DEF AckInv
<1>6. CASE CreateChannelWithID
  BY <1>6, LocalMsgAssumption
     DEF CreateChannelWithID, AckInv, KeepsAcked, DeletionListed, Empty
<1>7. CASE RejectRemote \/ AdvanceWall \/ UNCHANGED vars
  BY <1>7 DEF RejectRemote, AdvanceWall, vars, AckInv, KeepsAcked, DeletionListed
<1> QED BY <1>1, <1>2, <1>3, <1>4, <1>5, <1>6, <1>7 DEF Next, Remote

\* What a client was told is written survives failing writes and restarts at
\* any point: the row is never older than the last acknowledged write, and an
\* acknowledged deletion stays (applyLocal, load).
THEOREM AckedWritesSurvive ==
  ASSUME PeersBehind, NoRedelivery
  PROVE  Spec => []AckedSurvives
<1> DEFINE IInv == Inv /\ ClockInv /\ AckInv
<1>1. Init => IInv
  BY InitInv, InitClockInv, InitAckInv
<1>2. IInv /\ [Next]_vars => IInv'
  BY InvInductive, ClockInvInductive, AckInvInductive
<1>3. IInv => AckedSurvives
  BY DEF AckInv, AckedSurvives
<1> HIDE DEF IInv
<1> QED BY <1>1, <1>2, <1>3, PTL DEF Spec

----------------------------------------------------------------------------
\* The op-log, under NoRedelivery.

\* The operation of an acknowledged write is logged; as long as it is the append
\* itself, the log has no other operation on the message.
Logged(m) ==
  \E op \in log :
    /\ op.id = m /\ op.msg = acked[m]
    /\ \/ op.kind = "edit" /\ ~ IsDeleted(acked[m])
       \/ op.kind = "tombstone" /\ IsDeleted(acked[m])
       \/ op.kind = "append" /\ ~ IsDeleted(acked[m]) /\ m \in LocalMsg
          /\ \A p \in log : p.id = m => p = op

LogInv ==
  /\ \A i \in DOMAIN batch : batch[i].id \notin LocalMsg
  /\ \A m \in MsgId : acked[m] # Absent => Logged(m)

LEMMA InitLogInv == Init => LogInv
BY DEF Init, LogInv, Empty

LEMMA LogInvInductive ==
  ASSUME NoRedelivery, Inv, LogInv, [Next]_vars
  PROVE  LogInv'
<1>1. TypeOK
  BY DEF Inv
<1>2. CASE UNCHANGED <<log, acked>> /\ batch' \in {batch, <<>>}
  BY <1>2 DEF LogInv, Logged
<1>3. ASSUME NEW ops \in Seq(Op), UNCHANGED <<log, acked>>, batch' = ops,
             \A i \in DOMAIN ops : ops[i].id \notin LocalMsg
      PROVE  LogInv'
  BY <1>3 DEF LogInv, Logged
<1>4. ASSUME NEW outcome, Local(outcome) PROVE LogInv'
  <2>1. PICK op \in Op : Prepared(op) /\ LocalWrite(op, outcome)
    BY <1>1, <1>4, LocalIsWrite
  <2>2. CASE outcome # "ok"
    BY <2>1, <2>2, <1>2 DEF LocalWrite, ApplyLocal, Persist
  <2>3. CASE outcome = "ok"
    <3>1. log' = log \cup {op} /\ acked' = [acked EXCEPT ![op.id] = op.msg] /\ batch' = batch
      BY <2>1, <2>3 DEF LocalWrite, ApplyLocal, Persist
    <3>2. op.id \in MsgId /\ op.msg \in Message /\ op.msg # Absent
      BY OpFields
    <3>3. acked'[op.id] = op.msg /\ \A m \in MsgId \ {op.id} : acked'[m] = acked[m]
      BY <1>1, <3>1, <3>2 DEF TypeOK
    <3>4. Logged(op.id)'
      <4>1. op.kind = "tombstone" => IsDeleted(op.msg)
        BY <2>1, <3>2 DEF Prepared, WellFormed, IsDeleted
      <4>2. op.kind # "tombstone" => ~ IsDeleted(op.msg)
        BY <2>1 DEF Prepared, IsDeleted
      <4>3. op.kind = "append" => op.id \in LocalMsg /\ \A p \in log' : p.id = op.id => p = op
        BY <2>1, <3>1 DEF Prepared, Unused
      <4>4. op \in log' /\ op.kind \in {"append", "edit", "tombstone"}
        BY <2>1, <3>1 DEF Prepared
      <4> QED BY <3>3, <4>1, <4>2, <4>3, <4>4 DEF Logged, IsDeleted
    <3>5. ASSUME NEW m \in MsgId \ {op.id}, acked'[m] # Absent PROVE Logged(m)'
      <4>1. Logged(m) /\ acked'[m] = acked[m]
        BY <3>3, <3>5 DEF LogInv
      <4> QED BY <3>1, <3>5, <4>1 DEF Logged, IsDeleted
    <3> QED BY <3>1, <3>4, <3>5 DEF LogInv
  <2> QED BY <2>2, <2>3
<1>5. ASSUME NEW outcome \in Outcomes, ApplyRemote(outcome) PROVE LogInv'
  <2>1. PICK op \in Op : op = Head(batch)
    BY <1>1, <1>5, BatchParts DEF ApplyRemote
  <2>2. op.id \notin LocalMsg
    BY <1>1, <1>5, <2>1, BatchParts DEF ApplyRemote, LogInv
  <2>3. log' \in {log, log \cup {op}} /\ acked' = acked
    BY <1>5, <2>1 DEF ApplyRemote, ApplyLocal, Persist
  <2>4. \A m \in MsgId : Logged(m) => Logged(m)'
    BY <2>2, <2>3 DEF Logged
  <2>5. \A i \in DOMAIN batch' : batch'[i].id \notin LocalMsg
    <3>1. CASE batch' = Tail(batch)
      BY <1>1, <1>5, <3>1, BatchParts DEF LogInv, ApplyRemote
    <3>2. CASE batch' = <<>>
      BY <3>2
    <3> QED BY <1>5, <3>1, <3>2 DEF ApplyRemote
  <2> QED BY <2>3, <2>4, <2>5 DEF LogInv
<1>6. ASSUME NEW ops \in FabricBatches, MergeOps(ops) PROVE LogInv'
  BY <1>3, <1>6, BatchesAssumption DEF MergeOps, NoRedelivery
<1>7. ASSUME NEW r \in RestBatches, MergeOpsAs(r[1], r[2]) PROVE LogInv'
  BY <1>3, <1>7, BatchesAssumption DEF MergeOpsAs, NoRedelivery
<1>8. CASE CreateChannelWithID \/ RejectRemote \/ AdvanceWall \/ Restart \/ UNCHANGED vars
  BY <1>2, <1>8 DEF CreateChannelWithID, RejectRemote, AdvanceWall, Restart, vars
<1> QED BY <1>4, <1>5, <1>6, <1>7, <1>8 DEF Next, Remote

\* What a reader of entry e is not missing of the write w.
SeesWrite(e, w) ==
  /\ e # Absent
  /\ \/ IsDeleted(e)
     \/ ~ IsDeleted(w) /\ AtMost(w.clock, e.clock)

\* Merging more takes nothing away from it.
LEMMA StillSees ==
  ASSUME NEW e \in Entry, NEW w \in Message, SeesWrite(e, w), NEW op \in Op
  PROVE  SeesWrite(Merge(e, op), w)
<1>1. e \in Message /\ Merge(e, op) \in Message /\ AtMost(e.clock, Merge(e, op).clock)
  BY MergeAdvances DEF SeesWrite, Entry
<1>2. Merge(e, op) # Absent
  BY <1>1, AbsentAssumption
<1>3. CASE IsDeleted(e)
  BY <1>2, <1>3, MergeKeepsDeleted DEF SeesWrite
<1>4. CASE ~ IsDeleted(e)
  <2>1. /\ w.clock \in SeqClock /\ e.clock \in SeqClock /\ Merge(e, op).clock \in SeqClock
        /\ ~ IsDeleted(w) /\ AtMost(w.clock, e.clock)
    BY <1>1, <1>4 DEF SeesWrite, Message
  <2>2. AtMost(w.clock, Merge(e, op).clock)
    BY <1>1, <2>1, BeforeTransitive DEF AtMost
  <2> QED BY <1>2, <2>1, <2>2 DEF SeesWrite
<1> QED BY <1>3, <1>4

\* The write's own operation shows it, if an append finds nothing but itself.
LEMMA NowSees ==
  ASSUME NEW e \in Entry, NEW op \in Op,
         \/ op.kind = "edit" /\ ~ IsDeleted(op.msg)
         \/ op.kind = "tombstone" /\ IsDeleted(op.msg)
         \/ op.kind = "append" /\ ~ IsDeleted(op.msg) /\ e \in {Absent, op.msg}
  PROVE  SeesWrite(Merge(e, op), op.msg)
<1>1. op.msg \in Message /\ op.msg # Absent /\ AtMost(op.msg.clock, op.msg.clock)
  BY OpFields DEF AtMost
<1>2. CASE op.kind = "append"
  BY <1>1, <1>2 DEF Merge, MergeAppend, SeesWrite
<1>3. CASE op.kind = "tombstone"
  <2>1. IsDeleted(Merge(e, op)) /\ Merge(e, op) # Absent
    BY <1>1, <1>3, MergeTombstoneOfMessage, AbsentAssumption
       DEF Merge, MergeTombstone, Entry, IsDeleted
  <2> QED BY <2>1 DEF SeesWrite
<1>4. CASE op.kind = "edit"
  <2>1. e # Absent /\ ~ Before(e.clock, op.msg.clock) => AtMost(op.msg.clock, e.clock)
    BY <1>1, BeforeTotal DEF AtMost, Entry, Message
  <2> QED BY <1>1, <1>4, <2>1 DEF Merge, MergeEdit, SeesWrite, IsDeleted
<1> QED BY <1>2, <1>3, <1>4

\* A cold joiner: it has every operation of the log, in some order and possibly more
\* than once, and merges them one after the other into an empty index.
IsReplay(n, order, views) ==
  /\ order \in [1 .. n -> log] /\ \A op \in log : \E i \in 1 .. n : order[i] = op
  /\ views \in [0 .. n -> [MsgId -> Entry]]
  /\ views[0] = Empty
  /\ \A i \in 1 .. n : views[i] = ApplyToIndex(views[i - 1], order[i])

\* The first number with a property.
LEMMA FirstOf ==
  ASSUME NEW S \in SUBSET Nat, S # {}
  PROVE  \E n \in S : \A k \in Nat : k < n => k \notin S
<1>1. PICK n \in S : \A k \in S : ~ <<k, n>> \in OpToRel(<, Nat)
  BY WFMin, NatLessThanWellFounded
<1> QED BY <1>1 DEF OpToRel

\* What each step of a replay makes of an entry.
LEMMA ReplayStep ==
  ASSUME TypeOK, NEW n \in Nat, NEW order, NEW views, IsReplay(n, order, views),
         NEW i \in 1 .. n, NEW m \in MsgId
  PROVE  /\ order[i] \in log /\ order[i] \in Op
         /\ i - 1 \in 0 .. n /\ i \in 0 .. n
         /\ views[i - 1][m] \in Entry /\ views[i][m] \in Entry
         /\ views[i][m] = IF order[i].id = m THEN Merge(views[i - 1][m], order[i])
                                             ELSE views[i - 1][m]
<1>1. i - 1 \in 0 .. n /\ i \in 0 .. n
  OBVIOUS
<1>2. order[i] \in log /\ order[i] \in Op
  BY DEF IsReplay, TypeOK
<1>3. views[i - 1] \in [MsgId -> Entry] /\ views[i] \in [MsgId -> Entry]
      /\ views[i] = ApplyToIndex(views[i - 1], order[i])
  BY <1>1 DEF IsReplay
<1>4. order[i].id \in MsgId
  BY <1>2, OpFields
<1> QED BY <1>1, <1>2, <1>3, <1>4 DEF ApplyToIndex

\* Where the log has nothing but an append of the message, a replay shows nothing else.
LEMMA ReplayOfAppend ==
  ASSUME TypeOK, NEW n \in Nat, NEW order, NEW views, IsReplay(n, order, views),
         NEW m \in MsgId, NEW op \in log, op.kind = "append",
         \A p \in log : p.id = m => p = op
  PROVE  \A i \in 0 .. n : views[i][m] \in {Absent, op.msg}
<1> DEFINE wrong == {i \in 0 .. n : views[i][m] \notin {Absent, op.msg}}
<1> SUFFICES ASSUME wrong # {} PROVE FALSE
  OBVIOUS
<1>1. wrong \in SUBSET Nat
  OBVIOUS
<1>2. PICK i \in wrong : \A k \in Nat : k < i => k \notin wrong
  <2> HIDE DEF wrong
  <2> QED BY <1>1, FirstOf
<1>3. i # 0
  BY DEF IsReplay, Empty
<1>4. i \in 1 .. n /\ i - 1 \in 0 .. n /\ i - 1 < i /\ i - 1 \in Nat
  BY <1>3
<1>5. views[i - 1][m] \in {Absent, op.msg}
  BY <1>2, <1>4
<1>6. views[i][m] \in {views[i - 1][m], Merge(views[i - 1][m], op)}
  BY <1>4, ReplayStep
<1> QED BY <1>5, <1>6 DEF Merge, MergeAppend

\* At its end, a replay shows every acknowledged write, a newer one or a deletion.
LEMMA ReplaySees ==
  ASSUME TypeOK, LogInv, NEW n \in Nat, NEW order, NEW views, IsReplay(n, order, views),
         NEW m \in MsgId, acked[m] # Absent
  PROVE  SeesWrite(views[n][m], acked[m])
<1>1. PICK op \in log :
        /\ op.id = m /\ op.msg = acked[m]
        /\ \/ op.kind = "edit" /\ ~ IsDeleted(acked[m])
           \/ op.kind = "tombstone" /\ IsDeleted(acked[m])
           \/ /\ op.kind = "append" /\ ~ IsDeleted(acked[m])
              /\ \A p \in log : p.id = m => p = op
  BY DEF LogInv, Logged
<1>2. PICK first \in 1 .. n : order[first] = op
  BY DEF IsReplay
<1>3. op \in Op /\ acked[m] \in Message
  BY <1>1, OpFields DEF TypeOK
<1>4. SeesWrite(views[first][m], acked[m])
  <2>1. views[first][m] = Merge(views[first - 1][m], op) /\ views[first - 1][m] \in Entry
        /\ first - 1 \in 0 .. n
    BY <1>1, <1>2, ReplayStep
  <2>2. op.kind = "append" => views[first - 1][m] \in {Absent, op.msg}
    BY <1>1, <2>1, ReplayOfAppend
  <2> QED BY <1>1, <1>3, <2>1, <2>2, NowSees
<1> DEFINE blind == {i \in first .. n : ~ SeesWrite(views[i][m], acked[m])}
<1> SUFFICES ASSUME n \in blind PROVE FALSE
  OBVIOUS
<1>5. blind \in SUBSET Nat /\ blind # {}
  OBVIOUS
<1>6. PICK i \in blind : \A k \in Nat : k < i => k \notin blind
  <2> HIDE DEF blind
  <2> QED BY <1>5, FirstOf
<1>7. i \in 1 .. n /\ i - 1 \in first .. n /\ i - 1 \in Nat /\ i - 1 < i
  BY <1>4, <1>6
<1>8. SeesWrite(views[i - 1][m], acked[m])
  BY <1>6, <1>7
<1>9. SeesWrite(views[i][m], acked[m])
  BY <1>3, <1>7, <1>8, ReplayStep, StillSees
<1> QED BY <1>6, <1>9

\* The op-log alone is enough for a cold joiner, although it misses the operations whose
\* write failed, and in whatever order it is replayed (ExportOps, ListOps): every
\* acknowledged write is shown, a newer one or a deletion, and every acknowledged deletion.
THEOREM ReplaysSeeAcked ==
  ASSUME NoRedelivery
  PROVE  Spec => [](\A n \in Nat : \A order, views : IsReplay(n, order, views) =>
                      \A m \in MsgId : acked[m] # Absent => SeesWrite(views[n][m], acked[m]))
<1>1. Init => Inv /\ LogInv
  BY InitInv, InitLogInv
<1>2. Inv /\ LogInv /\ [Next]_vars => (Inv /\ LogInv)'
  BY InvInductive, LogInvInductive
<1>3. Inv /\ LogInv => \A n \in Nat : \A order, views : IsReplay(n, order, views) =>
        \A m \in MsgId : acked[m] # Absent => SeesWrite(views[n][m], acked[m])
  BY ReplaySees DEF Inv
<1> QED BY <1>1, <1>2, <1>3, PTL DEF Spec

----------------------------------------------------------------------------
\* The replay that the run checks, in the order of ListOps.

\* Each step logs at most one operation, so that the log is finite.
LEMMA LogSteps ==
  ASSUME Inv, [Next]_vars
  PROVE  log' = log \/ \E op : log' = log \cup {op}
<1>1. ASSUME NEW op, NEW outcome, ApplyLocal(op, outcome)
      PROVE  log' = log \/ log' = log \cup {op}
  BY <1>1 DEF ApplyLocal, Persist
<1>2. ASSUME NEW outcome \in Outcomes, Local(outcome)
      PROVE  log' = log \/ \E op : log' = log \cup {op}
  BY <1>1, <1>2, LocalIsWrite DEF Inv, LocalWrite
<1>3. ASSUME NEW outcome \in Outcomes, ApplyRemote(outcome)
      PROVE  log' = log \/ \E op : log' = log \cup {op}
  BY <1>1, <1>3 DEF ApplyRemote
<1>4. CASE UNCHANGED log
  BY <1>4
<1> QED BY <1>2, <1>3, <1>4
       DEF Next, Remote, CreateChannelWithID, MergeOps, MergeOpsAs, RejectRemote,
           AdvanceWall, Restart, vars

LEMMA LogFinite ==
  ASSUME Inv, IsFiniteSet(log), [Next]_vars
  PROVE  IsFiniteSet(log')
BY LogSteps, FS_AddElement

\* Of sets of operations with a property, one has it that is smallest: without any of its
\* elements it would not have the property.
LEMMA Smallest ==
  ASSUME NEW S, IsFiniteSet(S), NEW W \in SUBSET (SUBSET S), W # {}
  PROVE  \E T \in W : \A o \in T : T \ {o} \notin W
<1>1. W \subseteq FiniteSubsetsOf(S)
  BY FS_FiniteSubsetsOfFinite
<1>2. PICK T \in W : \A R \in W : ~ <<R, T>> \in StrictSubsetOrdering(S)
  BY <1>1, FS_StrictSubsetOrderingWellFounded, WFMin
<1>3. ASSUME NEW o \in T, T \ {o} \in W PROVE FALSE
  <2>1. T \ {o} \in SUBSET S /\ T \in SUBSET S /\ T \ {o} \subseteq T /\ T \ {o} # T
    BY <1>3
  <2>2. <<T \ {o}, T>> \in StrictSubsetOrdering(S)
    BY <2>1 DEF StrictSubsetOrdering
  <2> QED BY <1>2, <1>3, <2>2
<1> QED BY <1>3

\* Operations have a last one in the order of ListOps, although two may have the same clock.
LEMMA LastListedExists ==
  ASSUME NEW ops \in SUBSET Op, IsFiniteSet(ops), ops # {}
  PROVE  LastListed(ops) \in ops
<1> DEFINE Last(T, o) == o \in T /\ \A p \in T : ~ Before(o.msg.clock, p.msg.clock)
           endless == {T \in SUBSET ops : T # {} /\ \A o \in T : ~ Last(T, o)}
<1>1. endless = {}
  <2> SUFFICES ASSUME endless # {} PROVE FALSE
    OBVIOUS
  <2>1. PICK T \in endless : \A o \in T : T \ {o} \notin endless
    <3>1. endless \in SUBSET (SUBSET ops)
      OBVIOUS
    <3> HIDE DEF endless
    <3> QED BY <3>1, Smallest
  <2>2. PICK o \in T : TRUE
    OBVIOUS
  <2>3. \A p \in T : p.msg.clock \in SeqClock
    BY OpFields
  <2>4. PICK p \in T : Before(o.msg.clock, p.msg.clock)
    BY <2>2
  <2>5. p # o
    BY <2>3, <2>4, BeforeIrreflexive
  <2>6. T \ {o} \in SUBSET ops /\ T \ {o} # {}
    BY <2>5
  <2>7. PICK q \in T \ {o} : Last(T \ {o}, q)
    BY <2>1, <2>2, <2>6
  <2>8. ~ Last(T, q)
    BY <2>7
  <2>9. Before(q.msg.clock, o.msg.clock)
    BY <2>7, <2>8
  <2>10. Before(q.msg.clock, p.msg.clock)
    BY <2>2, <2>3, <2>4, <2>7, <2>9, BeforeTransitive
  <2> QED BY <2>5, <2>7, <2>10
<1>2. \E o \in ops : Last(ops, o)
  BY <1>1
<1> QED BY <1>2 DEF LastListed

\* The replay of some operations is the replay of all but the last of them, and then the
\* last: the equation of Replay has a solution.
LEMMA ReplayUnfolds ==
  ASSUME TypeOK, IsFiniteSet(log)
  PROVE  \A ops \in SUBSET log :
           Replay[ops] = IF ops = {} THEN Empty
                         ELSE ApplyToIndex(Replay[ops \ {LastListed(ops)}], LastListed(ops))
<1> DEFINE Step(g, T) == IF T = {} THEN Empty
                         ELSE ApplyToIndex(g[T \ {LastListed(T)}], LastListed(T))
           Upto(k) == {T \in SUBSET log : Cardinality(T) <= k}
           Solved(k) == \E g : g = [T \in Upto(k) |-> Step(g, T)]
           unsolved == {k \in Nat : ~ Solved(k)}
<1>1. \A T \in SUBSET log : IsFiniteSet(T) /\ Cardinality(T) \in Nat
  BY FS_Subset, FS_CardinalityType
<1>2. \A T \in SUBSET log : T # {} =>
        /\ LastListed(T) \in T
        /\ T \ {LastListed(T)} \in SUBSET log
        /\ Cardinality(T \ {LastListed(T)}) = Cardinality(T) - 1
        /\ Cardinality(T) # 0
  <2> SUFFICES ASSUME NEW T \in SUBSET log, T # {}
               PROVE  /\ LastListed(T) \in T
                      /\ T \ {LastListed(T)} \in SUBSET log
                      /\ Cardinality(T \ {LastListed(T)}) = Cardinality(T) - 1
                      /\ Cardinality(T) # 0
    OBVIOUS
  <2>1. LastListed(T) \in T
    BY <1>1, LastListedExists DEF TypeOK
  <2> QED BY <1>1, <2>1, FS_RemoveElement, FS_EmptySet
<1>3. unsolved = {}
  <2> SUFFICES ASSUME unsolved # {} PROVE FALSE
    OBVIOUS
  <2>1. PICK k \in unsolved : \A j \in Nat : j < k => j \notin unsolved
    <3>1. unsolved \in SUBSET Nat
      OBVIOUS
    <3> HIDE DEF unsolved
    <3> QED BY <3>1, FirstOf
  <2>2. CASE k = 0
    <3>1. \A T \in Upto(k) : T = {}
      BY <1>1, <2>2, FS_EmptySet
    <3> DEFINE g == [T \in Upto(k) |-> Empty]
    <3>2. g = [T \in Upto(k) |-> Step(g, T)]
      BY <3>1
    <3> QED BY <2>1, <3>2
  <2>3. CASE k # 0
    <3>1. k - 1 \in Nat /\ k - 1 < k
      BY <2>3
    <3>2. PICK h : h = [T \in Upto(k - 1) |-> Step(h, T)]
      BY <2>1, <3>1
    <3> DEFINE g == [T \in Upto(k) |-> Step(h, T)]
    <3>3. ASSUME NEW T \in Upto(k) PROVE Step(h, T) = Step(g, T)
      <4>1. CASE T = {}
        BY <4>1
      <4>2. CASE T # {}
        <5> DEFINE R == T \ {LastListed(T)}
        <5>1. R \in Upto(k - 1) /\ R \in Upto(k)
          BY <1>1, <1>2, <4>2
        <5>2. g[R] = Step(h, R)
          BY <5>1
        <5>3. h[R] = Step(h, R)
          <6> HIDE DEF Step, Upto, R
          <6> QED BY <3>2, <5>1
        <5>4. h[R] = g[R]
          BY <5>2, <5>3
        <5> QED BY <4>2, <5>4
      <4> QED BY <4>1, <4>2
    <3>4. g = [T \in Upto(k) |-> Step(g, T)]
      <4> HIDE DEF Step, Upto
      <4> QED BY <3>3
    <3> QED BY <2>1, <3>4
  <2> QED BY <2>2, <2>3
<1>4. Upto(Cardinality(log)) = SUBSET log
  BY FS_Subset
<1>5. Cardinality(log) \in Nat
  BY FS_CardinalityType
<1>6. \E g : g = [T \in SUBSET log |-> Step(g, T)]
  <2>1. Solved(Cardinality(log))
    BY <1>3, <1>5
  <2>2. \E g : g = [T \in Upto(Cardinality(log)) |-> Step(g, T)]
    BY <2>1
  <2> HIDE DEF Step, Upto
  <2> QED BY <2>2, <1>4
<1>7. Replay = [T \in SUBSET log |-> Step(Replay, T)]
  BY <1>6 DEF Replay
<1> HIDE DEF Step
<1>8. \A T \in SUBSET log : Replay[T] = Step(Replay, T)
  BY <1>7
<1> QED BY <1>8 DEF Step

\* What the last operation makes of an entry.
LEMMA ReplayLast ==
  ASSUME TypeOK, IsFiniteSet(log), NEW T \in SUBSET log, T # {},
         Replay[T \ {LastListed(T)}] \in [MsgId -> Entry], NEW m \in MsgId
  PROVE  LET last == LastListed(T)
             rest == T \ {last}
         IN  /\ last \in T /\ last \in log /\ last \in Op /\ rest \in SUBSET log
             /\ Replay[T] \in [MsgId -> Entry] /\ Replay[rest][m] \in Entry
             /\ Replay[T][m] = IF last.id = m THEN Merge(Replay[rest][m], last)
                                              ELSE Replay[rest][m]
<1> DEFINE last == LastListed(T)
           rest == T \ {last}
<1>1. IsFiniteSet(T) /\ T \in SUBSET Op
  BY FS_Subset DEF TypeOK
<1>2. last \in T
  BY <1>1, LastListedExists
<1>3. Replay[T] = ApplyToIndex(Replay[rest], last)
  BY ReplayUnfolds
<1> HIDE DEF last
<1>4. last \in Op /\ last \in log /\ rest \in SUBSET log /\ last.id \in MsgId
  BY <1>1, <1>2, OpFields
<1>5. Replay[rest] \in [MsgId -> Entry]
  BY DEF last
<1> HIDE DEF rest
<1>6. /\ Replay[T] \in [MsgId -> Entry]
      /\ Replay[T][last.id] = Merge(Replay[rest][last.id], last)
      /\ \A k \in MsgId \ {last.id} : Replay[T][k] = Replay[rest][k]
  BY <1>3, <1>4, <1>5, ApplyToIndexOthers
<1> QED BY <1>2, <1>4, <1>5, <1>6 DEF last, rest

LEMMA ReplayType ==
  ASSUME TypeOK, IsFiniteSet(log)
  PROVE  \A T \in SUBSET log : Replay[T] \in [MsgId -> Entry]
<1> DEFINE wrong == {T \in SUBSET log : Replay[T] \notin [MsgId -> Entry]}
<1> SUFFICES ASSUME wrong # {} PROVE FALSE
  OBVIOUS
<1>1. PICK T \in wrong : \A o \in T : T \ {o} \notin wrong
  <2>1. wrong \in SUBSET (SUBSET log)
    OBVIOUS
  <2> HIDE DEF wrong
  <2> QED BY <2>1, Smallest
<1>2. CASE T = {}
  <2>1. Replay[T] = Empty
    BY <1>2, ReplayUnfolds
  <2> QED BY <1>1, <2>1 DEF Empty, Entry
<1>3. CASE T # {}
  <2>1. IsFiniteSet(T) /\ T \in SUBSET Op
    BY FS_Subset DEF TypeOK
  <2>2. LastListed(T) \in T
    BY <1>3, <2>1, LastListedExists
  <2>3. Replay[T \ {LastListed(T)}] \in [MsgId -> Entry]
    BY <1>1, <2>2
  <2>4. LastListed(T) \in Op /\ Replay[T] = ApplyToIndex(Replay[T \ {LastListed(T)}], LastListed(T))
    BY <1>3, <2>1, <2>2, ReplayUnfolds
  <2> QED BY <1>1, <2>3, <2>4, ApplyToIndexOthers
<1> QED BY <1>2, <1>3

\* Where the log has nothing but an append of the message, the joiner sees nothing else.
LEMMA JoinerOfAppend ==
  ASSUME TypeOK, IsFiniteSet(log), NEW m \in MsgId, NEW op \in log, op.kind = "append",
         \A p \in log : p.id = m => p = op
  PROVE  \A T \in SUBSET log : Replay[T][m] \in {Absent, op.msg}
<1> DEFINE wrong == {T \in SUBSET log : Replay[T][m] \notin {Absent, op.msg}}
<1> SUFFICES ASSUME wrong # {} PROVE FALSE
  OBVIOUS
<1>1. PICK T \in wrong : \A o \in T : T \ {o} \notin wrong
  <2>1. wrong \in SUBSET (SUBSET log)
    OBVIOUS
  <2> HIDE DEF wrong
  <2> QED BY <2>1, Smallest
<1>2. T # {}
  BY <1>1, ReplayUnfolds DEF Empty
<1> DEFINE last == LastListed(T)
           rest == T \ {last}
<1>3. /\ last \in T /\ last \in log /\ rest \in SUBSET log
      /\ Replay[T][m] = IF last.id = m THEN Merge(Replay[rest][m], last) ELSE Replay[rest][m]
  BY <1>1, <1>2, ReplayType, ReplayLast
<1>4. Replay[rest][m] \in {Absent, op.msg}
  BY <1>1, <1>3
<1> HIDE DEF last, rest
<1>5. Replay[T][m] \in {Replay[rest][m], Merge(Replay[rest][m], op)}
  BY <1>3
<1> QED BY <1>1, <1>4, <1>5 DEF Merge, MergeAppend

\* Once the joiner is past the operation of an acknowledged write, it sees the write.
LEMMA JoinerSees ==
  ASSUME TypeOK, LogInv, IsFiniteSet(log), NEW m \in MsgId, acked[m] # Absent
  PROVE  SeesWrite(ColdJoiner[m], acked[m])
<1>1. PICK op \in log :
        /\ op.id = m /\ op.msg = acked[m]
        /\ \/ op.kind = "edit" /\ ~ IsDeleted(acked[m])
           \/ op.kind = "tombstone" /\ IsDeleted(acked[m])
           \/ /\ op.kind = "append" /\ ~ IsDeleted(acked[m])
              /\ \A p \in log : p.id = m => p = op
  BY DEF LogInv, Logged
<1>2. op \in Op /\ acked[m] \in Message
  BY <1>1, OpFields DEF TypeOK
<1> DEFINE blind == {T \in SUBSET log : op \in T /\ ~ SeesWrite(Replay[T][m], acked[m])}
<1> SUFFICES ASSUME blind # {} PROVE FALSE
  BY DEF ColdJoiner
<1>3. PICK T \in blind : \A o \in T : T \ {o} \notin blind
  <2>1. blind \in SUBSET (SUBSET log)
    OBVIOUS
  <2> HIDE DEF blind
  <2> QED BY <2>1, Smallest
<1> DEFINE last == LastListed(T)
           rest == T \ {last}
<1>4. /\ last \in T /\ last \in Op /\ rest \in SUBSET log /\ Replay[rest][m] \in Entry
      /\ Replay[T][m] = IF last.id = m THEN Merge(Replay[rest][m], last) ELSE Replay[rest][m]
  BY <1>3, ReplayType, ReplayLast
<1>5. CASE last = op
  <2>1. op.kind = "append" => Replay[rest][m] \in {Absent, op.msg}
    BY <1>1, <1>4, JoinerOfAppend
  <2> HIDE DEF last, rest
  <2>2. SeesWrite(Merge(Replay[rest][m], op), op.msg)
    BY <1>1, <1>2, <1>4, <2>1, NowSees
  <2> QED BY <1>1, <1>3, <1>4, <1>5, <2>2
<1>6. CASE last # op
  <2>1. op \in rest /\ rest \notin blind
    BY <1>3, <1>4, <1>6
  <2>2. SeesWrite(Replay[rest][m], acked[m])
    BY <1>4, <2>1
  <2> HIDE DEF last, rest
  <2>3. SeesWrite(Merge(Replay[rest][m], last), acked[m])
    BY <1>2, <1>4, <2>2, StillSees
  <2> QED BY <1>3, <1>4, <2>2, <2>3
<1> QED BY <1>5, <1>6

\* The replay of the op-log in the order of ListOps shows every acknowledged write, a
\* newer one or a deletion, and every acknowledged deletion, after any failing writes,
\* restarts and merges, whatever the clocks of the peers (ExportOps).
THEOREM ColdJoinersSeeAcked ==
  ASSUME NoRedelivery
  PROVE  Spec => []ColdJoinerSeesAcked
<1> DEFINE IInv == Inv /\ LogInv /\ IsFiniteSet(log)
<1>1. Init => IInv
  BY InitInv, InitLogInv, FS_EmptySet DEF Init
<1>2. IInv /\ [Next]_vars => IInv'
  BY InvInductive, LogInvInductive, LogFinite
<1>3. IInv => ColdJoinerSeesAcked
  BY JoinerSees DEF Inv, ColdJoinerSeesAcked, SeesWrite
<1> HIDE DEF IInv
<1> QED BY <1>1, <1>2, <1>3, PTL DEF Spec

============================================================================
