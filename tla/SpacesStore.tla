---------------------------- MODULE SpacesStore ----------------------------
(***************************************************************************)
(* One message store of the Talk backend (backend/spaces/store.go, type    *)
(* SpacesStore) over its Persister: the in-memory index, the durable       *)
(* message rows and the durable op-log, local mutations, merges of remote  *)
(* batches, failing writes, and a restart that reloads from the rows.      *)
(*                                                                         *)
(* One channel is modelled: channels share nothing but the clock.  The     *)
(* store's mutex is the guard batch = <<>>: a local mutation is one step,  *)
(* and a merge holds the mutex from its validation to its last operation,  *)
(* one step per operation, so that a crash may fall between two of them.   *)
(***************************************************************************)
EXTENDS MessageCRDT, Sequences

CONSTANTS
  Self,           \* this store's node id
  NoAuthor,       \* the empty account id, which messages of trusted batches may have
  Member,         \* users whom the handlers let write in the channel
  LocalMsg,       \* ids SendMessage may mint; uuids, so no peer mints them
  FabricBatches,  \* op batches a trusted peer may push (MergeOps)
  RestBatches,    \* <<user, batch>> pairs clients may post (MergeOpsAs)
  Outcomes,       \* outcomes of the two durable writes of an operation
  PeerLead,       \* how far a received clock may be ahead of this host's, in ms
  MaxWall         \* bound: the last millisecond considered

ASSUME SelfAssumption == Self \in Node
ASSUME AbsentUserAssumption == Absent \notin User
ASSUME NoAuthorAssumption == NoAuthor \in User
ASSUME MemberAssumption == Member \subseteq User
ASSUME LocalMsgAssumption == LocalMsg \subseteq MsgId
ASSUME BatchesAssumption ==
  /\ FabricBatches \subseteq Seq(Op)
  /\ RestBatches \subseteq User \X Seq(Op)
ASSUME PeersAssumption ==
  /\ \A ops \in FabricBatches : \A i \in DOMAIN ops : WellFormed(ops[i])
  /\ \A r \in RestBatches : \A i \in DOMAIN r[2] : WellFormed(r[2][i])
ASSUME OutcomesAssumption == Outcomes \subseteq {"ok", "save_failed", "log_failed"}
ASSUME PeerLeadAssumption == PeerLead \in Int
ASSUME MaxWallAssumption == MaxWall \in Nat \ {0}

VARIABLES
  wall,     \* time.Now().UnixMilli()
  hlc,      \* clock: the store's hybrid logical clock
  channel,  \* the channel: "absent", a "skeleton" in memory only, or "saved"
  index,    \* messages[channel]: the in-memory index
  disk,     \* the durable rows of messages
  log,      \* the durable op-log, a set: ListOps sorts it and a repeat is idempotent
  batch,    \* the operations a merge has validated and not applied yet
  sender,   \* whose batch it is: a user, or Absent for a trusted peer
  acked     \* history: the last local write on each message that returned success

vars == <<wall, hlc, channel, index, disk, log, batch, sender, acked>>

TypeOK ==
  /\ wall \in Nat \ {0}
  /\ hlc \in HLC
  /\ channel \in {"absent", "skeleton", "saved"}
  /\ index \in [MsgId -> Entry]
  /\ disk \in [MsgId -> Entry]
  /\ log \subseteq Op
  /\ batch \in Seq(Op)
  /\ sender \in User \cup {Absent}
  /\ acked \in [MsgId -> Entry]

Empty == [m \in MsgId |-> Absent]

\* Open on an empty database; the host's clock is past the epoch.
Init ==
  /\ wall = 1
  /\ hlc = NewHLC
  /\ channel = "absent"
  /\ index = Empty
  /\ disk = Empty
  /\ log = {}
  /\ batch = <<>>
  /\ sender = Absent
  /\ acked = Empty

Unlocked == batch = <<>>

----------------------------------------------------------------------------
\* CreateChannelWithID of an id the index does not know, when SaveChannel works.
\* An existing channel, a skeleton too, is returned as it is: nothing changes.
CreateChannelWithID ==
  /\ Unlocked
  /\ channel = "absent"
  /\ channel' = "saved"
  /\ index' = Empty
  /\ UNCHANGED <<wall, hlc, disk, log, batch, sender, acked>>

\* Mutant: the operation is applied and not logged.
PersistRowOnly(op, outcome) ==
  /\ disk' = IF outcome = "save_failed" THEN disk ELSE [disk EXCEPT ![op.id] = op.msg]
  /\ log' = log

\* The durable half of applyLocal: SaveMessage upserts the operation's own
\* message, not the merged index entry, then AppendOp logs the operation.
Persist(op, outcome) ==
  /\ disk' = IF outcome = "save_failed" THEN disk ELSE [disk EXCEPT ![op.id] = op.msg]
  /\ log' = IF outcome = "ok" THEN log \cup {op} ELSE log

\* applyLocal: the index first, so a failed write leaves the index ahead.
ApplyLocal(op, outcome) ==
  /\ index' = ApplyToIndex(index, op)
  /\ Persist(op, outcome)

\* Bound: the counter does not run through its 2^32 values in one millisecond.
TickRoom == wall > hlc.wall \/ hlc.counter + 1 < CounterModulus

\* Mutants: the caller is told of success before the writes; a stamp is issued
\* that the clock does not remember.
LocalWriteAlwaysAcked(op, outcome) ==
  /\ hlc' = Tick(hlc, wall)
  /\ ApplyLocal(op, outcome)
  /\ acked' = [acked EXCEPT ![op.id] = op.msg]
  /\ UNCHANGED <<wall, batch, sender, channel>>

LocalWriteForgetsTick(op, outcome) ==
  /\ hlc' = hlc
  /\ ApplyLocal(op, outcome)
  /\ acked' = IF outcome = "ok" THEN [acked EXCEPT ![op.id] = op.msg] ELSE acked
  /\ UNCHANGED <<wall, batch, sender, channel>>

\* What the three local mutations share: issue a clock, apply, report.
LocalWrite(op, outcome) ==
  /\ hlc' = Tick(hlc, wall)
  /\ ApplyLocal(op, outcome)
  /\ acked' = IF outcome = "ok" THEN [acked EXCEPT ![op.id] = op.msg] ELSE acked
  /\ UNCHANGED <<wall, batch, sender, channel>>

NextStamp == Stamp(Tick(hlc, wall), Self)

Unused(m) ==
  /\ index[m] = Absent
  /\ disk[m] = Absent
  /\ \A op \in log : op.id # m

SendMessage(m, author, body, outcome) ==
  /\ Unlocked
  /\ channel # "absent"
  /\ Unused(m)
  /\ TickRoom
  /\ LocalWrite(AppendOp(m, author, body, NextStamp), outcome)

EditMessage(m, body, outcome) ==
  /\ Unlocked
  /\ index[m] # Absent
  /\ index[m].state # "deleted"
  /\ TickRoom
  /\ LocalWrite(EditOp(m, index[m], body, NextStamp), outcome)

\* A second delete is not refused: it issues a newer tombstone.
DeleteMessage(m, outcome) ==
  /\ Unlocked
  /\ index[m] # Absent
  /\ TickRoom
  /\ LocalWrite(TombstoneOp(m, index[m], NextStamp), outcome)

----------------------------------------------------------------------------
\* The same bound when a clock is received, whose counter may be adopted.
ReceiveRoom(clock) == TickRoom /\ clock.counter + 1 < CounterModulus

\* The environment's assumption on received clocks, see PeerLead.
Plausible(ops) == \A i \in DOMAIN ops : ops[i].msg.clock.wall <= wall + PeerLead

\* MergeOps: a trusted batch, not validated.
MergeOps(ops) ==
  /\ Unlocked
  /\ Plausible(ops)
  /\ batch' = ops
  /\ sender' = Absent
  /\ UNCHANGED <<wall, hlc, channel, index, disk, log, acked>>

\* Mutant: only the author written in the operation is checked.
ValidOwnNameOnly(user, op) == op.msg.author = user

\* The per-operation check of MergeOpsAs: a message without an author is anybody's.
Valid(user, op) ==
  /\ op.msg.author = user
  /\ index[op.id] # Absent => index[op.id].author \in {user, NoAuthor}

\* MergeOpsAs: the whole batch is validated before any of it is applied.
MergeOpsAs(user, ops) ==
  /\ user # NoAuthor
  /\ Unlocked
  /\ Plausible(ops)
  /\ \A i \in DOMAIN ops : Valid(user, ops[i])
  /\ batch' = ops
  /\ sender' = user
  /\ UNCHANGED <<wall, hlc, channel, index, disk, log, acked>>

\* applyToIndex makes a skeleton of an unknown channel; it is never saved.
EnsureChannel == channel' = IF channel = "absent" THEN "skeleton" ELSE channel

\* applyRemote of the next operation; a failed write abandons the rest.
ApplyRemote(outcome) ==
  /\ ~ Unlocked
  /\ ReceiveRoom(Head(batch).msg.clock)
  /\ LET op == Head(batch) IN
       /\ Accepted(op)
       /\ hlc' = Receive(hlc, op.msg.clock, wall)
       /\ ApplyLocal(op, outcome)
  /\ EnsureChannel
  /\ batch' = IF outcome = "ok" THEN Tail(batch) ELSE <<>>
  /\ UNCHANGED <<wall, sender, acked>>

\* applyRemote of an unknown op type: the clock and the skeleton stay, the
\* rest of the batch is abandoned, what was applied before it is kept.
RejectRemote ==
  /\ ~ Unlocked
  /\ ReceiveRoom(Head(batch).msg.clock)
  /\ ~ Accepted(Head(batch))
  /\ hlc' = Receive(hlc, Head(batch).msg.clock, wall)
  /\ EnsureChannel
  /\ batch' = <<>>
  /\ UNCHANGED <<wall, index, disk, log, sender, acked>>

----------------------------------------------------------------------------
AdvanceWall ==
  /\ wall < MaxWall
  /\ wall' = wall + 1
  /\ UNCHANGED <<hlc, channel, index, disk, log, batch, sender, acked>>

\* load: the rows of the channels that have a row themselves.
Load == IF channel = "saved" THEN disk ELSE Empty

\* A crash at any step, and Open. It takes at least a millisecond, and the
\* clock starts again from zero.
Restart ==
  /\ wall < MaxWall
  /\ wall' = wall + 1
  /\ hlc' = NewHLC
  /\ channel' = IF channel = "saved" THEN "saved" ELSE "absent"
  /\ index' = Load
  /\ batch' = <<>>
  /\ sender' = Absent
  /\ UNCHANGED <<disk, log, acked>>

Local(outcome) ==
  \/ \E m \in LocalMsg, u \in Member, b \in Body : SendMessage(m, u, b, outcome)
  \/ \E m \in MsgId, b \in Body : EditMessage(m, b, outcome)
  \/ \E m \in MsgId : DeleteMessage(m, outcome)

Remote ==
  \/ \E ops \in FabricBatches : MergeOps(ops)
  \/ \E r \in RestBatches : MergeOpsAs(r[1], r[2])
  \/ \E outcome \in Outcomes : ApplyRemote(outcome)
  \/ RejectRemote

Next ==
  \/ CreateChannelWithID
  \/ \E outcome \in Outcomes : Local(outcome)
  \/ Remote
  \/ AdvanceWall
  \/ Restart

Spec == Init /\ [][Next]_vars

----------------------------------------------------------------------------
\* The last operation in the order of ListOps; clocks of two operations may be equal.
LastListed(ops) == CHOOSE o \in ops : \A p \in ops : ~ Before(o.msg.clock, p.msg.clock)

\* The index of a replica that has merged those operations of the log, in that order,
\* and nothing else.
Replay[ops \in SUBSET log] ==
  IF ops = {} THEN Empty
  ELSE ApplyToIndex(Replay[ops \ {LastListed(ops)}], LastListed(ops))

\* ExportOps to a joiner that has nothing yet.
ColdJoiner == Replay[log]

----------------------------------------------------------------------------
\* Only a restart puts the clock back to zero.
Restarted == hlc' = NewHLC

StaysDeleted(m) == IsDeleted(index[m]) => IsDeleted(index'[m]) /\ index'[m].body = Cleared

\* A tombstone is terminal (models/spaces.go, Message): until the process
\* restarts, no interleaving of edits, merges, redeliveries and failed writes
\* brings a deleted message back, gives it a text, or forgets it.
DeletedIsTerminal == [][Restarted \/ \A m \in MsgId : StaysDeleted(m)]_vars

\* The same across restarts, as the comment on Message says it: never un-deleted.
NeverUndeleted ==
  [][\A m \in MsgId :
       IsDeleted(index[m]) /\ index'[m] # Absent => IsDeleted(index'[m])]_vars

KeepsClock(m) ==
  index[m] # Absent => index'[m] # Absent /\ AtMost(index[m].clock, index'[m].clock)

\* The SeqClock of a listed message never goes back: the order a reader has
\* seen only changes by messages moving to the end (ListMessages, ExportOps).
ClocksOnlyAdvance == [][Restarted \/ \A m \in MsgId : KeepsClock(m)]_vars

TakesEffect(m) ==
  /\ index'[m] # Absent
  /\ index'[m].clock = acked'[m].clock
  /\ index'[m].state = acked'[m].state
  /\ index'[m].body = acked'[m].body

\* A local write that returned success is what the index shows: an edit is
\* never silently dropped by the last-writer-wins rule (EditMessage).
LocalWriteTakesEffect ==
  [][\A m \in MsgId : acked'[m] # acked[m] => TakesEffect(m)]_vars

IsNewest(m) == \A k \in MsgId : acked[k] # Absent => Before(acked[k].clock, acked'[m].clock)

\* Clocks are issued in increasing order, restarts included (Tick): a write
\* is listed after every write acknowledged before it.
LocalWritesOrdered ==
  [][\A m \in MsgId : acked'[m] # acked[m] => IsNewest(m)]_vars

\* The row of a message keeps the last acknowledged write, or a newer one, and
\* a deletion for good: what a restart reloads is not older than what a client
\* was told (applyLocal, load).
KeepsAcked(m) ==
  acked[m] # Absent =>
    /\ disk[m] # Absent
    /\ AtMost(acked[m].clock, disk[m].clock)
    /\ IsDeleted(acked[m]) => IsDeleted(disk[m])

AckedSurvives == \A m \in LocalMsg : KeepsAcked(m)

\* The op-log alone is enough for a cold joiner (ExportOps, "cold-joiner or
\* catch-up sync"): replayed in clock order it shows every acknowledged write, a
\* newer one or a deletion, and every acknowledged deletion, although the log
\* misses the operations whose write failed.
ColdJoinerSeesAcked ==
  LET seen == ColdJoiner IN
  \A m \in MsgId : acked[m] # Absent =>
    /\ seen[m] # Absent
    /\ \/ IsDeleted(seen[m])
       \/ ~ IsDeleted(acked[m]) /\ AtMost(acked[m].clock, seen[m].clock)

Merging == ~ Unlocked /\ sender \in User /\ ~ Restarted

\* While a user's batch is applied, only messages of that user and messages without an
\* author change, and none becomes anybody else's (MergeOpsAs validates the batch under the
\* lock that applies it).
OnlyOwnMessagesMerged ==
  [][Merging => \A m \in MsgId : index'[m] # index[m] =>
       /\ index[m] # Absent => index[m].author \in {sender, NoAuthor}
       /\ index'[m].author = sender \/ (index[m] # Absent /\ index'[m].author = index[m].author)
    ]_vars

============================================================================
