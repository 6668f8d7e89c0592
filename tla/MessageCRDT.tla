---------------------------- MODULE MessageCRDT ----------------------------
(***************************************************************************)
(* The merge rule of backend/spaces/store.go (applyToIndex): what one      *)
(* operation does to one message of a replica's in-memory index, and the   *)
(* operations that the local mutations build.                              *)
(*                                                                         *)
(* Abstracted: thread_parent and created_at never change after the append  *)
(* and no rule reads them; updated_at is for display. A body is a member   *)
(* of a small set or Cleared.                                              *)
(***************************************************************************)
EXTENDS HybridClock

CONSTANTS
  MsgId,    \* message ids (uuids)
  User,     \* account ids
  Body,     \* texts a user can send
  Cleared,  \* the empty body of a tombstone
  Absent    \* the index entry of an unknown message

State == {"active", "edited", "deleted"}

Message == [author : User, body : Body \cup {Cleared}, state : State, clock : SeqClock]

ASSUME AbsentAssumption == Absent \notin Message
ASSUME ClearedAssumption == Cleared \notin Body

Entry == Message \cup {Absent}

\* "unknown" stands for an op type outside the three the merge rule knows.
Kind == {"append", "edit", "tombstone"}
Op == [kind : Kind \cup {"unknown"}, id : MsgId, msg : Message]

----------------------------------------------------------------------------
\* Operations built by SendMessage, EditMessage and DeleteMessage.
AppendOp(id, author, body, clock) ==
  [kind |-> "append", id |-> id,
   msg |-> [author |-> author, body |-> body, state |-> "active", clock |-> clock]]

EditOp(id, existing, body, clock) ==
  [kind |-> "edit", id |-> id,
   msg |-> [existing EXCEPT !.body = body, !.state = "edited", !.clock = clock]]

TombstoneOp(id, existing, clock) ==
  [kind |-> "tombstone", id |-> id,
   msg |-> [existing EXCEPT !.body = Cleared, !.state = "deleted", !.clock = clock]]

\* What holds of every operation that those three build, and of those that a
\* browser derives from a listed message: a deleted message has no text.
WellFormed(op) ==
  /\ op.kind = "tombstone" => op.msg.state = "deleted"
  /\ op.msg.state = "deleted" => op.msg.body = Cleared

----------------------------------------------------------------------------
MergeAppend(existing, msg) == IF existing = Absent THEN msg ELSE existing

\* Mutants: an edit revives a tombstone; an edit wins whatever its clock.
MergeEditRevives(existing, msg) ==
  IF existing = Absent \/ Before(existing.clock, msg.clock) THEN msg ELSE existing

MergeEditLastArrival(existing, msg) ==
  IF existing = Absent \/ existing.state # "deleted" THEN msg ELSE existing

MergeEdit(existing, msg) ==
  IF existing = Absent THEN msg
  ELSE IF existing.state = "deleted" THEN existing
  ELSE IF Before(existing.clock, msg.clock) THEN msg ELSE existing

\* Mutants: a tombstone drops the author; takes its own clock; obeys LWW.
MergeTombstoneBare(existing, msg) == [state |-> "deleted", clock |-> msg.clock]

MergeTombstoneOwnClock(existing, msg) ==
  IF existing = Absent THEN msg
  ELSE [existing EXCEPT !.state = "deleted", !.body = Cleared, !.clock = msg.clock]

MergeTombstoneLWW(existing, msg) ==
  IF existing = Absent \/ Before(existing.clock, msg.clock) THEN msg ELSE existing

MergeTombstone(existing, msg) ==
  IF existing = Absent THEN msg
  ELSE [existing EXCEPT !.state = "deleted", !.body = Cleared,
                        !.clock = Later(existing.clock, msg.clock)]

Merge(existing, op) ==
  CASE op.kind = "append"    -> MergeAppend(existing, op.msg)
    [] op.kind = "edit"      -> MergeEdit(existing, op.msg)
    [] op.kind = "tombstone" -> MergeTombstone(existing, op.msg)
    [] OTHER                 -> existing

\* applyToIndex, for one channel; it fails on an unknown op type.
ApplyToIndex(index, op) == [index EXCEPT ![op.id] = Merge(@, op)]
Accepted(op) == op.kind \in Kind

----------------------------------------------------------------------------
IsDeleted(entry) == entry # Absent /\ entry.state = "deleted"

\* What a user sees of an entry: a deleted message shows no text, and its clock
\* only decides where the placeholder is listed.
Visible(entry) ==
  IF IsDeleted(entry) THEN [author |-> entry.author, state |-> "deleted"] ELSE entry

============================================================================
