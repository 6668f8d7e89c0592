------------------------- MODULE SpacesReplication -------------------------
(***************************************************************************)
(* Message replicas that exchange operations: backend/spaces/store.go      *)
(* servers and src/lib/crdt/messages.js browsers, which share the clock    *)
(* and the merge rule.  Each has its own physical clock.                   *)
(*                                                                         *)
(* ExportOps hands out a replica's log and MergeOps applies operations one *)
(* by one, so what the replicas can do to each other is: any operation in  *)
(* any log may be merged anywhere, in any order, late, again, or never.    *)
(***************************************************************************)
EXTENDS MessageCRDT, FiniteSets

CONSTANTS
  TiesPossible,  \* may a replica receive a clock of its own current millisecond
                 \* before it has ticked in that millisecond?
  MaxWall,       \* bound: the last millisecond considered
  MaxOps         \* bound: how many operations are created

ASSUME TiesAssumption == TiesPossible \in BOOLEAN
ASSUME MaxAssumption == MaxWall \in Nat /\ MaxOps \in Nat

VARIABLES
  wall,   \* wall[n]: physical time at n, in milliseconds
  hlc,    \* hlc[n]: n's hybrid logical clock
  index,  \* index[n]: n's messages
  log     \* log[n]: the operations n has applied, and exports

vars == <<wall, hlc, index, log>>

TypeOK ==
  /\ wall \in [Node -> Nat]
  /\ hlc \in [Node -> HLC]
  /\ index \in [Node -> [MsgId -> Entry]]
  /\ log \in [Node -> SUBSET Op]

Init ==
  /\ wall = [n \in Node |-> 1]
  /\ hlc = [n \in Node |-> NewHLC]
  /\ index = [n \in Node |-> [m \in MsgId |-> Absent]]
  /\ log = [n \in Node |-> {}]

Known == UNION {log[n] : n \in Node}

----------------------------------------------------------------------------
\* applyLocal / _applyLocal: the index, then the log.
Apply(n, op) ==
  /\ index' = [index EXCEPT ![n] = ApplyToIndex(@, op)]
  /\ log' = [log EXCEPT ![n] = @ \cup {op}]

\* Bound: the counter does not run through its values in one millisecond.
TickRoom(n) == wall[n] > hlc[n].wall \/ hlc[n].counter + 1 < CounterModulus

NextStamp(n) == Stamp(Tick(hlc[n], wall[n]), n)

LocalWrite(n, op) ==
  /\ TickRoom(n)
  /\ Cardinality(Known) < MaxOps
  /\ hlc' = [hlc EXCEPT ![n] = Tick(@, wall[n])]
  /\ Apply(n, op)
  /\ UNCHANGED wall

\* send: a fresh uuid.
Send(n, m, author, body) ==
  /\ \A op \in Known : op.id # m
  /\ LocalWrite(n, AppendOp(m, author, body, NextStamp(n)))

\* edit refuses an unknown or deleted message.
Edit(n, m, body) ==
  /\ index[n][m] # Absent
  /\ index[n][m].state # "deleted"
  /\ LocalWrite(n, EditOp(m, index[n][m], body, NextStamp(n)))

Delete(n, m) ==
  /\ index[n][m] # Absent
  /\ LocalWrite(n, TombstoneOp(m, index[n][m], NextStamp(n)))

\* The case of Receive that ignores the counter of a current remote clock.
Tie(n, clock) == clock.wall = wall[n] /\ hlc[n].wall < wall[n]

\* applyRemote of one operation of a peer's log.
MergeOp(n, op) ==
  /\ TiesPossible \/ ~ Tie(n, op.msg.clock)
  /\ TickRoom(n) /\ op.msg.clock.counter + 1 < CounterModulus
  /\ hlc' = [hlc EXCEPT ![n] = Receive(@, op.msg.clock, wall[n])]
  /\ Apply(n, op)
  /\ UNCHANGED wall

AdvanceWall(n) ==
  /\ wall[n] < MaxWall
  /\ wall' = [wall EXCEPT ![n] = @ + 1]
  /\ UNCHANGED <<hlc, index, log>>

Next ==
  \E n \in Node :
    \/ \E m \in MsgId, u \in User, b \in Body : Send(n, m, u, b)
    \/ \E m \in MsgId, b \in Body : Edit(n, m, b)
    \/ \E m \in MsgId : Delete(n, m)
    \/ \E op \in Known : MergeOp(n, op)
    \/ AdvanceWall(n)

Spec == Init /\ [][Next]_vars

----------------------------------------------------------------------------
Shown == [n \in Node |-> [m \in MsgId |-> Visible(index[n][m])]]

Promise == INSTANCE ConvergentMessages WITH seen <- log, view <- Shown

\* The replicas implement ConvergentMessages: what a replica shows depends on
\* the set of operations it has merged and not on their order or repetition
\* (applyToIndex, _applyToIndex).
ImplementsPromise == Promise!ASpec

\* Replicas that merged the same operations show the same messages, texts and
\* order (MergeOps, mergeOps).
Convergence ==
  \A n, p \in Node : log[n] = log[p] => Shown[n] = Shown[p]

\* The same for the whole index entry, with the clock of a deleted message.
ExactConvergence ==
  \A n, p \in Node : log[n] = log[p] => index[n] = index[p]

\* A new operation has a clock that no other has, later than every operation that its
\* replica had merged, the write that it was made from included (Tick, Receive): else
\* last-writer-wins would prefer the text that the user replaced.  Excepted are operations
\* of other replicas from the same millisecond, and those only where ties are possible.
ClocksTellWrites ==
  [][\A n \in Node : \A op \in log'[n] \ Known :
       /\ \A b \in Known : b.msg.clock # op.msg.clock
       /\ \A b \in log[n] :
            \/ Before(b.msg.clock, op.msg.clock)
            \/ TiesPossible /\ b.msg.clock.node # n /\ b.msg.clock.wall = op.msg.clock.wall]_vars

\* A replica never goes back to an older version of a message: not by a late
\* operation, not by a repeated one.
NoRegression ==
  [][\A n \in Node, m \in MsgId : index[n][m] # Absent =>
       /\ index'[n][m] # Absent
       /\ AtMost(index[n][m].clock, index'[n][m].clock)
       /\ IsDeleted(index[n][m]) => IsDeleted(index'[n][m])]_vars

============================================================================
