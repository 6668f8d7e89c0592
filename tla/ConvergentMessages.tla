------------------------- MODULE ConvergentMessages ------------------------
(***************************************************************************)
(* What a set of message replicas promises: each replica's view is a       *)
(* function of the set of operations it has seen, whatever their order and *)
(* however often each came (the promise of MergeOps in                     *)
(* backend/spaces/store.go and of mergeOps in src/lib/crdt/messages.js).   *)
(***************************************************************************)
EXTENDS MessageCRDT

VARIABLES
  seen,  \* seen[n]: the operations replica n has applied
  view   \* view[n][m]: what replica n shows for message m

avars == <<seen, view>>

On(ops, m) == {op \in ops : op.id = m}

\* The write that wins among ops: the one with the highest clock.
Newest(ops) ==
  CHOOSE op \in ops : \A other \in ops : AtMost(other.msg.clock, op.msg.clock)

\* The order-free meaning of a set of operations for one message: a tombstone
\* wins over everything, otherwise the newest write does.
Outcome(ops, m) ==
  IF On(ops, m) = {} THEN Absent
  ELSE IF \E op \in On(ops, m) : op.kind = "tombstone"
    THEN Visible((CHOOSE op \in On(ops, m) : op.kind = "tombstone").msg)
  ELSE Newest(On(ops, m)).msg

AInit ==
  /\ seen = [n \in Node |-> {}]
  /\ view = [n \in Node |-> [m \in MsgId |-> Absent]]

\* A replica applies one more operation, its own or a received one.
Learn(n, op) ==
  /\ seen' = [seen EXCEPT ![n] = @ \cup {op}]
  /\ view' = [view EXCEPT ![n] = [m \in MsgId |-> Outcome(seen'[n], m)]]

ANext == \E n \in Node : \E op \in seen'[n] : Learn(n, op)

ASpec == AInit /\ [][ANext]_avars

\* Replicas that have seen the same operations show the same messages.
Converged == \A n, p \in Node : seen[n] = seen[p] => view[n] = view[p]

============================================================================
