---------------------------- MODULE HybridClock ----------------------------
(***************************************************************************)
(* The hybrid logical clock that stamps every message operation: type hlc  *)
(* of backend/spaces/store.go, mirrored by class HLC of                    *)
(* src/lib/crdt/messages.js.                                               *)
(*                                                                         *)
(* A SeqClock is the string "<20-digit wall>-<10-digit counter>-<node>";   *)
(* fixed-width decimal fields make string order the lexicographic order of *)
(* the three fields, so a SeqClock is a record here and nodes are numbered *)
(* by the order of their ids.                                              *)
(***************************************************************************)
EXTENDS Integers

CONSTANTS
  Node,           \* replicas that issue clocks, numbered by the order of their ids
  CounterModulus  \* 2^32: the counter is a uint32

ASSUME NodeAssumption == Node \subseteq Nat
ASSUME CounterAssumption == CounterModulus \in Nat \ {0}

Counter == 0 .. CounterModulus - 1

SeqClock == [wall : Nat, counter : Counter, node : Node]

\* The mutable part of hlc; its mutex makes each operation below one step.
HLC == [wall : Nat, counter : Counter]

\* The order of two SeqClock strings.
Before(a, b) ==
  \/ a.wall < b.wall
  \/ a.wall = b.wall /\ a.counter < b.counter
  \/ a.wall = b.wall /\ a.counter = b.counter /\ a.node < b.node

AtMost(a, b) == a = b \/ Before(a, b)

Later(a, b) == IF Before(a, b) THEN b ELSE a

NewHLC == [wall |-> 0, counter |-> 0]

\* counter++ on a uint32.
Bump(counter) == IF counter + 1 = CounterModulus THEN 0 ELSE counter + 1

\* A mutant: the counter survives a new millisecond, and is never advanced.
TickWithoutBump(h, now) ==
  IF now > h.wall THEN [wall |-> now, counter |-> 0] ELSE h

\* Tick: the clock after issuing the next value, at physical time now.
Tick(h, now) ==
  IF now > h.wall
    THEN [wall |-> now, counter |-> 0]
    ELSE [wall |-> h.wall, counter |-> Bump(h.counter)]

Stamp(h, node) == [wall |-> h.wall, counter |-> h.counter, node |-> node]

\* A mutant: a clock from the future is not adopted.
ReceiveIgnoringFuture(h, remote, now) == Tick(h, now)

\* Receive: what a remote clock does to the local one. A remote wall that is
\* ahead of the local one but not ahead of physical time falls to the last
\* case, which does not look at the remote counter.
Receive(h, remote, now) ==
  IF remote.wall > h.wall /\ remote.wall > now
    THEN [wall |-> remote.wall, counter |-> Bump(remote.counter)]
  ELSE IF remote.wall = h.wall
    THEN IF remote.counter >= h.counter
           THEN [wall |-> h.wall, counter |-> Bump(remote.counter)]
           ELSE h
  ELSE Tick(h, now)

============================================================================
