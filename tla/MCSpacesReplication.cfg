\* Two replicas, two messages, clocks that may differ by a millisecond.
SPECIFICATION Spec
CONSTANTS
  Node = {1, 2}
  CounterModulus = 4
  m1 = m1
  m2 = m2
  alice = alice
  text = text
  MsgId = {m1, m2}
  User = {alice}
  Body = {text}
  Cleared = Cleared
  Absent = Absent
  TiesPossible = FALSE
  MaxWall = 2
  MaxOps = 3
INVARIANT TypeOK
INVARIANT Convergence
PROPERTY ClocksTellWrites
PROPERTY ImplementsPromise
PROPERTY NoRegression
CHECK_DEADLOCK FALSE
