\* A delete and an edit that missed it, merged in both orders.
SPECIFICATION Spec
CONSTANTS
  Node = {1, 2}
  CounterModulus = 4
  m1 = m1
  m2 = m2
  alice = alice
  text = text
  MsgId = {m1, m2}
  User = {alice}
  Body = {text}
  Cleared = Cleared
  Absent = Absent
  TiesPossible = FALSE
  MaxWall = 2
  MaxOps = 3
INVARIANT ExactConvergence
CHECK_DEADLOCK FALSE
