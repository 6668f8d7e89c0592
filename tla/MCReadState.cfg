\* Three concurrent marks on either persister; two channels, three messages and two
\* requests of a browser that are under way at once.
SPECIFICATION MCSpec
CONSTANTS
  Request = {r1, r2, r3}
  Clock = {1, 2, 3}
  Unread = 0
  Persisters = {"memory", "sql"}
  c1 = c1
  c2 = c2
  m1 = m1
  m2 = m2
  m3 = m3
  Channel = {c1, c2}
  NoChannel = NoChannel
  MsgId = {m1, m2, m3}
  Home <- MCHome
  Before <- MCBefore
  Fetch = {f1, f2}
  MaxClock = 3
INVARIANT AllTyped
INVARIANT AckedIsRead
INVARIANT MarkedWasShown
PROPERTY ListKeepsUp
PROPERTY ShownInTheEnd
\* Every request is answered once, and the server has room for some writes only.
CHECK_DEADLOCK FALSE
