\* A member gives itself a name while an invitation is between check and act.
SPECIFICATION Spec
CONSTANTS
  Request = {r1, r2}
  User = {alice, bob, carol}
  Admin = {carol}
  App = {}
  Scoped = {}
  Hooked = {}
  Name = {nick, dan}
  NoName = NoName
  Absent = Absent
  Channel = {room}
  Seeded = {room}
  Quiet = {}
  MsgId = {m1}
  Outcomes = {"ok"}
PROPERTY NameOnlyBackfilled
