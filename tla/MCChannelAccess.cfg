\* Two people, one of them an admin, and an app; two requests at a time; a room, and a
\* public channel through which its messages can be merged. Names are in MCChannelAccessName.
SPECIFICATION Spec
CONSTANTS
  Request = {r1, r2}
  User = {alice, bob, helper}
  Admin = {alice}
  App = {helper}
  Scoped = {helper}
  Hooked = {helper}
  Name = {}
  NoName = NoName
  Absent = Absent
  Channel = {room, hall}
  Seeded = {hall}
  Quiet = {hall}
  MsgId = {m1}
  Outcomes = {"ok", "failed"}
SYMMETRY Symmetry
INVARIANT MembersOnly
INVARIANT OwnText
PROPERTY DMIsClosed
PROPERTY PrivateByInvitation
PROPERTY ImplementsAtomic
