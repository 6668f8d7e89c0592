\* A peer's operation may arrive in the millisecond of its own clock.
SPECIFICATION Spec
CONSTANTS
  Node = {1, 2, 3}
  Self = 1
  CounterModulus = 3
  own = own
  remote = remote
  alice = alice
  bob = bob
  nobody = nobody
  NoAuthor = nobody
  text = text
  MsgId = {own, remote}
  Member = {alice}
  LocalMsg = {own}
  User = {alice, bob, nobody}
  Body = {text}
  Cleared = Cleared
  Absent = Absent
  FabricBatches <- SameMillisecond
  RestBatches <- Nothing
  Outcomes = {"ok"}
  PeerLead = 0
  MaxWall = 3
PROPERTY LocalWriteTakesEffect
CHECK_DEADLOCK FALSE
