\* No write fails; a peer delivers an append again, after the delete.
SPECIFICATION Spec
CONSTANTS
  Node = {1, 2, 3}
  Self = 1
  CounterModulus = 2
  own = own
  remote = remote
  alice = alice
  bob = bob
  nobody = nobody
  NoAuthor = nobody
  text = text
  MsgId = {own, remote}
  Member = {alice}
  LocalMsg = {own}
  User = {alice, bob, nobody}
  Body = {text}
  Cleared = Cleared
  Absent = Absent
  FabricBatches <- Redelivery
  RestBatches <- Nothing
  Outcomes = {"ok"}
  PeerLead <- Behind
  MaxWall = 3
PROPERTY NeverUndeleted
CHECK_DEADLOCK FALSE
