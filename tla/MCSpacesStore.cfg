\* Peers' clocks are behind the host's; both durable writes may fail.
SPECIFICATION Spec
CONSTANTS
  Node = {1, 2, 3}
  Self = 1
  CounterModulus = 2
  own = own
  remote = remote
  alice = alice
  bob = bob
  nobody = nobody
  NoAuthor = nobody
  text = text
  MsgId = {own, remote}
  Member = {alice}
  LocalMsg = {own}
  User = {alice, bob, nobody}
  Body = {text}
  Cleared = Cleared
  Absent = Absent
  FabricBatches <- MCFabricBatches
  RestBatches <- MCRestBatches
  Outcomes = {"ok", "save_failed", "log_failed"}
  PeerLead <- Behind
  MaxWall = 3
INVARIANT AckedSurvives
INVARIANT ColdJoinerSeesAcked
PROPERTY DeletedIsTerminal
PROPERTY ClocksOnlyAdvance
PROPERTY LocalWriteTakesEffect
PROPERTY LocalWritesOrdered
PROPERTY OnlyOwnMessagesMerged
\* Time is bounded: the model stops at MaxWall.
CHECK_DEADLOCK FALSE
