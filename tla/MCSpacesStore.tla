--------------------------- MODULE MCSpacesStore ---------------------------
(* Instances of SpacesStore for TLC: one message minted here, one by a peer. *)
EXTENDS SpacesStore

CONSTANTS own, remote, alice, bob, nobody, text

\* Peers 2 and 3 each issue the first clock of a millisecond.
At(w, n) == [wall |-> w, counter |-> 0, node |-> n]

Msg(author, state, clock) ==
  [author |-> author, state |-> state, clock |-> clock,
   body |-> IF state = "deleted" THEN Cleared ELSE text]

Post(id, author, clock) ==
  [kind |-> "append", id |-> id, msg |-> Msg(author, "active", clock)]
Revise(id, author, clock) ==
  [kind |-> "edit", id |-> id, msg |-> Msg(author, "edited", clock)]
Withdraw(id, author, clock) ==
  [kind |-> "tombstone", id |-> id, msg |-> Msg(author, "deleted", clock)]
Nonsense(id, author, clock) == [Post(id, author, clock) EXCEPT !.kind = "unknown"]

\* A peer's message without an author, and its later edit; another peer's delete of
\* alice's, and the edit that missed it.
MCFabricBatches ==
  { << Post(remote, nobody, At(1, 2)), Revise(remote, nobody, At(2, 2)) >>,
    << Withdraw(remote, alice, At(2, 3)), Revise(remote, alice, At(2, 2)) >> }

\* A client's own message, an attempt on somebody else's, an unknown op type.
MCRestBatches ==
  { <<alice, << Post(remote, alice, At(1, 2)), Nonsense(remote, alice, At(2, 2)) >> >>,
    <<bob, << Revise(remote, bob, At(1, 3)) >> >> }

\* The redelivery of a local message that the server has deleted since.
Redelivery == { << Post(own, alice, [wall |-> 1, counter |-> 0, node |-> 1]) >> }

\* A peer's message, and its edit with the second clock of a later millisecond:
\* the peer spent the first one in another channel.
SameMillisecond ==
  { << Post(remote, alice, At(1, 2)) >>,
    << Revise(remote, alice, [At(2, 2) EXCEPT !.counter = 1]) >> }

Nothing == {}

Behind == -1

============================================================================
