------------------------------ MODULE MCGates ------------------------------
(* The billing gates and the gates of a request share no state, so nothing     *)
(* shows between steps of the two: a run of either half is a run of the whole  *)
(* in which the other half stands still.                                       *)
EXTENDS StorageQuota, RequestGates

VARIABLE half

mcVars == <<half, vars, gateVars>>

\* One capped tier, a suspension of it, and the unlimited default.
Capped == [suspended |-> FALSE, cap |-> 4, seats |-> 1, office |-> FALSE]
Suspended == [Capped EXCEPT !.suspended = TRUE]
MCEntitlements == {DefaultEntitlement, Capped, Suspended}

\* Every key is of one user.
MCOwner == [k \in Key |-> CHOOSE a \in User : TRUE]

\* The half that stands still has one initial state.
MCInit ==
  /\ half \in {"billing", "requests"} /\ Init /\ GatesInit
  /\ half = "billing" => \A k \in Key : grant[k] = "valid"
  /\ half = "requests" => \A a \in Account : plane[a] = Capped

MCNext ==
  /\ UNCHANGED half
  /\ \/ half = "billing" /\ Next /\ UNCHANGED gateVars
     \/ half = "requests" /\ GatesNext /\ UNCHANGED vars

MCSpec == MCInit /\ [][MCNext]_mcVars /\ Fairness

=============================================================================
