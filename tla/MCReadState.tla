----------------------------- MODULE MCReadState -----------------------------
(* The cursor on the server under concurrent marks, and the view that sends    *)
(* them.  The view only needs of the cursor that a mark may move it forward,   *)
(* so a run of either half is a run of the whole in which the other stands     *)
(* still.                                                                      *)
EXTENDS ReadState, ChannelView

CONSTANTS c1, c2, m1, m2, m3

VARIABLE half

mcVars == <<half, vars, viewVars>>

\* Two messages of one channel and one of another.
MCHome == [m \in MsgId |-> IF m = m3 THEN c2 ELSE c1]

\* The page opens on a channel with a message, and on an empty one.
MCBefore == [m \in MsgId |-> IF m = m1 THEN [state |-> "active", clock |-> 1] ELSE Nothing]

MCInit ==
  /\ half \in {"cursor", "view"} /\ Init /\ ViewInit
  /\ half = "view" => persister = CHOOSE p \in Persisters : TRUE

MCNext ==
  /\ UNCHANGED half
  /\ \/ half = "cursor" /\ Next /\ UNCHANGED viewVars
     \/ half = "view" /\ ViewNext /\ UNCHANGED vars

MCSpec == MCInit /\ [][MCNext]_mcVars /\ ViewFairness

\* Every variable keeps to its type.
AllTyped == TypeOK /\ ViewTypeOK

=============================================================================
