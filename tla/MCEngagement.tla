---------------------------- MODULE MCEngagement ----------------------------
(* The stores of reactions, pins and status and the search share no state, so  *)
(* nothing shows between steps of the two: a run of either half is a run of    *)
(* the whole in which the other half stands still.                             *)
EXTENDS Engagement, MessageSearch

CONSTANTS t1, t2, q1, q2

\* A word of the first text, and one that both texts have.
MCSays == [q \in Query |-> IF q = q1 THEN {t1} ELSE {t1, t2}]

\* SQLite's query of the second word matches one of the two texts only ("ploy" in "ploy"
\* and "deploy"), Postgres' of the first another one as well, and of the second none
\* (nothing is left of a word in another script).
MCMatched ==
  [p \in {"sqlite", "postgres"} |-> [q \in Query |->
     IF p = "sqlite" THEN IF q = q1 THEN {t1} ELSE {t2}
                     ELSE IF q = q1 THEN {t1, t2} ELSE {}]]

VARIABLE half

mcVars == <<half, engagementVars, searchVars>>

Init ==
  /\ half \in {"stores", "search"}
  /\ EngagementInit
  /\ SearchInit

Next ==
  /\ UNCHANGED half
  /\ \/ half = "stores" /\ EngagementNext /\ UNCHANGED searchVars
     \/ half = "search" /\ SearchNext /\ UNCHANGED engagementVars

Spec == Init /\ [][Next]_mcVars

\* Every variable keeps to its type.
TypeOK == SearchTypeOK /\ EngagementTypeOK

=============================================================================
