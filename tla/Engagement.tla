---------------------------- MODULE Engagement ----------------------------
(***************************************************************************)
(* Reactions, pins and user status (backend/handlers/spaces_ext.go): three *)
(* stores in memory, each with a lock of its own, that write through to    *)
(* the database and are rebuilt from it at a start.  The errors of the     *)
(* database are ignored, of writes as well as of the listings at a start;  *)
(* a process that cannot open it runs on memory alone until the next one.  *)
(*                                                                         *)
(* A handler first asks SpacesStore for access and for the message; what   *)
(* it finds there, an input here, does not change the store that it then   *)
(* changes in one critical section.                                        *)
(***************************************************************************)
EXTENDS FiniteSets

CONSTANTS
  Message,
  User,    \* accounts of people and apps
  Text,    \* bodies that a pin keeps
  Status   \* what users set their status to

VARIABLES
  opened,  \* whether this process has opened the database
  shown,   \* shown[k]: what the store in memory has under k
  table,   \* table[k]: what the table has
  blind,   \* history: the kinds whose listing failed at the last start
  last,    \* history: what memory showed at the end of the last request about k
  failed   \* history: the keys whose last statement failed, or did not reach the database

engagementVars == <<opened, shown, table, blind, last, failed>>

\* Keys of the three stores.
Kind == {"reaction", "pin", "status"}
ReactionKey == {"reaction"} \X Message \X User
PinKey == {"pin"} \X Message
StatusKey == {"status"} \X User
Key == ReactionKey \cup PinKey \cup StatusKey

\* A user without a status is "online".
None == "none"
Reacted == "reacted"
\* The body of a deleted message, or of none in the channel.
Blank == "blank"
Value == {None, Reacted, Blank} \cup Text \cup Status

EngagementTypeOK ==
  /\ opened \in BOOLEAN
  /\ shown \in [Key -> Value]
  /\ \A k \in ReactionKey : {shown[k], table[k]} \subseteq {None, Reacted}
  /\ \A k \in PinKey : {shown[k], table[k]} \subseteq {None, Blank} \cup Text
  /\ \A k \in StatusKey : {shown[k], table[k]} \subseteq {None} \cup Status
  /\ table \in [Key -> Value]
  /\ blind \subseteq Kind
  /\ last \in [Key -> Value]
  /\ failed \subseteq Key

EngagementInit ==
  /\ opened = TRUE
  /\ shown = [k \in Key |-> None]
  /\ table = [k \in Key |-> None]
  /\ blind = {}
  /\ last = [k \in Key |-> None]
  /\ failed = {}

\* NullPersister keeps what it is told in maps that nothing reads before they are gone.
NullStatement(k) == UNCHANGED table /\ failed' = failed \cup {k}

\* A statement of the persister, whose error is ignored: it makes new of the table.
Statement(k, new) ==
  \/ opened /\ table' = new /\ failed' = failed \ {k}
  \/ opened /\ UNCHANGED table /\ failed' = failed \cup {k}
  \/ ~ opened /\ NullStatement(k)

\* The request that is answered was about k.
Answered(k) ==
  /\ last' = [last EXCEPT ![k] = shown'[k]]
  /\ UNCHANGED <<opened, blind>>

----------------------------------------------------------------------------
\* Statements

\* ON CONFLICT DO NOTHING.
SaveReaction(k) == IF table[k] = None THEN [table EXCEPT ![k] = Reacted] ELSE table
DeleteReaction(k) == [table EXCEPT ![k] = None]

\* Mutant: ON CONFLICT DO NOTHING, as for reactions.
SavePinOnce(k, text) == IF table[k] = None THEN [table EXCEPT ![k] = text] ELSE table

\* ON CONFLICT DO UPDATE.
SavePin(k, text) == [table EXCEPT ![k] = text]
DeletePin(k) == [table EXCEPT ![k] = None]
SaveStatus(k, s) == [table EXCEPT ![k] = s]

----------------------------------------------------------------------------
\* The three stores, each operation under the lock of its own

Add(k) ==
  IF shown[k] # None THEN UNCHANGED <<shown, table, failed>>
  ELSE /\ shown' = [shown EXCEPT ![k] = Reacted]
       /\ Statement(k, SaveReaction(k))

Remove(k) ==
  /\ shown' = [shown EXCEPT ![k] = None]
  /\ Statement(k, DeleteReaction(k))

Pin(k, text) ==
  IF shown[k] # None THEN UNCHANGED <<shown, table, failed>>
  ELSE /\ shown' = [shown EXCEPT ![k] = text]
       /\ Statement(k, SavePin(k, text))

Unpin(k) ==
  /\ shown' = [shown EXCEPT ![k] = None]
  /\ Statement(k, DeletePin(k))

Set(k, s) ==
  /\ shown' = [shown EXCEPT ![k] = s]
  /\ Statement(k, SaveStatus(k, s))

----------------------------------------------------------------------------
\* Requests

\* The message is found in the channel that the request names.
React(m, u) ==
  LET k == <<"reaction", m, u>> IN Add(k) /\ Answered(k)

\* Of a message that exists or not.
Unreact(m, u) ==
  LET k == <<"reaction", m, u>> IN Remove(k) /\ Answered(k)

\* reaction of the bot API: for both, the message is found first.
BotReaction(m, app, add) ==
  LET k == <<"reaction", m, app>> IN
  /\ IF add THEN Add(k) ELSE Remove(k)
  /\ Answered(k)

\* With the body that ListMessages shows of the message, if it does.
PinMessage(m, text) ==
  LET k == <<"pin", m>> IN Pin(k, text) /\ Answered(k)

UnpinMessage(m) ==
  LET k == <<"pin", m>> IN Unpin(k) /\ Answered(k)

SetStatus(u, s) ==
  LET k == <<"status", u>> IN Set(k, s) /\ Answered(k)

----------------------------------------------------------------------------
\* Listings of whole tables; an error of the query or of one row fails them.
ListReactions == [k \in ReactionKey |-> table[k]]
ListPins == [k \in PinKey |-> table[k]]
ListStatuses == [k \in StatusKey |-> table[k]]

\* A store whose listing fails starts empty.
NewReactionsStore(dark) ==
  IF "reaction" \in dark THEN [k \in ReactionKey |-> None] ELSE ListReactions
NewPinsStore(dark) == IF "pin" \in dark THEN [k \in PinKey |-> None] ELSE ListPins
NewStatusStore(dark) == IF "status" \in dark THEN [k \in StatusKey |-> None] ELSE ListStatuses

Rebuilt(dark, k) ==
  CASE k \in ReactionKey -> NewReactionsStore(dark)[k]
    [] k \in PinKey -> NewPinsStore(dark)[k]
    [] k \in StatusKey -> NewStatusStore(dark)[k]

\* A crash, at any time, and a new start.  What memory showed of a key whose last
\* statement failed is gone.
Restart ==
  /\ opened' \in BOOLEAN
  /\ \E dark \in IF opened' THEN SUBSET Kind ELSE {Kind} :
       /\ blind' = dark
       /\ shown' = [k \in Key |-> Rebuilt(dark, k)]
  /\ UNCHANGED <<table, last, failed>>

EngagementNext ==
  \/ \E m \in Message : \/ \E u \in User :
                             \/ React(m, u) \/ Unreact(m, u)
                             \/ \E add \in BOOLEAN : BotReaction(m, u, add)
                        \/ \E text \in Text \cup {Blank} : PinMessage(m, text)
                        \/ UnpinMessage(m)
  \/ \E u \in User, s \in Status : SetStatus(u, s)
  \/ Restart

EngagementSpec == EngagementInit /\ [][EngagementNext]_engagementVars

----------------------------------------------------------------------------
\* What the last request about a reaction, a pin or a status left is what its table has
\* and what every later process shows, across restarts, blind starts and repeated
\* requests, unless the last statement about it failed; a blind start shows nothing,
\* and never something older ("reactions survive restart").
AnsweredIsKept ==
  \A k \in Key \ failed :
    /\ table[k] = last[k]
    /\ shown[k] \in {last[k]} \cup (IF k[1] \in blind THEN {None} ELSE {})

============================================================================
