---------------------------- MODULE ChannelView ----------------------------
(***************************************************************************)
(* The open channel in a browser (src/src/apps/spaces/ChannelView.jsx): it *)
(* polls the server, merges what was listed into the page's MessageStore   *)
(* (src/src/lib/crdt/messages.js) and shows that store's messages.  Polls  *)
(* and requests of the user run side by side, and each goes on with the    *)
(* channel and the messages of the render that it was started in, also     *)
(* when the user has moved to another channel meanwhile.                   *)
(***************************************************************************)
EXTENDS Naturals, FiniteSetsExt

CONSTANTS
  Channel,
  NoChannel,  \* none is selected yet
  MsgId,
  Home,       \* Home[m]: the channel of m
  Before,     \* the server's messages when the page is opened
  Fetch,      \* bound: how many requests are under way at once
  MaxClock    \* bound: how many writes there are on the server

ASSUME HomeAssumption == Home \in [MsgId -> Channel] /\ NoChannel \notin Channel

VARIABLES
  server,     \* server[m]: the message as the server has it
  store,      \* crdtStore
  selected,   \* the channel of the current render
  messages,   \* of: whose messages are shown; list: the messages
  fetch,      \* fetch[f]: how far the request is
  readUpTo,   \* readUpTo[c]: the SeqClock that the user has read c up to, on the server
  unseen,     \* history: messages that were not shown in their channel as they now are
  strayed     \* history: channels marked as read from a list of another channel

viewVars == <<server, store, selected, messages, fetch, readUpTo, unseen, strayed>>

\* SeqClocks by their rank; a message that is not there has clock 0.
State == {"none", "active", "edited", "deleted"}
Entry == [state : State, clock : 0 .. MaxClock]
Nothing == [state |-> "none", clock |-> 0]

\* What the page may find on the server when it is opened.
ASSUME BeforeAssumption ==
  /\ MsgId # {} /\ MaxClock \in Nat
  /\ Before \in [MsgId -> Entry]
  /\ \A m \in MsgId : Before[m].clock = 0 <=> Before[m].state = "none"

Of(list, c) == [m \in MsgId |-> IF Home[m] = c THEN list[m] ELSE Nothing]

\* "submitted": waits for the server to do what the user asked for; "loading": waits for
\* a listing; "listed": the listing is on its way.  last: the newest clock, and of: the
\* channel, of the messages of its render.
Idle == [stage |-> "idle", kind |-> "poll", channel |-> NoChannel, list |-> [m \in MsgId |-> Nothing],
         last |-> 0, of |-> NoChannel]
FetchState ==
  [stage : {"idle", "submitted", "loading", "listed"}, kind : {"poll", "send", "change"},
   channel : Channel \cup {NoChannel}, list : [MsgId -> Entry],
   last : 0 .. MaxClock, of : Channel \cup {NoChannel}]

ViewTypeOK ==
  /\ server \in [MsgId -> Entry]
  /\ store \in [MsgId -> Entry]
  /\ selected \in Channel \cup {NoChannel}
  /\ messages \in [of : Channel \cup {NoChannel}, list : [MsgId -> Entry]]
  /\ fetch \in [Fetch -> FetchState]
  /\ readUpTo \in [Channel -> 0 .. MaxClock]
  /\ unseen \subseteq MsgId
  /\ strayed \subseteq Channel

ViewInit ==
  /\ server = Before
  /\ store = [m \in MsgId |-> Nothing]
  /\ selected = NoChannel
  /\ messages = [of |-> NoChannel, list |-> store]
  /\ fetch = [f \in Fetch |-> Idle]
  /\ readUpTo = [c \in Channel |-> 0]
  /\ unseen = {m \in MsgId : server[m] # Nothing}
  /\ strayed = {}

Newest(list) == Max({list[m].clock : m \in MsgId})

----------------------------------------------------------------------------
\* The server: its messages have increasing clocks, and a deleted one stays deleted.

Stamped(m, state) ==
  /\ Newest(server) < MaxClock
  /\ server' = [server EXCEPT ![m] = [state |-> state, clock |-> Newest(server) + 1]]
  /\ unseen' = unseen \cup {m}

\* Which unused id a new message gets makes no difference.
NewId(c) == CHOOSE m \in MsgId : Home[m] = c /\ server[m].state = "none"

Post(m) == server[m].state = "none" /\ m = NewId(Home[m]) /\ Stamped(m, "active")
Edit(m) == server[m].state \in {"active", "edited"} /\ Stamped(m, "edited")
Delete(m) == server[m].state # "none" /\ Stamped(m, "deleted")

\* Other users.
Others(m) ==
  /\ Post(m) \/ Edit(m) \/ Delete(m)
  /\ UNCHANGED <<store, selected, messages, fetch, readUpTo, strayed>>

----------------------------------------------------------------------------
\* The page

Load(c) == [Idle EXCEPT !.stage = "loading", !.channel = c]

\* The effect of a new channel: nothing is shown, and it is loaded.
Select(c, f) ==
  /\ c # selected /\ fetch[f].stage = "idle"
  /\ selected' = c
  /\ messages' = [of |-> NoChannel, list |-> Of(store, NoChannel)]
  /\ fetch' = [fetch EXCEPT ![f] = Load(c)]
  /\ UNCHANGED <<server, store, readUpTo, unseen, strayed>>

\* The interval timer, whatever is still under way.
Poll(f) ==
  /\ selected # NoChannel /\ fetch[f].stage = "idle"
  /\ fetch' = [fetch EXCEPT ![f] = Load(selected)]
  /\ UNCHANGED <<server, store, selected, messages, readUpTo, unseen, strayed>>

\* send, and the others that load after what they do: handleEdit, handleDelete,
\* sendThreadReply, uploadAndSend.  The end of an upload lets a send start beside another.
Submit(f, kind) ==
  /\ selected # NoChannel /\ fetch[f].stage = "idle"
  /\ fetch' = [fetch EXCEPT ![f] =
       IF kind = "send"
         THEN [Idle EXCEPT !.stage = "submitted", !.kind = kind, !.channel = selected,
                           !.last = Newest(messages.list), !.of = messages.of]
         ELSE [Idle EXCEPT !.stage = "submitted", !.kind = kind, !.channel = selected]]
  /\ UNCHANGED <<server, store, selected, messages, readUpTo, unseen, strayed>>

\* What follows a change is a load like any other; what follows a send ends in a mark.
Awaited(request) ==
  IF request.kind = "send" THEN [request EXCEPT !.stage = "loading"] ELSE Load(request.channel)

\* The server does it; then the channel of the render is loaded, unless the answer was lost.
Perform(f) ==
  /\ fetch[f].stage = "submitted"
  /\ \E m \in MsgId :
       /\ Home[m] = fetch[f].channel
       /\ Post(m) \/ (fetch[f].kind = "change" /\ (Edit(m) \/ Delete(m)))
  /\ fetch' \in {[fetch EXCEPT ![f] = Awaited(@)], [fetch EXCEPT ![f] = Idle]}
  /\ UNCHANGED <<store, selected, messages, readUpTo, strayed>>

\* spacesListMessages, deleted messages included.
List(f) ==
  /\ fetch[f].stage = "loading"
  /\ fetch' = [fetch EXCEPT ![f].stage = "listed", ![f].list = Of(server, fetch[f].channel)]
  /\ UNCHANGED <<server, store, selected, messages, readUpTo, unseen, strayed>>

----------------------------------------------------------------------------
\* MessageStore

\* Mutant: what was listed last replaces what is known.
MergedLast(known, listed) == IF listed.state = "none" THEN known ELSE listed

\* Mutant: every listed message is merged as an append.
MergedAppend(known, listed) == IF known.state = "none" THEN listed ELSE known

\* The operation that loadMessages makes of a listed message, merged into what is known.
Merged(known, listed) ==
  IF listed.state = "none" THEN known
  ELSE IF known.state = "none" THEN listed
  ELSE CASE listed.state = "active" -> known
         [] listed.state = "edited" ->
              IF known.state # "deleted" /\ listed.clock > known.clock THEN listed ELSE known
         [] listed.state = "deleted" ->
              [state |-> "deleted",
               clock |-> IF listed.clock > known.clock THEN listed.clock ELSE known.clock]

MergeOps(list) == [m \in MsgId |-> Merged(store[m], list[m])]

----------------------------------------------------------------------------
\* Mutant: the message that was sent is marked as read.
MarkReadSent(f) ==
  IF fetch[f].kind = "send"
    THEN /\ readUpTo' = [readUpTo EXCEPT ![fetch[f].channel] = Newest(Of(server, fetch[f].channel))]
         /\ strayed' = strayed
    ELSE UNCHANGED <<readUpTo, strayed>>

\* After a send, whether its listing arrived or not: the last message of the render is
\* marked; the request may be lost, and an older clock does not move the cursor.
MarkReadLatest(f) ==
  LET c == fetch[f].channel IN
  IF fetch[f].kind = "send" /\ fetch[f].last # 0
    THEN /\ readUpTo' \in {readUpTo, [readUpTo EXCEPT ![c] = Max({@, fetch[f].last})]}
         /\ strayed' = IF fetch[f].of # c THEN strayed \cup {c} ELSE strayed
    ELSE UNCHANGED <<readUpTo, strayed>>

\* What is left unseen when the messages of c are shown.
Unseen(c) ==
  IF c = selected THEN {m \in unseen : Home[m] = c => messages'.list[m].clock < server[m].clock}
                  ELSE unseen

\* loadMessages goes on: it merges, and shows the channel it was started for.
Arrive(f) ==
  LET c == fetch[f].channel IN
  /\ fetch[f].stage = "listed"
  /\ store' = MergeOps(fetch[f].list)
  /\ messages' = [of |-> c, list |-> Of(store', c)]
  /\ unseen' = Unseen(c)
  /\ MarkReadLatest(f)
  /\ fetch' = [fetch EXCEPT ![f] = Idle]
  /\ UNCHANGED <<server, selected>>

\* A request or its answer is lost.  A failed listing is ignored.
Lose(f) ==
  /\ fetch[f].stage # "idle"
  /\ IF fetch[f].stage = "submitted" THEN UNCHANGED <<readUpTo, strayed>> ELSE MarkReadLatest(f)
  /\ fetch' = [fetch EXCEPT ![f] = Idle]
  /\ UNCHANGED <<server, store, selected, messages, unseen>>

ViewNext ==
  \/ \E m \in MsgId : Others(m)
  \/ \E f \in Fetch :
       \/ \E c \in Channel : Select(c, f)
       \/ Poll(f)
       \/ \E kind \in {"send", "change"} : Submit(f, kind)
       \/ Perform(f) \/ List(f) \/ Arrive(f) \/ Lose(f)

\* The timer fires again and again, whatever is under way (strong, because here it may
\* have to wait for one of the bounded requests to end); every request ends; and of the
\* listings that are asked for again and again some arrive.
ViewFairness ==
  /\ \A f \in Fetch : WF_viewVars(Perform(f) \/ List(f) \/ Arrive(f) \/ Lose(f))
  /\ SF_viewVars(\E f \in Fetch : Poll(f))
  /\ SF_viewVars(\E f \in Fetch : List(f))
  /\ SF_viewVars(\E f \in Fetch : Arrive(f))

ViewSpec == ViewInit /\ [][ViewNext]_viewVars /\ ViewFairness

----------------------------------------------------------------------------
\* Who stays in a channel sees all of its messages as the server has them in the end,
\* and no other channel's, although an answer for another channel that comes late is
\* shown in its place at first (loadMessages).
ShownInTheEnd ==
  \A c \in Channel :
    <>[](selected = c) => <>[](messages = [of |-> c, list |-> Of(server, c)])

\* While a channel is open, no answer that was overtaken by a newer one takes a message
\* back: not to an older text, not from deleted, not from the list.
ListKeepsUp ==
  [][messages'.of = messages.of =>
       \A m \in MsgId :
         /\ messages.list[m].clock <= messages'.list[m].clock
         /\ messages.list[m].state = "deleted" => messages'.list[m].state = "deleted"]_viewVars

\* The server is never told that the user has read what was not shown: a message up to
\* the cursor has been displayed in its channel as it now is, though polls fail and
\* others write between the render, the send and the mark.  The exception is a send
\* that is pressed while a late list of another channel is on the screen.
MarkedWasShown ==
  \A m \in MsgId :
    Home[m] \notin strayed /\ server[m].clock <= readUpTo[Home[m]] => m \notin unseen

=============================================================================
