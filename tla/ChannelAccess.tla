--------------------------- MODULE ChannelAccess ---------------------------
(***************************************************************************)
(* Who may join, post to and change what: the handlers of                  *)
(* backend/handlers/spaces.go over the memberships of SpacesStore.         *)
(*                                                                         *)
(* A handler is a goroutine that first checks and then acts, each with its *)
(* own calls of the store, so other requests come between the two.  A      *)
(* check is one step, at the time of its last read: a channel's type never *)
(* changes and nobody leaves, so what its earlier reads allowed is still   *)
(* allowed then.  A refused request changes nothing and is no step.        *)
(*                                                                         *)
(* Messages are kept here by who wrote them and where; their texts, clocks *)
(* and merging are in SpacesStore.  A message is indexed under the channel *)
(* that its operation names and saved under the one that itself names.     *)
(***************************************************************************)
EXTENDS FiniteSets, Naturals

CONSTANTS
  Request,   \* requests that can be in flight at once
  User,      \* account ids
  Admin,     \* accounts with the admin flag
  App,       \* accounts of apps: they have no session and use no handler but their own
  Scoped,    \* apps with the scope chat:write
  Hooked,    \* apps with an enabled incoming webhook
  Name,      \* display names
  NoName,    \* the empty display name
  Absent,    \* no such channel, membership or message
  Channel,   \* channel ids
  Seeded,    \* the public channels that every handler is started with (general)
  Quiet,     \* bound: to these channels only merge requests are made, and of messages that
             \* name another channel
  MsgId,     \* message ids
  Outcomes   \* outcomes of a durable write: "ok", "failed"

ASSUME AdminAssumption == Admin \subseteq User \ App
ASSUME AppAssumption == App \subseteq User /\ Scoped \cup Hooked \subseteq App
ASSUME NameAssumption == NoName \notin Name /\ Absent \notin Name \cup {NoName}
ASSUME SeededAssumption == Seeded \cup Quiet \subseteq Channel
ASSUME OutcomesAssumption == Outcomes \subseteq {"ok", "failed"}

ChannelType == {"public", "private", "dm"}
Invited == {"private", "dm"}
Membership == Name \cup {NoName}
\* A message is found by a channel and its id.  home: the channel that it names itself.
\* writer, checked: history, who last changed it, and the channel to which the access of
\* its author was checked.
Key == Channel \X MsgId
Post == [author : User, writer : User, home : Channel, checked : Channel]

ASSUME AbsentAssumption == Absent \notin Post
ASSUME TypeAssumption == Absent \notin ChannelType

VARIABLES
  type,      \* type[c]: the type of channel c, or Absent
  members,   \* members[c][u]: u's display name in c, or Absent; in memory
  rows,      \* the same in the memberships table
  posts,     \* posts[k]: message k in the index, or Absent
  saved,     \* saved[k]: its row in the messages table, or Absent
  request    \* request[r]: what r has been allowed to do and has not done yet

vars == <<type, members, rows, posts, saved, request>>

Idle == [op |-> "none"]

Job ==
  [op : {"create"}, user : User, channel : Channel, rest : SUBSET User]
  \cup [op : {"join", "send", "merge"}, user : User, channel : Channel]
  \cup [op : {"rename"}, user : User, channel : Channel]
  \cup [op : {"invite"}, user : User, channel : Channel, account : User,
        name : Membership]
  \cup [op : {"change"}, user : User, channel : Channel, msg : MsgId]

TypeOK ==
  /\ type \in [Channel -> ChannelType \cup {Absent}]
  /\ members \in [Channel -> [User -> Membership \cup {Absent}]]
  /\ rows \in [Channel -> [User -> Membership \cup {Absent}]]
  /\ posts \in [Key -> Post \cup {Absent}]
  /\ saved \in [Key -> Post \cup {Absent}]
  /\ request \in [Request -> Job \cup {Idle}]

Nobody == [c \in Channel |-> [u \in User |-> Absent]]

\* newSpacesHandlerWith on an empty database.
Init ==
  /\ type = [c \in Channel |-> IF c \in Seeded THEN "public" ELSE Absent]
  /\ members = Nobody
  /\ rows = Nobody
  /\ posts = [k \in Key |-> Absent]
  /\ saved = [k \in Key |-> Absent]
  /\ request = [r \in Request |-> Idle]

----------------------------------------------------------------------------
IsMember(c, u) == members[c][u] # Absent

CanAccessChannel(c, u) ==
  /\ type[c] # Absent
  /\ type[c] \in Invited => IsMember(c, u)

\* The check of a handler has passed; what it will do is remembered.
Allow(r, job) ==
  /\ request[r] = Idle
  /\ request' = [request EXCEPT ![r] = job]
  /\ UNCHANGED <<type, members, rows, posts, saved>>

Finish(r) == request' = [request EXCEPT ![r] = Idle]

\* Mutant: the index is changed before the row, as for messages.
SaveMemberMemoryFirst(c, u, name, outcome) ==
  /\ members' = [members EXCEPT ![c][u] = name]
  /\ rows' = IF outcome = "ok" THEN [rows EXCEPT ![c][u] = name] ELSE rows

\* SaveMembership or SetMembershipName, then the index: a failed write changes
\* neither.
SaveMember(c, u, name, outcome) ==
  IF outcome = "ok"
    THEN /\ members' = [members EXCEPT ![c][u] = name]
         /\ rows' = [rows EXCEPT ![c][u] = name]
    ELSE UNCHANGED <<members, rows>>

\* AddMemberWithName: a member gets a new non-empty name, and is else left alone.
AddMemberWithName(c, u, name, outcome) ==
  IF IsMember(c, u) /\ name \in {NoName, members[c][u]}
    THEN UNCHANGED <<members, rows>>
    ELSE SaveMember(c, u, name, outcome)

----------------------------------------------------------------------------
\* CreateChannel: the channel is saved and visible before its members are added.
CreateChannel(r, u, c, kind, listed) ==
  /\ request[r] = Idle
  /\ type[c] = Absent
  /\ type' = [type EXCEPT ![c] = kind]
  /\ request' = [request EXCEPT ![r] =
       [op |-> "create", user |-> u, channel |-> c,
        rest |-> IF listed = {} THEN {u} ELSE listed]]
  /\ UNCHANGED <<members, rows, posts, saved>>

\* One turn of its loop over the members; an error is ignored.
AddListed(r, v, name, outcome) ==
  LET job == request[r] IN
  /\ job.op = "create"
  /\ v \in job.rest
  /\ AddMemberWithName(job.channel, v, name, outcome)
  /\ request' = [request EXCEPT ![r] =
       IF job.rest = {v} THEN Idle ELSE [job EXCEPT !.rest = @ \ {v}]]
  /\ UNCHANGED <<type, posts, saved>>

\* Mutant: anybody may join what exists.
CheckJoinOpen(r, u, c) ==
  /\ type[c] # Absent
  /\ Allow(r, [op |-> "join", user |-> u, channel |-> c])

CheckJoin(r, u, c) ==
  /\ CanAccessChannel(c, u)
  /\ Allow(r, [op |-> "join", user |-> u, channel |-> c])

JoinChannel(r, outcome) ==
  LET job == request[r] IN
  /\ job.op = "join"
  /\ AddMemberWithName(job.channel, job.user, NoName, outcome)
  /\ Finish(r)
  /\ UNCHANGED <<type, posts, saved>>

CheckRename(r, u, c) ==
  /\ CanAccessChannel(c, u)
  /\ Allow(r, [op |-> "rename", user |-> u, channel |-> c])

\* SetMyDisplayName: the store refuses who is not a member.
SetMyDisplayName(r, name, outcome) ==
  LET job == request[r] IN
  /\ job.op = "rename"
  /\ IF IsMember(job.channel, job.user)
       THEN SaveMember(job.channel, job.user, name, outcome)
       ELSE UNCHANGED <<members, rows>>
  /\ Finish(r)
  /\ UNCHANGED <<type, posts, saved>>

\* Mutant: a DM takes a third party.
CheckInviteDM(r, u, c, v, name) ==
  /\ CanAccessChannel(c, u)
  /\ IsMember(c, u)
  /\ ~ IsMember(c, v)
  /\ Allow(r, [op |-> "invite", user |-> u, channel |-> c, account |-> v, name |-> name])

CheckInvite(r, u, c, v, name) ==
  /\ CanAccessChannel(c, u)
  /\ type[c] # "dm"
  /\ IsMember(c, u)
  /\ ~ IsMember(c, v)
  /\ Allow(r, [op |-> "invite", user |-> u, channel |-> c, account |-> v, name |-> name])

InviteMember(r, outcome) ==
  LET job == request[r] IN
  /\ job.op = "invite"
  /\ AddMemberWithName(job.channel, job.account, job.name, outcome)
  /\ Finish(r)
  /\ UNCHANGED <<type, posts, saved>>

----------------------------------------------------------------------------
\* Mutant: only the existence of the channel is checked.
CheckSendAnywhere(r, u, c) ==
  /\ type[c] # Absent
  /\ Allow(r, [op |-> "send", user |-> u, channel |-> c])

CheckSend(r, u, c) ==
  /\ CanAccessChannel(c, u)
  /\ Allow(r, [op |-> "send", user |-> u, channel |-> c])

\* ReplyThread: the parent is in the channel that the path names.
CheckReply(r, u, c, parent) ==
  /\ CanAccessChannel(c, u)
  /\ posts[<<c, parent>>] # Absent
  /\ Allow(r, [op |-> "send", user |-> u, channel |-> c])

\* PostMessage of the bot API: the app's scope, and its own access to the channel.
CheckBotPost(r, a, c) ==
  /\ a \in Scoped
  /\ CanAccessChannel(c, a)
  /\ Allow(r, [op |-> "send", user |-> a, channel |-> c])

\* IncomingWebhook: its id is the secret; the channel is any that the request, the app
\* or the default names.
CheckWebhook(r, a, c) ==
  /\ a \in Hooked
  /\ CanAccessChannel(c, a)
  /\ Allow(r, [op |-> "send", user |-> a, channel |-> c])

\* The adapter's postMessage: the platform has checked the scope of an action and
\* nothing of an incoming webhook, so that access is checked here again.
CheckAct(r, a, c) ==
  /\ a \in Scoped \cup Hooked
  /\ CanAccessChannel(c, a)
  /\ Allow(r, [op |-> "send", user |-> a, channel |-> c])

\* SaveMessage writes the row under the channel that the message names.
SaveMessage(post, m, outcome) ==
  saved' = IF outcome = "ok" THEN [saved EXCEPT ![<<post.home, m>>] = post] ELSE saved

\* store.SendMessage, with a fresh uuid.
SendMessage(r, m, outcome) ==
  LET job == request[r]
      post == [author |-> job.user, writer |-> job.user,
               home |-> job.channel, checked |-> job.channel] IN
  /\ job.op = "send"
  /\ \A k \in Key : k[2] = m => posts[k] = Absent /\ saved[k] = Absent
  /\ posts' = [posts EXCEPT ![<<job.channel, m>>] = post]
  /\ SaveMessage(post, m, outcome)
  /\ Finish(r)
  /\ UNCHANGED <<type, members, rows>>

\* EditMessage and DeleteMessage: requireMessageAuthor, or an admin.
CheckChange(r, u, c, m) ==
  /\ CanAccessChannel(c, u)
  /\ \/ u \in Admin
     \/ posts[<<c, m>>] # Absent /\ posts[<<c, m>>].author = u
  /\ Allow(r, [op |-> "change", user |-> u, channel |-> c, msg |-> m])

\* store.EditMessage or store.DeleteMessage, which look the message up again; an edit
\* can be dropped from the index for its clock, and is saved all the same.
ChangeMessage(r, outcome) ==
  LET job == request[r]
      k == <<job.channel, job.msg>>
      changed == [posts[k] EXCEPT !.writer = job.user] IN
  /\ job.op = "change"
  /\ posts[k] # Absent
  /\ \E post \in {posts[k], changed} : posts' = [posts EXCEPT ![k] = post]
  /\ SaveMessage(changed, job.msg, outcome)
  /\ Finish(r)
  /\ UNCHANGED <<type, members, rows>>

\* MergeOps of the REST endpoint: access to the channel of each operation.
CheckMerge(r, u, c) ==
  /\ CanAccessChannel(c, u)
  /\ Allow(r, [op |-> "merge", user |-> u, channel |-> c])

\* Mutant: the author of a message that is already here is not compared.
MergeOpsForged(r, m, d, outcome) ==
  LET job == request[r]
      k == <<job.channel, m>>
      post == [author |-> job.user, writer |-> job.user, home |-> d, checked |-> job.channel] IN
  /\ job.op = "merge"
  /\ type[d] # Absent
  /\ posts' = [posts EXCEPT ![k] = IF @ = Absent THEN post ELSE [@ EXCEPT !.writer = job.user]]
  /\ SaveMessage(post, m, outcome)
  /\ Finish(r)
  /\ UNCHANGED <<type, members, rows>>

\* store.MergeOpsAs of one operation, which it validates under its lock: a new message of
\* the caller, or one of the caller's that is left alone (an append, an older edit),
\* marked deleted, or replaced by the one that came.  The message may name any channel d;
\* one that does not exist has no row that is ever loaded.
MergeOps(r, m, d, outcome) ==
  LET job == request[r]
      k == <<job.channel, m>>
      post == [author |-> job.user, writer |-> job.user, home |-> d, checked |-> job.channel] IN
  /\ job.op = "merge"
  /\ type[d] # Absent
  /\ posts[k] # Absent => posts[k].author = job.user
  /\ \E merged \in {post} \cup (IF posts[k] = Absent THEN {}
                                ELSE {posts[k], [posts[k] EXCEPT !.writer = job.user]}) :
       posts' = [posts EXCEPT ![k] = merged]
  /\ SaveMessage(post, m, outcome)
  /\ Finish(r)
  /\ UNCHANGED <<type, members, rows>>

\* A request that the store refuses, or whose client is gone.
Fail(r) ==
  /\ request[r].op \in {"send", "change", "merge"}
  /\ Finish(r)
  /\ UNCHANGED <<type, members, rows, posts, saved>>

\* Open finds the messages of a channel by the channel that they name.
Load == [k \in Key |-> IF type[k[1]] # Absent THEN saved[k] ELSE Absent]

\* A crash at any step, and Open: the requests are gone, a half created channel
\* stays, memberships and messages come from their rows.
Restart ==
  /\ members' = rows
  /\ posts' = Load
  /\ request' = [r \in Request |-> Idle]
  /\ UNCHANGED <<type, rows, saved>>

----------------------------------------------------------------------------
Check(r, u, c) ==
  \/ CheckJoin(r, u, c)
  \/ CheckRename(r, u, c)
  \/ \E v \in User, name \in Membership : CheckInvite(r, u, c, v, name)
  \/ CheckSend(r, u, c)
  \/ \E m \in MsgId : CheckReply(r, u, c, m) \/ CheckChange(r, u, c, m)

CheckByApp(r, a, c) == CheckBotPost(r, a, c) \/ CheckWebhook(r, a, c) \/ CheckAct(r, a, c)

Act(r, outcome) ==
  \/ \E v \in User, name \in Membership : AddListed(r, v, name, outcome)
  \/ JoinChannel(r, outcome)
  \/ \E name \in Membership : SetMyDisplayName(r, name, outcome)
  \/ InviteMember(r, outcome)

ActOnMessage(r, outcome) ==
  \/ \E m \in MsgId : SendMessage(r, m, outcome)
  \/ ChangeMessage(r, outcome)
  \/ \E m \in MsgId, d \in Channel \ Quiet : MergeOps(r, m, d, outcome)

Next ==
  \/ \E r \in Request :
       \/ \E u \in User \ App, c \in Channel, kind \in ChannelType, listed \in SUBSET User :
            CreateChannel(r, u, c, kind, listed)
       \/ \E u \in User \ App, c \in Channel \ Quiet : Check(r, u, c)
       \/ \E u \in User \ App, c \in Channel : CheckMerge(r, u, c)
       \/ \E a \in App, c \in Channel \ Quiet : CheckByApp(r, a, c)
       \/ \E outcome \in Outcomes : Act(r, outcome) \/ ActOnMessage(r, outcome)
       \/ Fail(r)
  \/ Restart

Spec == Init /\ [][Next]_vars

----------------------------------------------------------------------------
\* Whom the creator of c listed and who has not had its turn yet.
Listed == [c \in Channel |->
  {u \in User : \E r \in Request :
     request[r].op = "create" /\ request[r].channel = c /\ u \in request[r].rest}]

Joins(c, u) == ~ IsMember(c, u) /\ members'[c][u] # Absent

\* A direct message takes in whom its creator listed, and nobody else by a join, an
\* invitation or a restart (InviteMember: "DM channels are immutable").
DMIsClosed ==
  [][\A c \in Channel, u \in User : type[c] = "dm" /\ Joins(c, u) => u \in Listed[c]]_vars

Admits(r, c, u) ==
  /\ request[r].op = "invite" /\ request[r].channel = c /\ request[r].account = u
  /\ IsMember(c, request[r].user)

\* Who gets into a private channel is on its creator's list, with its turn still to come,
\* or is invited by a member: between a check and its act nobody else slips in
\* (JoinChannel: private channels "are invite-only").
PrivateByInvitation ==
  [][\A c \in Channel, u \in User : type[c] = "private" /\ Joins(c, u) =>
       u \in Listed[c] \/ \E r \in Request : Admits(r, c, u)]_vars

Promise == INSTANCE AtomicAccess WITH listed <- Listed

\* Whatever other requests, failed writes and crashes come between a check and its
\* act, the outcome is one that handlers could have which check and act at one moment.
ImplementsAtomic == Promise!ASpec

\* Nothing takes a membership away: no failed write, no crash between its row
\* and the index, no restart (AddMemberWithName, load).
MembersStay ==
  [][\A c \in Channel, u \in User : IsMember(c, u) => members'[c][u] # Absent]_vars

\* The messages of a private channel or a DM are from its members, on every path that
\* stores one and after every restart (MergeOps: "Enforce channel membership";
\* IncomingWebhook: "must not be able to post into a private/DM channel the app is not a
\* member of").  One way in is excepted: a merged message that named another channel than
\* its operation, whose author could access the channel that the operation named.
MembersOnly ==
  \A k \in Key : posts[k] # Absent /\ type[k[1]] \in Invited =>
    LET p == posts[k] IN
    \/ IsMember(k[1], p.author)
    \/ p.checked # k[1] /\ CanAccessChannel(p.checked, p.author)

\* The text shown under an author's name is that author's or an admin's
\* (requireMessageAuthor, MergeOpsAs).
OwnText == \A k \in Key : posts[k] # Absent => posts[k].writer \in Admin \cup {posts[k].author}

Renames(u, c) ==
  \E r \in Request : request[r].op = "rename" /\ request[r].user = u /\ request[r].channel = c
                     /\ request'[r] = Idle

\* A name that a member has is replaced by that member alone (AddMemberWithName:
\* "Backfill a name only when one is supplied and the stored name is empty").
NameOnlyBackfilled ==
  [][\A c \in Channel, u \in User :
       members[c][u] \in Name /\ members'[c][u] # members[c][u] => Renames(u, c)]_vars

============================================================================
