------------------------- MODULE ChannelAccessProofs -----------------------
(***************************************************************************)
(* Theorems about ChannelAccess, for any users, channels, messages and     *)
(* requests in flight.  The argument: a request in flight is still         *)
(* authorised when it acts, although others acted since its check, because *)
(* channels keep their type, members stay and messages keep their author.  *)
(* Hence an act does what AtomicAccess lets its caller do at that moment.  *)
(***************************************************************************)
EXTENDS ChannelAccess, TLAPS

\* What the check of a request established still holds.
Authorised(job) ==
  /\ job.op \in {"join", "rename", "send", "merge", "change"} =>
       CanAccessChannel(job.channel, job.user)
  /\ job.op = "invite" =>
       /\ type[job.channel] \notin {Absent, "dm"}
       /\ IsMember(job.channel, job.user)
  /\ job.op = "change" /\ job.user \notin Admin =>
       posts[<<job.channel, job.msg>>] # Absent
       /\ posts[<<job.channel, job.msg>>].author = job.user

\* The author of a message could access the channel that was checked when it came, and its
\* writer is the author or an admin.
Sound(post) ==
  /\ CanAccessChannel(post.checked, post.author)
  /\ post.writer \in Admin \cup {post.author}

PostsSound == \A k \in Key : posts[k] # Absent => Sound(posts[k])
RowsSound == \A k \in Key : saved[k] # Absent => Sound(saved[k])

Inv ==
  /\ TypeOK
  /\ members = rows
  /\ PostsSound
  /\ RowsSound
  /\ \A r \in Request : Authorised(request[r])

LEMMA JobFields ==
  ASSUME NEW job \in Job \cup {Idle}
  PROVE  /\ job.op # "none" => job.user \in User /\ job.channel \in Channel
         /\ job.op = "create" => job.rest \subseteq User
         /\ job.op = "invite" => job.account \in User /\ job.name \in Membership
         /\ job.op = "change" => job.msg \in MsgId
BY DEF Job, Idle

----------------------------------------------------------------------------
\* What no step takes back.
TypesKept == \A c \in Channel : type[c] # Absent => type'[c] = type[c]
MembersKept == \A c \in Channel, u \in User : IsMember(c, u) => members'[c][u] # Absent
AuthorsKept ==
  \A k \in Key : posts[k] # Absent =>
    posts'[k] # Absent /\ posts'[k].author = posts[k].author

LEMMA AuthorisedStays ==
  ASSUME TypesKept, MembersKept, AuthorsKept,
         NEW job \in Job \cup {Idle}, Authorised(job)
  PROVE  Authorised(job)'
<1>1. CASE job.op = "none"
  BY <1>1 DEF Authorised
<1>2. CASE job.op # "none"
  <2>1. job.user \in User /\ job.channel \in Channel /\ (job.op = "change" => job.msg \in MsgId)
    BY <1>2, JobFields
  <2>2. CanAccessChannel(job.channel, job.user) => CanAccessChannel(job.channel, job.user)'
    BY <2>1 DEF CanAccessChannel, TypesKept, MembersKept, IsMember
  <2> QED BY <2>1, <2>2 DEF Authorised, TypesKept, MembersKept, AuthorsKept, IsMember, Key
<1> QED BY <1>1, <1>2

\* A request that changes nothing but itself, and is authorised, is safe.
LEMMA RequestOnly ==
  ASSUME Inv, NEW r \in Request, NEW job \in Job \cup {Idle}, Authorised(job),
         request' = [request EXCEPT ![r] = job],
         type' \in [Channel -> ChannelType \cup {Absent}],
         members' \in [Channel -> [User -> Membership \cup {Absent}]], members' = rows',
         posts' \in [Key -> Post \cup {Absent}], saved' \in [Key -> Post \cup {Absent}],
         TypesKept, MembersKept, AuthorsKept
  PROVE  TypeOK' /\ (members = rows)' /\ \A q \in Request : Authorised(request[q])'
<1>1. TypeOK'
  BY DEF Inv, TypeOK
<1>2. ASSUME NEW q \in Request PROVE Authorised(request[q])'
  <2>1. request'[q] \in Job \cup {Idle} /\ (request'[q] = job \/ request'[q] = request[q])
    BY <1>1 DEF TypeOK, Inv
  <2>2. Authorised(request'[q])
    BY <2>1 DEF Inv
  <2> QED BY <2>1, <2>2, AuthorisedStays DEF Authorised, CanAccessChannel, IsMember
<1> QED BY <1>1, <1>2

\* A message stays sound, since channels keep their type and members stay.
LEMMA SoundStays ==
  ASSUME TypesKept, MembersKept, NEW post \in Post, Sound(post)
  PROVE  Sound(post)'
<1>1. post.checked \in Channel /\ post.author \in User
  BY DEF Post
<1>2. CanAccessChannel(post.checked, post.author)'
  BY <1>1 DEF Sound, CanAccessChannel, TypesKept, MembersKept, IsMember
<1> QED BY <1>2 DEF Sound

LEMMA PostsSafe ==
  ASSUME Inv, TypesKept, MembersKept, UNCHANGED <<posts, saved>>
  PROVE  PostsSound' /\ RowsSound'
<1>1. ASSUME NEW k \in Key, posts[k] # Absent PROVE Sound(posts[k])'
  <2>1. posts[k] \in Post /\ Sound(posts[k])
    BY <1>1 DEF Inv, TypeOK, PostsSound
  <2>2. ASSUME NEW post \in Post, Sound(post) PROVE Sound(post)'
    BY <2>2, SoundStays
  <2> QED BY <2>1, <2>2 DEF Sound, CanAccessChannel, IsMember
<1>2. ASSUME NEW k \in Key, saved[k] # Absent PROVE Sound(saved[k])'
  <2>1. saved[k] \in Post /\ Sound(saved[k])
    BY <1>2 DEF Inv, TypeOK, RowsSound
  <2>2. ASSUME NEW post \in Post, Sound(post) PROVE Sound(post)'
    BY <2>2, SoundStays
  <2> QED BY <2>1, <2>2 DEF Sound, CanAccessChannel, IsMember
<1> QED BY <1>1, <1>2 DEF PostsSound, RowsSound

\* A step of a request that leaves the messages alone.
LEMMA QuietStep ==
  ASSUME Inv, NEW r \in Request, NEW job \in Job \cup {Idle}, Authorised(job),
         request' = [request EXCEPT ![r] = job],
         UNCHANGED <<posts, saved>>, TypesKept, MembersKept,
         type' \in [Channel -> ChannelType \cup {Absent}],
         members' \in [Channel -> [User -> Membership \cup {Absent}]], members' = rows'
  PROVE  Inv'
<1>1. /\ AuthorsKept
      /\ posts' \in [Key -> Post \cup {Absent}] /\ saved' \in [Key -> Post \cup {Absent}]
  BY DEF AuthorsKept, Inv, TypeOK
<1>2. TypeOK' /\ (members = rows)' /\ \A q \in Request : Authorised(request[q])'
  BY <1>1, RequestOnly
<1> QED BY <1>2, PostsSafe DEF Inv

----------------------------------------------------------------------------
LEMMA InitInv == Init => Inv
<1> SUFFICES ASSUME Init PROVE Inv
  OBVIOUS
<1>1. TypeOK
  BY DEF Init, TypeOK, Nobody, ChannelType
<1> QED BY <1>1 DEF Init, Inv, PostsSound, RowsSound, Authorised, Idle

\* A check that allows an authorised job.
LEMMA AllowInv ==
  ASSUME Inv, NEW r \in Request, NEW job \in Job, Authorised(job), Allow(r, job)
  PROVE  Inv'
<1>1. TypesKept /\ MembersKept
  BY DEF Allow, TypesKept, MembersKept, IsMember
<1> QED BY <1>1, QuietStep DEF Allow, Inv, TypeOK

LEMMA CheckInv ==
  ASSUME Inv, NEW r \in Request, NEW u \in User, NEW c \in Channel, Check(r, u, c)
  PROVE  Inv' /\ UNCHANGED <<type, members, posts, saved>>
<1>1. ASSUME NEW op \in {"join", "rename", "send"}, CanAccessChannel(c, u),
             Allow(r, [op |-> op, user |-> u, channel |-> c])
      PROVE  Inv'
  <2> DEFINE job == [op |-> op, user |-> u, channel |-> c]
  <2>1. job \in Job /\ Authorised(job)
    BY <1>1 DEF Job, Authorised
  <2> HIDE DEF job
  <2> QED BY <1>1, <2>1, AllowInv DEF job
<1>2. ASSUME NEW v \in User, NEW name \in Membership, CheckInvite(r, u, c, v, name)
      PROVE  Inv'
  <2> DEFINE job == [op |-> "invite", user |-> u, channel |-> c, account |-> v, name |-> name]
  <2>1. job \in Job /\ Authorised(job)
    BY <1>2 DEF Job, Authorised, CheckInvite, CanAccessChannel
  <2> HIDE DEF job
  <2> QED BY <1>2, <2>1, AllowInv DEF job, CheckInvite
<1>3. ASSUME NEW m \in MsgId, CheckChange(r, u, c, m)
      PROVE  Inv'
  <2> DEFINE job == [op |-> "change", user |-> u, channel |-> c, msg |-> m]
  <2>1. job \in Job /\ Authorised(job)
    BY <1>3 DEF Job, Authorised, CheckChange
  <2> HIDE DEF job
  <2> QED BY <1>3, <2>1, AllowInv DEF job, CheckChange
<1>4. UNCHANGED <<type, members, posts, saved>>
  BY DEF Check, CheckJoin, CheckRename, CheckInvite, CheckSend, CheckReply, CheckChange, Allow
<1> QED BY <1>1, <1>2, <1>3, <1>4
        DEF Check, CheckJoin, CheckRename, CheckSend, CheckReply

LEMMA CheckMergeInv ==
  ASSUME Inv, NEW r \in Request, NEW u \in User, NEW c \in Channel, CheckMerge(r, u, c)
  PROVE  Inv' /\ UNCHANGED <<type, members, posts, saved>>
<1> DEFINE job == [op |-> "merge", user |-> u, channel |-> c]
<1>1. CanAccessChannel(c, u) /\ Allow(r, job)
  BY DEF CheckMerge
<1>2. job \in Job /\ Authorised(job)
  BY <1>1 DEF Job, Authorised
<1> HIDE DEF job
<1> QED BY <1>1, <1>2, AllowInv DEF Allow

LEMMA CheckByAppInv ==
  ASSUME Inv, NEW r \in Request, NEW a \in App, NEW c \in Channel, CheckByApp(r, a, c)
  PROVE  Inv' /\ UNCHANGED <<type, members, posts, saved>>
<1> DEFINE job == [op |-> "send", user |-> a, channel |-> c]
<1>1. CanAccessChannel(c, a) /\ Allow(r, job)
  BY DEF CheckByApp, CheckBotPost, CheckWebhook, CheckAct
<1>2. job \in Job /\ Authorised(job)
  BY <1>1, AppAssumption DEF Job, Authorised
<1> HIDE DEF job
<1> QED BY <1>1, <1>2, AllowInv DEF Allow

LEMMA CreateChannelInv ==
  ASSUME Inv, NEW r \in Request, NEW u \in User, NEW c \in Channel,
         NEW kind \in ChannelType, NEW listed \in SUBSET User,
         CreateChannel(r, u, c, kind, listed)
  PROVE  Inv' /\ UNCHANGED members
<1> DEFINE job == [op |-> "create", user |-> u, channel |-> c,
                   rest |-> IF listed = {} THEN {u} ELSE listed]
<1>1. job \in Job
  BY DEF Job
<1>2. TypesKept /\ MembersKept
  BY DEF Inv, TypeOK, CreateChannel, TypesKept, MembersKept, IsMember
<1>3. Authorised(job)
  BY DEF Authorised
<1> HIDE DEF job
<1> QED BY <1>1, <1>2, <1>3, QuietStep DEF Inv, TypeOK, CreateChannel, job

----------------------------------------------------------------------------
\* The one way in which memberships change: one entry, in memory and in its row.
Saved(c, u, name) ==
  /\ members' = [members EXCEPT ![c][u] = name]
  /\ rows' = [rows EXCEPT ![c][u] = name]

LEMMA SavedType ==
  ASSUME Inv, NEW c \in Channel, NEW u \in User, NEW name \in Membership,
         Saved(c, u, name) \/ UNCHANGED <<members, rows>>
  PROVE  /\ members' \in [Channel -> [User -> Membership \cup {Absent}]]
         /\ members' = rows'
         /\ MembersKept
         /\ \A d \in Channel, v \in User : Joins(d, v) => d = c /\ v = u
<1>1. members \in [Channel -> [User -> Membership \cup {Absent}]] /\ members = rows
  BY DEF Inv, TypeOK
<1>2. name # Absent
  BY NameAssumption DEF Membership
<1>3. CASE UNCHANGED <<members, rows>>
  BY <1>1, <1>3 DEF MembersKept, Joins, IsMember
<1>4. CASE Saved(c, u, name)
  <2>1. members' = rows' /\ members' \in [Channel -> [User -> Membership \cup {Absent}]]
    BY <1>1, <1>4 DEF Saved
  <2>2. \A d \in Channel, v \in User :
          members'[d][v] = IF d = c /\ v = u THEN name ELSE members[d][v]
    BY <1>1, <1>4 DEF Saved
  <2> QED BY <1>2, <2>1, <2>2 DEF MembersKept, Joins, IsMember
<1> QED BY <1>3, <1>4

LEMMA AddEffect ==
  ASSUME NEW c, NEW u, NEW name, NEW outcome, AddMemberWithName(c, u, name, outcome)
  PROVE  Saved(c, u, name) \/ UNCHANGED <<members, rows>>
BY DEF AddMemberWithName, SaveMember, Saved

\* The steps that may change memberships: what r does next, and to whom.
Brings(r, c, u) ==
  /\ c = request[r].channel
  /\ \/ request[r].op = "create" /\ u \in request[r].rest
     \/ request[r].op = "join" /\ u = request[r].user
     \/ request[r].op = "rename" /\ u = request[r].user /\ IsMember(c, u)
     \/ request[r].op = "invite" /\ u = request[r].account

ActResult(r) ==
  /\ UNCHANGED <<type, posts, saved>>
  /\ \E job \in Job \cup {Idle} : Authorised(job) /\ request' = [request EXCEPT ![r] = job]
  /\ \/ UNCHANGED <<members, rows>>
     \/ \E c \in Channel, u \in User, name \in Membership :
          Brings(r, c, u) /\ Saved(c, u, name)

LEMMA ActEffect ==
  ASSUME Inv, NEW r \in Request, NEW outcome, Act(r, outcome)
  PROVE  ActResult(r)
<1>1. /\ request[r] \in Job \cup {Idle}
      /\ request[r].op # "none" => request[r].user \in User /\ request[r].channel \in Channel
      /\ request[r].op = "create" => request[r].rest \subseteq User
      /\ request[r].op = "invite" => request[r].account \in User /\ request[r].name \in Membership
  BY JobFields DEF Inv, TypeOK
<1>2. Authorised(Idle) /\ Idle \in Job \cup {Idle} /\ NoName \in Membership
  BY DEF Authorised, Idle, Membership
<1>3. ASSUME NEW v \in User, NEW name \in Membership, AddListed(r, v, name, outcome)
      PROVE  ActResult(r)
  <2> DEFINE rest == [request[r] EXCEPT !.rest = @ \ {v}]
  <2>1. request[r].op = "create" /\ v \in request[r].rest
    BY <1>3 DEF AddListed
  <2>2. rest \in Job /\ rest.op = "create"
    BY <1>1, <2>1 DEF Job, Idle
  <2>3. Authorised(rest)
    BY <2>2 DEF Authorised
  <2>4. request' = [request EXCEPT ![r] = Idle] \/ request' = [request EXCEPT ![r] = rest]
    BY <1>3 DEF AddListed
  <2> HIDE DEF rest
  <2>5. \E job \in Job \cup {Idle} : Authorised(job) /\ request' = [request EXCEPT ![r] = job]
    BY <1>2, <2>2, <2>3, <2>4
  <2>6. UNCHANGED <<members, rows>> \/ Saved(request[r].channel, v, name)
    BY <1>3, AddEffect DEF AddListed
  <2>7. Brings(r, request[r].channel, v) /\ request[r].channel \in Channel
    BY <1>1, <2>1 DEF Brings
  <2> QED BY <1>3, <2>5, <2>6, <2>7 DEF AddListed, ActResult
<1>4. ASSUME JoinChannel(r, outcome) PROVE ActResult(r)
  <2>1. /\ request[r].op = "join"
        /\ UNCHANGED <<members, rows>> \/ Saved(request[r].channel, request[r].user, NoName)
    BY <1>4, AddEffect DEF JoinChannel
  <2>2. Brings(r, request[r].channel, request[r].user)
    BY <2>1 DEF Brings
  <2> QED BY <1>1, <1>2, <1>4, <2>1, <2>2 DEF JoinChannel, Finish, ActResult
<1>5. ASSUME NEW name \in Membership, SetMyDisplayName(r, name, outcome) PROVE ActResult(r)
  <2>1. /\ request[r].op = "rename"
        /\ \/ UNCHANGED <<members, rows>>
           \/ /\ IsMember(request[r].channel, request[r].user)
              /\ Saved(request[r].channel, request[r].user, name)
    BY <1>5 DEF SetMyDisplayName, SaveMember, Saved
  <2> QED BY <1>1, <1>2, <1>5, <2>1 DEF SetMyDisplayName, Finish, ActResult, Brings
<1>6. ASSUME InviteMember(r, outcome) PROVE ActResult(r)
  <2>1. /\ request[r].op = "invite"
        /\ \/ UNCHANGED <<members, rows>>
           \/ Saved(request[r].channel, request[r].account, request[r].name)
    BY <1>6, AddEffect DEF InviteMember
  <2>2. Brings(r, request[r].channel, request[r].account)
    BY <2>1 DEF Brings
  <2> QED BY <1>1, <1>2, <1>6, <2>1, <2>2 DEF InviteMember, Finish, ActResult
<1> QED BY <1>3, <1>4, <1>5, <1>6 DEF Act

LEMMA ActInv ==
  ASSUME Inv, NEW r \in Request, NEW outcome, Act(r, outcome)
  PROVE  Inv' /\ MembersKept
<1>1. ActResult(r)
  BY ActEffect
<1>2. PICK job \in Job \cup {Idle} : Authorised(job) /\ request' = [request EXCEPT ![r] = job]
  BY <1>1 DEF ActResult
<1>3. /\ members' \in [Channel -> [User -> Membership \cup {Absent}]]
      /\ members' = rows' /\ MembersKept
  <2>1. CASE UNCHANGED <<members, rows>>
    BY <2>1 DEF Inv, TypeOK, MembersKept, IsMember
  <2>2. CASE ~ UNCHANGED <<members, rows>>
    BY <1>1, <2>2, SavedType DEF ActResult
  <2> QED BY <2>1, <2>2
<1>4. UNCHANGED <<type, posts, saved>> /\ TypesKept /\ type' \in [Channel -> ChannelType \cup {Absent}]
  BY <1>1 DEF ActResult, TypesKept, Inv, TypeOK
<1> QED BY <1>2, <1>3, <1>4, QuietStep

----------------------------------------------------------------------------
\* A sound message is put into the index, under its author's name if there is one there
\* already, and a sound row is saved or not.
LEMMA WriteInv ==
  ASSUME Inv, NEW r \in Request, NEW at \in Key, NEW place \in Key,
         NEW post \in Post, NEW row \in Post, Sound(post), Sound(row),
         posts[at] # Absent => posts[at].author = post.author,
         posts' = [posts EXCEPT ![at] = post],
         saved' = saved \/ saved' = [saved EXCEPT ![place] = row],
         Finish(r), UNCHANGED <<type, members, rows>>
  PROVE  Inv'
<1>1. TypesKept /\ MembersKept
  BY DEF TypesKept, MembersKept, IsMember
<1>2. /\ posts \in [Key -> Post \cup {Absent}] /\ saved \in [Key -> Post \cup {Absent}]
      /\ PostsSound /\ RowsSound
  BY DEF Inv, TypeOK
<1>3. /\ posts' \in [Key -> Post \cup {Absent}] /\ saved' \in [Key -> Post \cup {Absent}]
      /\ \A k \in Key : posts'[k] = IF k = at THEN post ELSE posts[k]
      /\ \A k \in Key : saved'[k] = saved[k] \/ saved'[k] = row
  BY <1>2
<1>4. ASSUME NEW p \in Post, Sound(p) PROVE Sound(p)'
  BY <1>1, <1>4, SoundStays
<1>5. ASSUME NEW k \in Key, posts'[k] # Absent PROVE Sound(posts'[k])
  BY <1>2, <1>3, <1>5 DEF PostsSound
<1>6. ASSUME NEW k \in Key, saved'[k] # Absent PROVE Sound(saved'[k])
  BY <1>2, <1>3, <1>6 DEF RowsSound
<1>7. PostsSound' /\ RowsSound'
  BY <1>5, <1>6 DEF PostsSound, RowsSound, Sound, CanAccessChannel, IsMember
<1>8. AuthorsKept
  <2>1. post # Absent
    BY AbsentAssumption
  <2> QED BY <1>3, <2>1 DEF AuthorsKept
<1>9. Authorised(Idle) /\ Idle \in Job \cup {Idle}
  BY DEF Authorised, Idle
<1>10. TypeOK' /\ (members = rows)' /\ \A q \in Request : Authorised(request[q])'
  BY <1>1, <1>3, <1>8, <1>9, RequestOnly DEF Inv, TypeOK, Finish
<1> QED BY <1>7, <1>10 DEF Inv

\* The request ends and nothing else happens.
LEMMA FinishInv ==
  ASSUME Inv, NEW r \in Request, Finish(r), UNCHANGED <<type, members, rows, posts, saved>>
  PROVE  Inv'
<1>1. Authorised(Idle) /\ Idle \in Job \cup {Idle}
  BY DEF Authorised, Idle
<1>2. TypesKept /\ MembersKept
  BY DEF TypesKept, MembersKept, IsMember
<1> QED BY <1>1, <1>2, QuietStep DEF Finish, Inv, TypeOK

\* What a request that acts on a message does: it puts a sound message into the index, or
\* leaves there what is there, and saves a row or not.
MessageResult(r) ==
  \E at \in Key, place \in Key, post \in Post, row \in Post :
    /\ Sound(post) /\ Sound(row)
    /\ posts[at] # Absent => posts[at].author = post.author
    /\ posts' = [posts EXCEPT ![at] = post]
    /\ saved' = saved \/ saved' = [saved EXCEPT ![place] = row]
    /\ Finish(r)
    /\ UNCHANGED <<type, members, rows>>

LEMMA SaveEffect ==
  ASSUME NEW post \in Post, NEW m \in MsgId, NEW outcome, SaveMessage(post, m, outcome)
  PROVE  /\ <<post.home, m>> \in Key
         /\ saved' = saved \/ saved' = [saved EXCEPT ![<<post.home, m>>] = post]
BY DEF SaveMessage, Post, Key

LEMMA SendEffect ==
  ASSUME Inv, NEW r \in Request, NEW m \in MsgId, NEW outcome, SendMessage(r, m, outcome)
  PROVE  MessageResult(r)
<1> DEFINE c == request[r].channel
           u == request[r].user
           at == <<c, m>>
           post == [author |-> u, writer |-> u, home |-> c, checked |-> c]
<1>1. /\ request[r].op = "send" /\ posts' = [posts EXCEPT ![at] = post]
      /\ SaveMessage(post, m, outcome) /\ Finish(r) /\ UNCHANGED <<type, members, rows>>
      /\ at \in Key => posts[at] = Absent
  BY DEF SendMessage
<1>2. u \in User /\ c \in Channel /\ CanAccessChannel(c, u)
  BY <1>1, JobFields DEF Inv, TypeOK, Authorised
<1>3. at \in Key /\ post \in Post /\ Sound(post)
  BY <1>2 DEF Key, Post, Sound
<1> HIDE DEF at, post
<1>4. <<post.home, m>> \in Key
      /\ (saved' = saved \/ saved' = [saved EXCEPT ![<<post.home, m>>] = post])
  BY <1>1, <1>3, SaveEffect
<1> QED BY <1>1, <1>3, <1>4 DEF MessageResult

LEMMA MergeEffect ==
  ASSUME Inv, NEW r \in Request, NEW m \in MsgId, NEW d \in Channel, NEW outcome,
         MergeOps(r, m, d, outcome)
  PROVE  MessageResult(r)
<1> DEFINE c == request[r].channel
           u == request[r].user
           at == <<c, m>>
           post == [author |-> u, writer |-> u, home |-> d, checked |-> c]
           deleted == [posts[at] EXCEPT !.writer = u]
<1>1. /\ request[r].op = "merge" /\ SaveMessage(post, m, outcome) /\ Finish(r)
      /\ UNCHANGED <<type, members, rows>>
      /\ posts[at] # Absent => posts[at].author = u
      /\ \/ posts' = [posts EXCEPT ![at] = post]
         \/ posts[at] # Absent /\ posts' = [posts EXCEPT ![at] = posts[at]]
         \/ posts[at] # Absent /\ posts' = [posts EXCEPT ![at] = deleted]
  BY DEF MergeOps
<1>2. u \in User /\ c \in Channel /\ CanAccessChannel(c, u)
  BY <1>1, JobFields DEF Inv, TypeOK, Authorised
<1>3. at \in Key /\ post \in Post /\ Sound(post) /\ post.author = u
  BY <1>2 DEF Key, Post, Sound
<1>4. posts[at] # Absent =>
        /\ posts[at] \in Post /\ Sound(posts[at])
        /\ deleted \in Post /\ Sound(deleted) /\ deleted.author = u
  <2> SUFFICES ASSUME posts[at] # Absent
               PROVE  /\ posts[at] \in Post /\ Sound(posts[at])
                      /\ deleted \in Post /\ Sound(deleted) /\ deleted.author = u
    OBVIOUS
  <2>1. posts[at] \in Post /\ Sound(posts[at]) /\ posts[at].author = u
    BY <1>1, <1>3 DEF Inv, TypeOK, PostsSound
  <2>2. /\ deleted \in Post /\ deleted.author = posts[at].author /\ deleted.writer = u
        /\ deleted.checked = posts[at].checked
    BY <1>2, <2>1 DEF Post
  <2> HIDE DEF deleted, at
  <2>3. Sound(deleted)
    BY <2>1, <2>2 DEF Sound
  <2> QED BY <2>1, <2>2, <2>3
<1> HIDE DEF at, post, deleted
<1>5. <<post.home, m>> \in Key
      /\ (saved' = saved \/ saved' = [saved EXCEPT ![<<post.home, m>>] = post])
  BY <1>1, <1>3, SaveEffect
<1>6. CASE posts' = [posts EXCEPT ![at] = post]
  BY <1>1, <1>3, <1>5, <1>6 DEF MessageResult
<1>7. CASE posts[at] # Absent /\ posts' = [posts EXCEPT ![at] = posts[at]]
  BY <1>1, <1>3, <1>4, <1>5, <1>7 DEF MessageResult
<1>8. CASE posts[at] # Absent /\ posts' = [posts EXCEPT ![at] = deleted]
  BY <1>1, <1>3, <1>4, <1>5, <1>8 DEF MessageResult
<1> QED BY <1>1, <1>6, <1>7, <1>8

LEMMA ChangeEffect ==
  ASSUME Inv, NEW r \in Request, NEW outcome, ChangeMessage(r, outcome)
  PROVE  MessageResult(r)
<1> DEFINE c == request[r].channel
           u == request[r].user
           m == request[r].msg
           at == <<c, m>>
           changed == [posts[at] EXCEPT !.writer = u]
<1>1. /\ request[r].op = "change" /\ posts[at] # Absent
      /\ SaveMessage(changed, m, outcome) /\ Finish(r) /\ UNCHANGED <<type, members, rows>>
      /\ \/ posts' = [posts EXCEPT ![at] = posts[at]]
         \/ posts' = [posts EXCEPT ![at] = changed]
  BY DEF ChangeMessage
<1>2. /\ u \in User /\ c \in Channel /\ m \in MsgId
      /\ u \notin Admin => posts[at].author = u
  BY <1>1, JobFields DEF Inv, TypeOK, Authorised
<1>3. at \in Key
  BY <1>2 DEF Key
<1>4. posts[at] \in Post /\ Sound(posts[at])
  BY <1>1, <1>3 DEF Inv, TypeOK, PostsSound
<1>5. /\ changed \in Post /\ changed.author = posts[at].author /\ changed.writer = u
      /\ changed.checked = posts[at].checked
  BY <1>2, <1>4 DEF Post
<1> HIDE DEF at, changed, m
<1>6. Sound(changed)
  BY <1>2, <1>4, <1>5 DEF Sound
<1>7. <<changed.home, m>> \in Key
      /\ (saved' = saved \/ saved' = [saved EXCEPT ![<<changed.home, m>>] = changed])
  BY <1>1, <1>2, <1>5, SaveEffect
<1> HIDE DEF c, u
<1>8. CASE posts' = [posts EXCEPT ![at] = posts[at]]
  BY <1>1, <1>3, <1>4, <1>5, <1>6, <1>7, <1>8 DEF MessageResult
<1>9. CASE posts' = [posts EXCEPT ![at] = changed]
  BY <1>1, <1>3, <1>4, <1>5, <1>6, <1>7, <1>9 DEF MessageResult
<1> QED BY <1>1, <1>8, <1>9

LEMMA ActOnMessageInv ==
  ASSUME Inv, NEW r \in Request, NEW outcome, ActOnMessage(r, outcome)
  PROVE  Inv' /\ UNCHANGED <<type, members>>
<1>1. MessageResult(r)
  BY SendEffect, MergeEffect, ChangeEffect DEF ActOnMessage
<1> QED BY <1>1, WriteInv DEF MessageResult

\* Open finds sound rows and makes sound messages of them.
LEMMA RestartInv ==
  ASSUME Inv, Restart
  PROVE  Inv' /\ UNCHANGED <<type, members>>
<1>1. UNCHANGED <<type, members, rows, saved>>
  BY DEF Inv, Restart
<1>2. \A k \in Key : posts'[k] = saved[k] \/ posts'[k] = Absent
  BY DEF Restart, Load
<1>3. TypeOK'
  BY <1>1 DEF Inv, TypeOK, Restart, Load
<1>4. PostsSound' /\ RowsSound'
  BY <1>1, <1>2 DEF Inv, PostsSound, RowsSound, Sound, CanAccessChannel, IsMember
<1>5. \A q \in Request : Authorised(request[q])'
  BY <1>1 DEF Restart, Authorised, Idle
<1> QED BY <1>1, <1>3, <1>4, <1>5 DEF Inv

----------------------------------------------------------------------------
\* Every step keeps the invariant and every membership, and whom it brings in
\* was on a creator's list or has joined, or was invited.
LEMMA StepInv ==
  ASSUME Inv, [Next]_vars
  PROVE  /\ Inv' /\ MembersKept
         /\ \A c \in Channel, u \in User : Joins(c, u) =>
              \E r \in Request : Brings(r, c, u)
<1>1. CASE UNCHANGED <<type, members>> /\ Inv'
  BY <1>1 DEF MembersKept, IsMember, Joins
<1>2. ASSUME NEW r \in Request, NEW outcome, Act(r, outcome)
      PROVE  /\ Inv' /\ MembersKept
             /\ \A c \in Channel, u \in User : Joins(c, u) => Brings(r, c, u)
  <2>1. Inv' /\ MembersKept /\ ActResult(r)
    BY <1>2, ActInv, ActEffect
  <2>2. CASE UNCHANGED <<members, rows>>
    BY <2>1, <2>2 DEF Joins, IsMember
  <2>3. CASE ~ UNCHANGED <<members, rows>>
    BY <2>1, <2>3, SavedType DEF ActResult
  <2> QED BY <2>1, <2>2, <2>3
<1>3. CASE UNCHANGED vars
  BY <1>3 DEF vars, Inv, TypeOK, PostsSound, RowsSound, Sound, Authorised,
              CanAccessChannel, IsMember, MembersKept, Joins
<1>4. CASE Restart
  BY <1>1, <1>4, RestartInv
<1>5. ASSUME NEW r \in Request, NEW outcome, ActOnMessage(r, outcome)
      PROVE  Inv' /\ UNCHANGED <<type, members>>
  BY <1>5, ActOnMessageInv
<1>6. ASSUME NEW r \in Request, NEW u \in User, NEW c \in Channel, Check(r, u, c)
      PROVE  Inv' /\ UNCHANGED members
  BY <1>6, CheckInv
<1>7. ASSUME NEW r \in Request, NEW u \in User, NEW c \in Channel,
             NEW kind \in ChannelType, NEW listed \in SUBSET User,
             CreateChannel(r, u, c, kind, listed)
      PROVE  Inv' /\ UNCHANGED members
  BY <1>7, CreateChannelInv
<1>8. ASSUME NEW r \in Request, NEW a \in App, NEW c \in Channel, CheckByApp(r, a, c)
      PROVE  Inv' /\ UNCHANGED members
  BY <1>8, CheckByAppInv
<1>9. CASE UNCHANGED members /\ Inv'
  BY <1>9 DEF MembersKept, IsMember, Joins
<1>10. ASSUME NEW r \in Request, NEW u \in User, NEW c \in Channel, CheckMerge(r, u, c)
       PROVE  Inv' /\ UNCHANGED members
  BY <1>10, CheckMergeInv
<1>11. ASSUME NEW r \in Request, Fail(r) PROVE Inv' /\ UNCHANGED members
  BY <1>11, FinishInv DEF Fail
<1> QED BY <1>2, <1>3, <1>4, <1>5, <1>6, <1>7, <1>8, <1>9, <1>10, <1>11 DEF Next

\* The inductive invariant holds in every reachable state.
THEOREM InvariantInv == Spec => []Inv
<1>1. Inv /\ [Next]_vars => Inv'
  BY StepInv
<1> QED BY <1>1, InitInv, PTL DEF Spec

\* Memberships are not lost, by failed writes and restarts neither
\* (AddMemberWithName, load).
THEOREM NobodyIsDropped == Spec => MembersStay
<1>1. Inv /\ [Next]_vars =>
        [\A c \in Channel, u \in User : IsMember(c, u) => members'[c][u] # Absent]_vars
  BY StepInv DEF MembersKept
<1> QED BY <1>1, InvariantInv, PTL DEF Spec, MembersStay

\* Who gets into a channel that is not public had its turn on the creator's list, or was
\* invited by a member, in a channel that is no direct message.
LEMMA WhoGetsIn ==
  ASSUME Inv, [Next]_vars, NEW c \in Channel, NEW u \in User, type[c] \in Invited, Joins(c, u)
  PROVE  \/ u \in Listed[c]
         \/ type[c] # "dm" /\ \E r \in Request : Admits(r, c, u)
<1>1. PICK r \in Request : Brings(r, c, u)
  BY StepInv
<1>2. Authorised(request[r]) /\ ~ IsMember(c, u)
  BY DEF Inv, Joins
<1>3. CASE request[r].op = "create" /\ u \in request[r].rest
  BY <1>1, <1>3 DEF Brings, Listed
<1>4. CASE request[r].op = "invite" /\ u = request[r].account
  BY <1>1, <1>2, <1>4 DEF Brings, Authorised, Admits
<1> QED BY <1>1, <1>2, <1>3, <1>4 DEF Brings, Authorised, CanAccessChannel

\* A direct message takes in nobody but whom its creator listed (InviteMember).
THEOREM DMStaysClosed == Spec => DMIsClosed
<1>1. Inv /\ [Next]_vars =>
        [\A c \in Channel, u \in User : type[c] = "dm" /\ Joins(c, u) => u \in Listed[c]]_vars
  BY WhoGetsIn DEF Invited
<1> QED BY <1>1, InvariantInv, PTL DEF Spec, DMIsClosed

\* A private channel takes in whom its creator listed or a member invites, in
\* spite of everything that happens between a check and its act (JoinChannel,
\* InviteMember).
THEOREM PrivateStaysPrivate == Spec => PrivateByInvitation
<1>1. Inv /\ [Next]_vars =>
        [\A c \in Channel, u \in User : type[c] = "private" /\ Joins(c, u) =>
           u \in Listed[c] \/ \E r \in Request : Admits(r, c, u)]_vars
  BY WhoGetsIn DEF Invited
<1> QED BY <1>1, InvariantInv, PTL DEF Spec, PrivateByInvitation

\* What a handler's check found holds until it acts, whatever others do in between
\* (requireChannelAccess, requireMessageAuthor, InviteMember).
THEOREM ChecksStayGood == Spec => [](\A r \in Request : Authorised(request[r]))
<1>1. Inv => \A r \in Request : Authorised(request[r])
  BY DEF Inv
<1> QED BY <1>1, InvariantInv, PTL

\* The messages of a private channel are from its members, after every restart too, but
\* for merged ones that named it while their operation named a channel that their author
\* could access (SendMessage, MergeOps, IncomingWebhook).
THEOREM MessagesAreMembers == Spec => []MembersOnly
<1>1. Inv => MembersOnly
  BY DEF Inv, PostsSound, Sound, MembersOnly, CanAccessChannel
<1> QED BY <1>1, InvariantInv, PTL

\* A text is its author's or an admin's, whoever may change it in between
\* (requireMessageAuthor, MergeOpsAs).
THEOREM TextsAreOwn == Spec => []OwnText
<1>1. Inv => OwnText
  BY DEF Inv, PostsSound, Sound, OwnText
<1> QED BY <1>1, InvariantInv, PTL

----------------------------------------------------------------------------
\* The refinement.

\* A channel is created by one request, which has given it its type.
Creators ==
  \A r \in Request : request[r].op = "create" =>
    /\ type[request[r].channel] # Absent
    /\ \A q \in Request :
         request[q].op = "create" /\ request[q].channel = request[r].channel => q = r

\* A request that goes on to something else than creating leaves the lists alone.
LEMMA ListsSame ==
  ASSUME TypeOK, NEW r \in Request, NEW job, request' = [request EXCEPT ![r] = job],
         request[r].op # "create", job.op # "create"
  PROVE  Listed' = Listed
<1>1. \A q \in Request : request'[q] = IF q = r THEN job ELSE request[q]
  BY DEF TypeOK
<1>2. \A q \in Request, c \in Channel, u \in User :
        (request'[q].op = "create" /\ request'[q].channel = c /\ u \in request'[q].rest) <=>
        (request[q].op = "create" /\ request[q].channel = c /\ u \in request[q].rest)
  BY <1>1
<1>3. \A c \in Channel :
        {u \in User : \E q \in Request :
           request'[q].op = "create" /\ request'[q].channel = c /\ u \in request'[q].rest} =
        {u \in User : \E q \in Request :
           request[q].op = "create" /\ request[q].channel = c /\ u \in request[q].rest}
  BY <1>2
<1> QED BY <1>3 DEF Listed

LEMMA CreatorsKept ==
  ASSUME TypeOK, Creators, TypesKept, NEW r \in Request, NEW job,
         request' = [request EXCEPT ![r] = job],
         job.op = "create" => request[r].op = "create" /\ job.channel = request[r].channel
  PROVE  Creators'
<1>1. \A q \in Request : request'[q] = IF q = r THEN job ELSE request[q]
  BY DEF TypeOK
<1>2. \A q \in Request : request'[q].op = "create" =>
        request[q].op = "create" /\ request'[q].channel = request[q].channel
  BY <1>1
<1>3. \A q \in Request : request[q].op = "create" => request[q].channel \in Channel
  BY JobFields DEF TypeOK
<1> QED BY <1>2, <1>3 DEF Creators, TypesKept

\* Nobody but r creates c.
AloneCreates(r, c) ==
  \A q \in Request : request[q].op = "create" /\ request[q].channel = c => q = r

\* What the list of c is when r alone works on it, and after r's next step.
LEMMA ListOfCreator ==
  ASSUME TypeOK, NEW r \in Request, NEW job, NEW c \in Channel,
         request' = [request EXCEPT ![r] = job],
         request[r].op = "create" => request[r].channel = c,
         job.op = "create" => job.channel = c,
         AloneCreates(r, c),
         NEW u \in User
  PROVE  /\ u \in Listed'[c] <=> job.op = "create" /\ u \in job.rest
         /\ u \in Listed[c] <=> request[r].op = "create" /\ u \in request[r].rest
<1>1. \A q \in Request : request'[q] = IF q = r THEN job ELSE request[q]
  BY DEF TypeOK
<1>2. (\E q \in Request :
         request'[q].op = "create" /\ request'[q].channel = c /\ u \in request'[q].rest)
      <=> job.op = "create" /\ u \in job.rest
  BY <1>1 DEF AloneCreates
<1>3. (\E q \in Request :
         request[q].op = "create" /\ request[q].channel = c /\ u \in request[q].rest)
      <=> request[r].op = "create" /\ u \in request[r].rest
  BY DEF AloneCreates
<1> QED BY <1>2, <1>3 DEF Listed

\* The lists of the other channels are not touched by it.
LEMMA OtherLists ==
  ASSUME TypeOK, NEW r \in Request, NEW job, NEW c \in Channel,
         request' = [request EXCEPT ![r] = job],
         request[r].op = "create" => request[r].channel = c,
         job.op = "create" => job.channel = c,
         NEW d \in Channel, d # c, NEW u \in User
  PROVE  u \in Listed'[d] <=> u \in Listed[d]
<1>1. \A q \in Request : request'[q] = IF q = r THEN job ELSE request[q]
  BY DEF TypeOK
<1>2. \A q \in Request :
        /\ request'[q].op = "create" /\ request'[q].channel = d <=>
           request[q].op = "create" /\ request[q].channel = d
        /\ request[q].op = "create" /\ request[q].channel = d => request'[q] = request[q]
  BY <1>1
<1>3. (\E q \in Request :
         request'[q].op = "create" /\ request'[q].channel = d /\ u \in request'[q].rest)
      <=>
      (\E q \in Request :
         request[q].op = "create" /\ request[q].channel = d /\ u \in request[q].rest)
  BY <1>2
<1> QED BY <1>3 DEF Listed

\* Lists are equal when they have the same people.
LEMMA ListsAre ==
  ASSUME NEW c \in Channel, NEW S \in SUBSET User,
         \A u \in User : u \in Listed'[c] <=> u \in S,
         \A d \in Channel, u \in User : d # c => (u \in Listed'[d] <=> u \in Listed[d])
  PROVE  Listed' = [Listed EXCEPT ![c] = S]
<1>1. \A d \in Channel : Listed'[d] \subseteq User /\ Listed[d] \subseteq User
  BY DEF Listed
<1>2. Listed'[c] = S /\ \A d \in Channel : d # c => Listed'[d] = Listed[d]
  BY <1>1
<1>3. Listed = [d \in Channel |-> Listed[d]] /\ Listed' = [d \in Channel |-> Listed'[d]]
  BY DEF Listed
<1> QED BY <1>2, <1>3

\* Nothing that the promise speaks of changes: a check, a refusal.
LEMMA Stutter ==
  ASSUME UNCHANGED <<type, members, posts, saved>>, Listed' = Listed
  PROVE  UNCHANGED Promise!avars
BY DEF Promise!avars

----------------------------------------------------------------------------
LEMMA CreateRefines ==
  ASSUME Inv, Creators, NEW r \in Request, NEW u \in User, NEW c \in Channel,
         NEW kind \in ChannelType, NEW people \in SUBSET User,
         CreateChannel(r, u, c, kind, people)
  PROVE  Promise!ANext /\ Creators'
<1> DEFINE rest == IF people = {} THEN {u} ELSE people
           job == [op |-> "create", user |-> u, channel |-> c, rest |-> rest]
<1>1. /\ request[r] = Idle /\ type[c] = Absent /\ type' = [type EXCEPT ![c] = kind]
      /\ request' = [request EXCEPT ![r] = job]
      /\ UNCHANGED <<members, posts, saved>>
  BY DEF CreateChannel
<1>2. rest \in SUBSET User /\ job.op = "create" /\ job.channel = c /\ job.rest = rest
  OBVIOUS
<1> HIDE DEF rest, job
<1>3. request[r].op # "create" /\ TypeOK
  BY <1>1 DEF Idle, Inv
<1>4. \A q \in Request : request[q].op = "create" =>
        request[q].channel # c /\ request[q].channel \in Channel
  BY <1>1, <1>3, JobFields DEF Creators, TypeOK
<1>5. \A v \in User : v \in Listed'[c] <=> v \in rest
  <2>1. AloneCreates(r, c)
    BY <1>4 DEF AloneCreates
  <2> QED BY <1>1, <1>2, <1>3, <2>1, ListOfCreator
<1>6. \A d \in Channel, v \in User : d # c => (v \in Listed'[d] <=> v \in Listed[d])
  BY <1>1, <1>2, <1>3, OtherLists
<1>7. Listed' = [Listed EXCEPT ![c] = rest]
  BY <1>2, <1>5, <1>6, ListsAre
<1>8. Promise!Create(c, kind, rest)
  BY <1>1, <1>7 DEF Promise!Create
<1>9. Creators'
  <2>1. \A q \in Request : request'[q] = IF q = r THEN job ELSE request[q]
    BY <1>1, <1>3 DEF TypeOK
  <2>2. type'[c] # Absent /\ \A d \in Channel \ {c} : type'[d] = type[d]
    <3>1. kind # Absent
      BY <1>1, <1>3, AbsentAssumption, TypeAssumption
    <3> QED BY <1>1, <1>3, <3>1 DEF TypeOK
  <2> QED BY <1>2, <1>4, <2>1, <2>2 DEF Creators
<1> QED BY <1>2, <1>8, <1>9 DEF Promise!ANext, ChannelType

LEMMA AddListedRefines ==
  ASSUME Inv, Creators, NEW r \in Request, NEW v \in User, NEW name \in Membership, NEW outcome,
         AddListed(r, v, name, outcome)
  PROVE  Promise!ANext /\ Creators'
<1> DEFINE c == request[r].channel
           job == IF request[r].rest = {v} THEN Idle
                  ELSE [request[r] EXCEPT !.rest = @ \ {v}]
<1>1. /\ request[r].op = "create" /\ v \in request[r].rest
      /\ request' = [request EXCEPT ![r] = job]
      /\ UNCHANGED <<type, posts, saved>>
  BY DEF AddListed
<1>2. TypeOK /\ request[r] \in Job /\ c \in Channel
  BY <1>1, JobFields DEF Inv, TypeOK, Idle
<1>3. \/ job.op # "create" /\ request[r].rest = {v}
      \/ job.op = "create" /\ job.channel = c /\ job.rest = request[r].rest \ {v}
  <2>1. CASE request[r].rest = {v}
    BY <2>1 DEF Idle
  <2>2. CASE request[r].rest # {v}
    <3>1. /\ [request[r] EXCEPT !.rest = @ \ {v}].op = request[r].op
          /\ [request[r] EXCEPT !.rest = @ \ {v}].channel = c
          /\ [request[r] EXCEPT !.rest = @ \ {v}].rest = request[r].rest \ {v}
      BY <1>1, <1>2 DEF Job
    <3> QED BY <1>1, <2>2, <3>1
  <2> QED BY <2>1, <2>2
<1> HIDE DEF job
<1>4. AloneCreates(r, c)
  BY <1>1 DEF Creators, AloneCreates
<1>5. \A u \in User :
        /\ u \in Listed'[c] <=> job.op = "create" /\ u \in job.rest
        /\ u \in Listed[c] <=> u \in request[r].rest
  <2>1. request[r].op = "create" => request[r].channel = c
    OBVIOUS
  <2>2. job.op = "create" => job.channel = c
    BY <1>3
  <2> HIDE DEF c
  <2> QED BY <1>1, <1>2, <1>4, <2>1, <2>2, ListOfCreator
<1>6. \A d \in Channel, u \in User : d # c => (u \in Listed'[d] <=> u \in Listed[d])
  BY <1>1, <1>2, <1>3, OtherLists
<1> HIDE DEF c
<1>7. v \in Listed[c] /\ Listed' = [Listed EXCEPT ![c] = Listed[c] \ {v}]
  <2>1. \A u \in User : u \in Listed'[c] <=> u \in Listed[c] \ {v}
    BY <1>1, <1>3, <1>5
  <2>2. Listed[c] \ {v} \in SUBSET User
    BY <1>2 DEF Listed
  <2> QED BY <1>1, <1>2, <1>5, <1>6, <2>1, <2>2, ListsAre
<1>8. Saved(c, v, name) \/ UNCHANGED <<members, rows>>
  BY AddEffect DEF AddListed, c
<1>9. Promise!AddListed(c, v, name)
  BY <1>1, <1>7, <1>8 DEF Saved, Promise!AddListed, Promise!Enter
<1>10. Creators'
  <2>1. TypesKept
    BY <1>1 DEF TypesKept
  <2> QED BY <1>1, <1>2, <1>3, <2>1, CreatorsKept DEF c
<1> QED BY <1>2, <1>9, <1>10 DEF Promise!ANext, Promise!Arrange, Membership

\* A request, not one that creates, that is over or starts.
LEMMA TurnKeeps ==
  ASSUME TypeOK, Creators, UNCHANGED type, NEW r \in Request, NEW job,
         request' = [request EXCEPT ![r] = job], request[r].op # "create", job.op # "create"
  PROVE  Listed' = Listed /\ Creators'
<1>1. TypesKept
  BY DEF TypesKept
<1> QED BY <1>1, ListsSame, CreatorsKept

LEMMA CheckRefines ==
  ASSUME Inv, Creators, NEW r \in Request, NEW u, NEW c,
         Check(r, u, c) \/ CheckMerge(r, u, c) \/ CheckByApp(r, u, c)
  PROVE  UNCHANGED Promise!avars /\ Creators'
<1>1. PICK job : Allow(r, job) /\ job.op # "create"
  <2> DEFINE Starts == \E job : Allow(r, job) /\ job.op # "create"
  <2>1. ASSUME NEW op \in {"join", "rename", "send", "merge"},
               Allow(r, [op |-> op, user |-> u, channel |-> c])
        PROVE  Starts
    <3>1. [op |-> op, user |-> u, channel |-> c].op # "create"
      OBVIOUS
    <3> QED BY <2>1, <3>1, Zenon
  <2>2. ASSUME NEW v \in User, NEW name \in Membership, CheckInvite(r, u, c, v, name)
        PROVE  Starts
    <3> DEFINE invite ==
          [op |-> "invite", user |-> u, channel |-> c, account |-> v, name |-> name]
    <3>1. invite.op # "create"
      OBVIOUS
    <3>2. Allow(r, invite)
      BY <2>2, Zenon DEF CheckInvite
    <3> QED BY <3>1, <3>2, Zenon
  <2>3. ASSUME NEW m \in MsgId, CheckChange(r, u, c, m)
        PROVE  Starts
    <3> DEFINE change == [op |-> "change", user |-> u, channel |-> c, msg |-> m]
    <3>1. change.op # "create"
      OBVIOUS
    <3>2. Allow(r, change)
      BY <2>3, Zenon DEF CheckChange
    <3> QED BY <3>1, <3>2, Zenon
  <2> HIDE DEF Starts
  <2>4. Starts
    BY <2>1, <2>2, <2>3, Zenon
       DEF Check, CheckJoin, CheckRename, CheckSend, CheckReply, CheckMerge,
           CheckByApp, CheckBotPost, CheckWebhook, CheckAct
  <2> QED BY <2>4, Zenon DEF Starts
<1>2. request[r].op # "create" /\ UNCHANGED <<type, members, posts, saved>>
  BY <1>1 DEF Allow, Idle
<1>3. Listed' = Listed /\ Creators'
  BY <1>1, <1>2, TurnKeeps DEF Allow, Inv
<1> QED BY <1>2, <1>3, Stutter

LEMMA ActRefines ==
  ASSUME Inv, Creators, NEW r \in Request, NEW outcome, Act(r, outcome)
  PROVE  (Promise!ANext \/ UNCHANGED Promise!avars) /\ Creators'
<1> DEFINE c == request[r].channel
           u == request[r].user
<1>1. /\ TypeOK /\ Authorised(request[r])
      /\ request[r].op # "none" => u \in User /\ c \in Channel
      /\ request[r].op = "invite" => request[r].account \in User /\ request[r].name \in Membership
  BY JobFields DEF Inv, TypeOK
<1>2. NoName \in Membership /\ Idle.op # "create"
  BY DEF Membership, Idle
<1>3. ASSUME NEW v \in User, NEW name \in Membership, AddListed(r, v, name, outcome)
      PROVE  Promise!ANext /\ Creators'
  BY <1>3, AddListedRefines
<1>4. ASSUME request[r].op \in {"join", "rename", "invite"}, Finish(r), UNCHANGED <<type, posts, saved>>
      PROVE  /\ Listed' = Listed /\ Creators'
             /\ UNCHANGED members => UNCHANGED Promise!avars
  <2>1. Listed' = Listed /\ Creators'
    BY <1>1, <1>2, <1>4, TurnKeeps DEF Finish
  <2> QED BY <1>4, <2>1, Stutter
<1>5. ASSUME JoinChannel(r, outcome)
      PROVE  (Promise!ANext \/ UNCHANGED Promise!avars) /\ Creators'
  <2>1. /\ request[r].op = "join" /\ Finish(r) /\ UNCHANGED <<type, posts, saved>>
        /\ AddMemberWithName(c, u, NoName, outcome)
    BY <1>5 DEF JoinChannel
  <2>2. Listed' = Listed /\ Creators' /\ (UNCHANGED members => UNCHANGED Promise!avars)
    BY <1>4, <2>1
  <2>3. UNCHANGED members \/ (~ IsMember(c, u) /\ Saved(c, u, NoName))
    BY <2>1 DEF AddMemberWithName, SaveMember, Saved
  <2>4. CASE ~ IsMember(c, u) /\ Saved(c, u, NoName)
    <3>1. u \in User /\ c \in Channel /\ CanAccessChannel(c, u)
      BY <1>1, <2>1 DEF Authorised
    <3>2. type[c] = "public"
      BY <1>1, <2>4, <3>1 DEF CanAccessChannel, Invited, TypeOK, ChannelType
    <3>3. Promise!Join(c, u)
      BY <2>1, <2>2, <2>4, <3>2 DEF Saved, IsMember, Promise!Join, Promise!Enter, Promise!Member
    <3> QED BY <2>2, <3>1, <3>3 DEF Promise!ANext, Promise!Arrange
  <2> QED BY <2>2, <2>3, <2>4
<1>6. ASSUME NEW name \in Membership, SetMyDisplayName(r, name, outcome)
      PROVE  (Promise!ANext \/ UNCHANGED Promise!avars) /\ Creators'
  <2>1. /\ request[r].op = "rename" /\ Finish(r) /\ UNCHANGED <<type, posts, saved>>
        /\ UNCHANGED members \/ (IsMember(c, u) /\ Saved(c, u, name))
    BY <1>6 DEF SetMyDisplayName, SaveMember, Saved
  <2>2. Listed' = Listed /\ Creators' /\ (UNCHANGED members => UNCHANGED Promise!avars)
    BY <1>4, <2>1
  <2>3. CASE IsMember(c, u) /\ Saved(c, u, name)
    <3>1. u \in User /\ c \in Channel
      BY <1>1, <2>1
    <3>2. Promise!Rename(c, u, name)
      BY <2>1, <2>2, <2>3 DEF Saved, IsMember, Promise!Rename, Promise!Enter, Promise!Member
    <3> QED BY <2>2, <3>1, <3>2 DEF Promise!ANext, Promise!Arrange, Membership
  <2> QED BY <2>1, <2>2, <2>3
<1>7. ASSUME InviteMember(r, outcome)
      PROVE  (Promise!ANext \/ UNCHANGED Promise!avars) /\ Creators'
  <2> DEFINE v == request[r].account
             name == request[r].name
  <2>1. /\ request[r].op = "invite" /\ Finish(r) /\ UNCHANGED <<type, posts, saved>>
        /\ UNCHANGED members \/ Saved(c, v, name)
    BY <1>7, AddEffect DEF InviteMember
  <2>2. Listed' = Listed /\ Creators' /\ (UNCHANGED members => UNCHANGED Promise!avars)
    BY <1>4, <2>1
  <2>3. CASE Saved(c, v, name)
    <3>1. u \in User /\ c \in Channel /\ v \in User /\ name \in Membership
      BY <1>1, <2>1
    <3>2. type[c] \in {"public", "private"} /\ IsMember(c, u)
      BY <1>1, <2>1, <3>1 DEF Authorised, TypeOK, ChannelType
    <3>3. Promise!Invite(c, u, v, name)
      BY <2>1, <2>2, <2>3, <3>2 DEF Saved, IsMember, Promise!Invite, Promise!Enter, Promise!Member
    <3> QED BY <2>2, <3>1, <3>3 DEF Promise!ANext, Promise!Arrange, Membership
  <2> QED BY <2>1, <2>2, <2>3
<1> QED BY <1>3, <1>5, <1>6, <1>7 DEF Act

\* A row is saved or not.
LEMMA SaveRefines ==
  ASSUME NEW post, NEW m, NEW outcome, SaveMessage(post, m, outcome)
  PROVE  Promise!Save(post, m)
BY DEF SaveMessage, Promise!Save

LEMMA ActOnMessageRefines ==
  ASSUME Inv, Creators, NEW r \in Request, NEW outcome, ActOnMessage(r, outcome) \/ Fail(r)
  PROVE  (Promise!ANext \/ UNCHANGED Promise!avars) /\ Creators'
<1> DEFINE c == request[r].channel
           u == request[r].user
<1>1. /\ TypeOK /\ Authorised(request[r])
      /\ request[r].op # "none" => u \in User /\ c \in Channel
      /\ request[r].op = "change" => request[r].msg \in MsgId
  BY JobFields DEF Inv, TypeOK
<1>2. /\ request[r].op \in {"send", "merge", "change"} /\ Finish(r)
      /\ UNCHANGED <<type, members, rows>>
  BY DEF ActOnMessage, SendMessage, ChangeMessage, MergeOps, Fail
<1>3. Listed' = Listed /\ Creators'
  <2>1. Idle.op # "create"
    BY DEF Idle
  <2> QED BY <1>1, <1>2, <2>1, TurnKeeps DEF Finish
<1>4. u \in User /\ c \in Channel /\ CanAccessChannel(c, u)
  BY <1>1, <1>2 DEF Authorised
<1>5. Promise!Allowed(c, u)
  BY <1>1, <1>4
     DEF CanAccessChannel, Invited, IsMember, TypeOK, ChannelType, Promise!Allowed, Promise!Member
<1> HIDE DEF c, u
<1>6. ASSUME NEW m \in MsgId, SendMessage(r, m, outcome) PROVE Promise!ANext
  <2> DEFINE post == [author |-> u, writer |-> u, home |-> c, checked |-> c]
             at == <<c, m>>
  <2>1. /\ posts' = [posts EXCEPT ![at] = post] /\ SaveMessage(post, m, outcome)
        /\ at \in Key => posts[at] = Absent
    BY <1>6 DEF SendMessage, c, u
  <2>2. posts[at] = Absent /\ type[c] # Absent
    BY <1>4, <2>1 DEF Key, CanAccessChannel
  <2>3. Promise!Save(post, m)
    BY <2>1, SaveRefines
  <2>4. Promise!Write(c, c, u, m)
    BY <1>2, <1>3, <1>5, <2>1, <2>2, <2>3 DEF Promise!Write
  <2> QED BY <1>4, <2>4 DEF Promise!ANext, Promise!Post
<1>7. ASSUME NEW m \in MsgId, NEW d \in Channel, MergeOps(r, m, d, outcome) PROVE Promise!ANext
  <2> DEFINE post == [author |-> u, writer |-> u, home |-> d, checked |-> c]
             at == <<c, m>>
  <2>1. /\ type[d] # Absent /\ SaveMessage(post, m, outcome)
        /\ posts[at] # Absent => posts[at].author = u
        /\ \/ posts' = [posts EXCEPT ![at] = post]
           \/ posts[at] # Absent /\ posts' = [posts EXCEPT ![at] = posts[at]]
           \/ posts[at] # Absent /\ posts' = [posts EXCEPT ![at] = [posts[at] EXCEPT !.writer = u]]
    BY <1>7 DEF MergeOps, c, u
  <2>2. Promise!Save(post, m)
    BY <2>1, SaveRefines
  <2>3. [posts EXCEPT ![at] = posts[at]] = posts
    BY <1>1 DEF TypeOK
  <2>4. [posts EXCEPT ![at] = [posts[at] EXCEPT !.writer = u]] = [posts EXCEPT ![at].writer = u]
    OBVIOUS
  <2>5. Promise!Write(c, d, u, m)
    BY <1>2, <1>3, <1>5, <2>1, <2>2, <2>3, <2>4 DEF Promise!Write
  <2> QED BY <1>4, <2>5 DEF Promise!ANext, Promise!Post
<1>8. ASSUME ChangeMessage(r, outcome) PROVE Promise!ANext
  <2> DEFINE m == request[r].msg
             at == <<c, m>>
             changed == [posts[at] EXCEPT !.writer = u]
  <2>1. /\ request[r].op = "change" /\ m \in MsgId /\ posts[at] # Absent
        /\ SaveMessage(changed, m, outcome)
        /\ \E post \in {posts[at], changed} : posts' = [posts EXCEPT ![at] = post]
    BY <1>1, <1>8 DEF ChangeMessage, c, u
  <2>2. u \in Admin \/ posts[at].author = u
    BY <1>1, <2>1 DEF Authorised, c, u
  <2>3. Promise!Save(changed, m)
    BY <2>1, SaveRefines
  <2>4. [posts EXCEPT ![at] = posts[at]] = posts
    BY <1>1 DEF TypeOK
  <2>5. posts' \in {posts, [posts EXCEPT ![at].writer = u]}
    BY <2>1, <2>4
  <2> HIDE DEF m
  <2>6. Promise!Change(c, u, m)
    BY <1>2, <1>3, <1>5, <2>1, <2>2, <2>3, <2>5 DEF Promise!Change
  <2> QED BY <1>4, <2>1, <2>6 DEF Promise!ANext, Promise!Post
<1>9. ASSUME Fail(r) PROVE UNCHANGED Promise!avars
  BY <1>2, <1>3, <1>9, Stutter DEF Fail
<1> QED BY <1>3, <1>6, <1>7, <1>8, <1>9 DEF ActOnMessage

LEMMA RestartRefines ==
  ASSUME Inv, Restart
  PROVE  Promise!ANext /\ Creators'
<1>1. UNCHANGED <<type, members, saved>> /\ \A r \in Request : request'[r].op # "create"
  BY DEF Inv, Restart, Idle
<1>2. Listed' = [c \in Channel |-> {}]
  BY <1>1 DEF Listed
<1>3. Promise!Crash
  BY <1>1, <1>2 DEF Promise!Crash, Restart, Load, Key
<1> QED BY <1>1, <1>3 DEF Promise!ANext, Creators

\* Handlers that check and then act, with other requests, failed writes and crashes in
\* between, do what handlers could do that check and act at one moment: the access that a
\* check found is still there when the request acts (spaces.go, bots_api.go).
THEOREM HandlersAreAtomic == Spec => ImplementsAtomic
<1>1. Init => Promise!AInit /\ Creators
  <2> SUFFICES ASSUME Init PROVE Promise!AInit /\ Creators
    OBVIOUS
  <2>1. \A r \in Request : request[r].op # "create"
    BY DEF Init, Idle
  <2>2. Listed = [c \in Channel |-> {}]
    BY <2>1 DEF Listed
  <2> QED BY <2>1, <2>2 DEF Init, Nobody, Key, Creators, Promise!AInit
<1>2. Inv /\ Creators /\ [Next]_vars => [Promise!ANext]_Promise!avars /\ Creators'
  <2> SUFFICES ASSUME Inv, Creators, [Next]_vars
               PROVE  (Promise!ANext \/ UNCHANGED Promise!avars) /\ Creators'
    OBVIOUS
  <2>1. CASE UNCHANGED vars
    <3>1. UNCHANGED <<type, members, posts, saved>> /\ Listed' = Listed
      BY <2>1 DEF vars, Listed
    <3> QED BY <2>1, <3>1, Stutter DEF vars, Creators
  <2>2. ASSUME NEW r \in Request, NEW u \in User \ App, NEW c \in Channel,
               NEW kind \in ChannelType, NEW listed \in SUBSET User,
               CreateChannel(r, u, c, kind, listed)
        PROVE  Promise!ANext /\ Creators'
    BY <2>2, CreateRefines
  <2> QED BY <2>1, <2>2, CheckRefines, ActRefines, ActOnMessageRefines, RestartRefines DEF Next
<1> QED BY <1>1, <1>2, InvariantInv, PTL DEF Spec, ImplementsAtomic, Promise!ASpec

============================================================================
