---------------------------- MODULE AtomicAccess ---------------------------
(***************************************************************************)
(* What the channel handlers of backend/handlers/spaces.go promise: every  *)
(* request takes effect at one moment, and at that moment its caller is    *)
(* allowed to make it.  There are no requests in flight here and no rows   *)
(* of members; only the list of a channel's creator is worked off one     *)
(* person at a time, and its rest is lost by a crash, as the code has it.  *)
(* What a crash leaves of the messages is what was saved of them, under    *)
(* the channel that each names.                                            *)
(***************************************************************************)

CONSTANTS User, Admin, Name, NoName, Absent, Channel, Seeded, MsgId

VARIABLES
  type,     \* type[c]: the type of channel c, or Absent
  members,  \* members[c][u]: u's display name in c, or Absent
  posts,    \* posts[k]: message k, or Absent
  saved,    \* saved[k]: what a crash would leave of it
  listed    \* listed[c]: whom the creator of c named and who is not in yet

avars == <<type, members, posts, saved, listed>>

AInit ==
  /\ type = [c \in Channel |-> IF c \in Seeded THEN "public" ELSE Absent]
  /\ members = [c \in Channel |-> [u \in User |-> Absent]]
  /\ posts = [k \in Channel \X MsgId |-> Absent]
  /\ saved = posts
  /\ listed = [c \in Channel |-> {}]

Member(c, u) == members[c][u] # Absent
Allowed(c, u) == type[c] # Absent /\ (type[c] = "public" \/ Member(c, u))

Create(c, kind, people) ==
  /\ type[c] = Absent
  /\ type' = [type EXCEPT ![c] = kind]
  /\ listed' = [listed EXCEPT ![c] = people]
  /\ UNCHANGED <<members, posts, saved>>

Enter(c, u, name) ==
  /\ members' = [members EXCEPT ![c][u] = name]
  /\ UNCHANGED <<type, posts, saved>>

\* The next on the creator's list; it may fail, and the person stays out.
AddListed(c, u, name) ==
  /\ u \in listed[c]
  /\ listed' = [listed EXCEPT ![c] = @ \ {u}]
  /\ Enter(c, u, name) \/ UNCHANGED <<type, members, posts, saved>>

Join(c, u) ==
  /\ type[c] = "public"
  /\ ~ Member(c, u)
  /\ Enter(c, u, NoName)
  /\ UNCHANGED listed

\* A member brings in somebody else, but never into a DM. That u is not a member yet
\* is no part of the promise: see NameOnlyBackfilled.
Invite(c, inviter, u, name) ==
  /\ type[c] \in {"public", "private"}
  /\ Enter(c, u, name)
  /\ Member(c, inviter)
  /\ UNCHANGED listed

Rename(c, u, name) ==
  /\ Member(c, u)
  /\ Enter(c, u, name)
  /\ UNCHANGED listed

\* A write may fail to be saved, which its author is told.
Save(post, m) == saved' \in {saved, [saved EXCEPT ![<<post.home, m>>] = post]}

\* A new message that names channel d, or one of u's own left alone, deleted or replaced.
Write(c, d, u, m) ==
  LET k == <<c, m>>
      post == [author |-> u, writer |-> u, home |-> d, checked |-> c] IN
  /\ Allowed(c, u)
  /\ type[d] # Absent
  /\ posts[k] # Absent => posts[k].author = u
  /\ \/ posts' = [posts EXCEPT ![k] = post]
     \/ posts[k] # Absent /\ posts' \in {posts, [posts EXCEPT ![k].writer = u]}
  /\ Save(post, m)
  /\ UNCHANGED <<type, members, listed>>

\* The author or an admin changes what is there.
Change(c, u, m) ==
  LET k == <<c, m>> IN
  /\ Allowed(c, u)
  /\ posts[k] # Absent
  /\ u \in Admin \/ posts[k].author = u
  /\ posts' \in {posts, [posts EXCEPT ![k].writer = u]}
  /\ Save([posts[k] EXCEPT !.writer = u], m)
  /\ UNCHANGED <<type, members, listed>>

Crash ==
  /\ listed' = [c \in Channel |-> {}]
  /\ posts' = [k \in Channel \X MsgId |-> IF type[k[1]] # Absent THEN saved[k] ELSE Absent]
  /\ UNCHANGED <<type, members, saved>>

\* A change of the members of c, or of their names.
Arrange(c) ==
  \E u \in User, name \in Name \cup {NoName} :
    \/ AddListed(c, u, name)
    \/ Rename(c, u, name)
    \/ \E inviter \in User : Invite(c, inviter, u, name)
    \/ Join(c, u)

\* A change of the messages that are found in c.
Post(c) ==
  \E u \in User, m \in MsgId :
    Change(c, u, m) \/ \E d \in Channel : Write(c, d, u, m)

ANext ==
  \/ \E c \in Channel :
       \/ Arrange(c)
       \/ Post(c)
       \/ \E kind \in {"public", "private", "dm"}, people \in SUBSET User : Create(c, kind, people)
  \/ Crash

ASpec == AInit /\ [][ANext]_avars

============================================================================
