# Vulos Talk: TLA+ specifications and proofs

Vulos Talk is a team-chat server in Go (`backend/`) with a React front end
(`src/`) that keeps a message replica of its own in the browser. This directory
holds TLA+ models of the parts that carry its logic, the TLC runs that check them
on small instances, and TLAPS proofs of the properties that matter most. Paths
below are relative to the repository's root.

1. [The system](#1-the-system)
2. [Modules](#2-modules)
3. [Runs](#3-runs)
4. [Bounds, assumptions, fairness](#4-bounds-assumptions-fairness)
5. [Proofs](#5-proofs)
6. [Not modelled](#6-not-modelled)

## 1. The system

### Components

| Component | Code | State | Operations | What makes it correct |
|---|---|---|---|---|
| Hybrid logical clock | `backend/spaces/store.go:64-123`, `src/lib/crdt/messages.js:30-85` | `wallMs`, `counter`, `nodeID` | `Tick`, `Receive` | stamps increase, restarts included; a local stamp is after every received one |
| Merge rule | `store.go:698-757`, `messages.js:254-300` | the index entry of a message | append, edit, tombstone | same operations, same result, in any order; deleted is terminal |
| Spaces store | `backend/spaces/store.go` | channels, members, messages, clock, one mutex | create, send, edit, delete, `MergeOps`, `MergeOpsAs`, `Open`, search | an acknowledged write shows, is ordered, and survives a restart; a client's batch touches only its own messages |
| Persisters | `backend/spaces/sqlite.go`, `postgres.go`, `NullPersister` | rows, op-log, read cursors, engagement tables, full-text index | one statement per method | rows, log and index are not behind what clients were told |
| Replication | `ExportOps`/`MergeOps`, `exportOps`/`mergeOps` | one index and log per replica | send, edit, delete, merge | convergence; no regression of what a reader saw |
| Read cursors | `MarkRead`, `SaveReadState` | a clock per account and channel | mark, get | the cursor only advances |
| Channel access | `backend/handlers/spaces.go`, bot and webhook posts | channel types, memberships | create, join, invite, rename, post, `canAccessChannel` | private channels and DMs stay with their members; only the author edits |
| Engagement | `backend/handlers/spaces_ext.go` | reactions, pins, statuses | add, remove, pin, unpin, set | memory and rows agree after failures and restarts |
| Browser channel view | `src/apps/spaces/ChannelView.jsx` | shown messages, page's store, requests under way | poll, switch channel, send, change | shows the selected channel in the end; marks only what it showed |
| Rate limiter | `backend/middleware/ratelimit.go` | token buckets | get, reserve, evict | no more than the burst and the rate |
| API-key cache | `backend/apikey/apikey.go`, `backend/middleware/apikey.go` | results with a time to live | introspect, gate | a revoked key stops within the time to live |
| Billing gates | `backend/billing/enforce.go` | committed and reserved bytes, entitlement cache, seats | gate, commit, release, meter | the quota is never exceeded; reservations do not leak; a suspension arrives |
| File ACL | `backend/fileacl/`, `backend/storage/fileacl_postgres.go` | owners, shares | set owner, share, unshare, delete, can access | no access that no moment allowed |
| Document storage | `backend/storage/local.go`, `postgres.go` | files, versions, envelopes, signers, audit events, comments, suggestions | create, read, update, delete, prune, label | no content, signature or audit event lost |
| Presence, typing, meet, seam, migration, UI, wiring | see section 6 | ephemeral or stateless | - | - |

### Interactions

A browser posts to the handlers; authentication, then a token bucket, come before
them. The handlers check access with one call of the spaces store and act with
another. The store holds its mutex during each call: it issues a clock, changes the
in-memory index, then saves the message's row (and, in SQLite, its full-text entry)
and appends the operation to the log through the persister. Peers and browsers push
batches of operations (`MergeOps` over the fabric, `MergeOpsAs` from a client);
each operation advances the clock and goes the same way. `Open` rebuilds the
index from the rows of saved channels and starts a new clock. The browser polls
`ListMessages`, turns each listed message back into an operation and merges it
into its own `MessageStore`. Read cursors, reactions, pins and statuses bypass the
store's mutex. Billing and API keys ask a control plane over HTTP, with a cache for
the time it does not answer.

### What is hard

Messages are merged late, twice and in any order; writes of one operation
(index, row, log, full text) can fail or be cut by a crash between any two; clocks of
different hosts disagree; checks are made in one critical section and acts in
another; answers of the control plane and of the server overtake each other;
several statements make one operation in the document storage, with no lock over
them. `PROJECT.json` lists every such hazard at its line with the properties that
watch it.

## 2. Modules

| Module | Models | Correspondence |
|---|---|---|
| `HybridClock` | the clock | a SeqClock is a record `[wall, counter, node]`; `Before` is the order of the padded strings; `CounterModulus` stands for 2^32 |
| `MessageCRDT` | the merge rule | one operator per case of `applyToIndex` on one index entry, and the three operations that the mutations build |
| `SpacesStore` | one server store | variables are its fields, its rows and its log; one action per method. EXTENDS `MessageCRDT` |
| `ConvergentMessages` | the abstract promise | a replica's view is a function of the set of operations it has seen |
| `SpacesReplication` | replicas that merge from each other | per-node clock, physical time, index and log; refines `ConvergentMessages` with `seen <- log`, `view <- Shown` |
| `ReadState` | read cursors on the server | a request per goroutine; one step per statement |
| `ChannelView` | the open channel in a browser | a request under way is a value of `fetch[f]`, with what its closure captured; an `await` is a step boundary |
| `ChannelAccess` | who may join, invite, post and change | a request per goroutine: one step for a handler's checks, one for each call of the store that acts |
| `AtomicAccess` | the abstract promise of these handlers | each request takes effect at one moment, at which its caller is allowed to make it; no requests in flight, no rows of members; `saved` is what a crash would leave of the messages. `ChannelAccess` implements it with `listed <- Listed`, what is left of creators' lists |
| `Engagement` | reactions, pins and statuses | one entry per key in memory and as a row; the statement that follows may fail and is ignored |
| `MessageSearch` | `SearchMessages` beside writes | a write is row, index removal and index insertion under the lock; a search asks the index without it, then looks up each id |
| `StorageQuota` | the billing gates | a call is `idle`, `asking`, `answered`, `resolved`, then holding or returned; time is a counter |
| `RequestGates` | authentication by key, and the bucket | a request asks, is answered, remembers, passes on, gets its bucket, reserves |
| `DocumentRequests` | requests to the document storage | one of three configurations; a request is made at most once, and one that never finishes stands for a stopped process |
| `FileACL` | the three access-list stores | one step per statement; `NullStore` is one step under its lock |
| `DocumentStorage` | files and versions, two backends | `UpdateFile` is read, snapshot, list and prune, truncate, write; `LabelVersion` is read, truncate, write. EXTENDS `FileACL`: in Postgres a deletion cascades to versions and access lists |
| `DocumentRecords` | envelopes, signers, audit events, comments, replies, suggestions | local: read, truncate and write are three steps; Postgres: one statement, signers inside the envelope's row |
| `MC*` | values for TLC; `MCDocuments`, `MCGates`, `MCEngagement` and `MCReadState` compose two modules | see below |
| `*Proofs` | proofs | section 5 |

`MCDocuments`, `MCGates`, `MCEngagement` and `MCReadState` run one of two
halves at a time (`half`). The halves share no variable, so no property of either
can depend on how steps of the two alternate; a half that stands still has one
initial state.

How `SpacesStore` stands for the code: the mutex is the guard `Unlocked`. A local
mutation is one step, `LocalWrite`, whose `outcome` says which of the two durable
writes fails; the index is changed before, so a failure leaves it ahead, as in
`applyLocal`. A merge is a validation step (`MergeOps`, `MergeOpsAs`) and then one
`ApplyRemote` step per operation, because a crash can fall between two of them;
nothing else but a crash and the passing of time can. `Restart` is a crash at any
step followed by `Open`: volatile state goes, rows and log stay, the clock starts
from zero. `channel = "skeleton"` is the channel that `applyToIndex` makes for an
unknown id and never saves: its messages have rows that `Load` does not find.

How `ChannelAccess` stands for the code: a handler calls the store several times, each
call under the mutex, so a request is a value of `request[r]` between its check and
its act, and other requests come between. All reads of a check are one step at the
time of the last of them; this loses nothing, since a channel's type never changes
and nobody leaves a channel. A refused request changes nothing and is no step.
`CreateChannel` saves the channel, then `AddListed` adds one member per step and
ignores failures, so that a crash or another request falls between. `SaveMember` is
the row and then the index, as one step: a crash between the two is the step followed
by `Restart`. A crash drops the requests and reloads memberships from their rows.
Posts of bots, apps and incoming webhooks come in by `CheckByApp`. A merged operation names a
channel, which is checked and indexed, and carries a message, which names one too, its `home`: the row
is written under that one (`store.go:687`), and `Load` finds it there. Nothing compares the two, so a
merge request may name any other existing channel as `home`. `writer` and `checked` of a message are
history. `Quiet` bounds the run, not the theorems: to these channels only merges are made, of messages whose home
is another.

How `ChannelView` stands for the code: `messages.of` is the channel that the list on
the screen was made for, which `loadMessages` sets without asking which one is
selected by then (`ChannelView.jsx:410`). A send carries the newest clock of the list
of its own render, which is what `markReadLatest` marks after the `await`. The mark is
part of the step in which the listing arrives or is lost, and may be lost itself; on
the server an older clock does not move the cursor (`ReadState` says how well that
holds). Clocks are ranks: the clock's order is in `HybridClock`.

How `Engagement` stands for the code: a handler's check of access and of the message
has no effect on the store it then changes in one critical section, so the message and
its text are inputs. A restart can open the database, or fail to and go on in memory,
and each of its listings can fail and leave that store empty ("blind" start). A User
is an account of a person or of an app (`BotReaction`).

How `StorageQuota` and `RequestGates` stand for the code: what the control plane says
is a variable that changes at any time; a question is answered with what holds at
one moment and the answer is used at a later one, at most `Timeout` after the question
(HTTP clients have one). The cache keeps the time of the answer's use, not of the
question's, as the code does. What a gate is called for is chosen at its decision. `Rate`
tokens arrive per unit of time; `ideal` is a history variable: the same bucket, never
evicted.

How the document modules stand for the code: nothing in this repository calls
`backend/storage` and `backend/fileacl`, so the discipline of a caller is that of their tests:
ids are new, an owner is set once per file, snapshots have distinct times.
`os.WriteFile` truncates and then writes. Of what is there already (files, versions, envelopes, signers,
notes), and of audit events, both are steps: between them, and for good when the process
stops there, the record is `Torn`, and two writers at once may leave it `Garbled`. Readers
take neither for a record. What is new has an id that nobody has yet and is one step; a token or
a sealed document is one step that may leave it torn. A deletion takes the file from a write
that has begun.
The local audit log is written read-only, so a second write of an event fails for
an unprivileged process.

Abstracted in the message modules: one channel (channels share only the clock), message bodies (a small
set and `Cleared`), `thread_parent`, timestamps for display, size limits,
malformed clocks (`Receive` ignores them). In `MessageSearch` words and texts are model
values and two relations say which texts `matchMsg` finds a query in (`Says`) and which ones
the query matches that the database makes of it (`Matched`): substrings against prefixes
of tokens, and the characters that `sanitizeFTSToken` and `sanitizePGToken` drop. The filters
`from:`, `before:`, `after:` and `has:` are left out. History variables, which no guard reads: `acked`
(`SpacesStore`, `ReadState`), `overlap` (`ReadState`), `unseen` and `strayed`
(`ChannelView`), `peak` and `suspendedAt` (`StorageQuota`), `ideal` and the times of
answers (`RequestGates`), `clean` (`MessageSearch`), and those that the document
modules name as such.

## 3. Runs

| Run | Question | Result |
|---|---|---|
| `store` | Does one store keep deletions, order, acknowledged writes and ownership under local writes, trusted and client batches, failing writes and restarts? | holds, 1.5 million states |
| `store_same_ms` | Is a local write always after what was received, as the comment on `Receive` says? | violated: finding 1 |
| `store_redelivery` | Is a deleted message never un-deleted, as the comment on `Message` says? | violated: finding 2 |
| `replication` | Do replicas with independent wall clocks implement the order-free promise? | holds, 45 thousand states |
| `replication_exact` | Do they converge to the same state to the last field, as the comment on `MergeOps` says? | violated: finding 3 |
| `read_state` | Does the cursor only advance, and does a browser whose polls, sends and channel switches overlap mark only what it showed and show the right channel in the end? | holds, 310 thousand states |
| `read_state_sql` | Does the cursor only advance on the SQL persisters, as their comment says? | violated: finding 4 |
| `access` | Are the handlers' checks still valid when they act, under overlap, failing writes and crashes? | holds but for merged messages that name another channel than their operation, 270 thousand states |
| `access_name` | Is a name only filled in where there is none, as the comment in `AddMemberWithName` says? | violated: finding 5 |
| `documents` | Do overlapping and interrupted requests lose versions, signatures, audit events or deletions, or let somebody in? | holds but for the overlaps and the interrupted writes that the properties name, 1.7 million states |
| `gates` | Are caps and bursts kept, do suspensions and revocations arrive, does every call return, with a control plane that is slow or down? | holds, 430 thousand states |
| `engagement` | Is what was answered about reactions, pins and status kept; does a search beside writes find nothing stale and miss nothing steady? | holds, 1.9 million states |

What the properties say, and why they could fail:

* `AckedSurvives`: the row of a message is never older than what its author was
  told, and keeps a deletion. Rows are written with the operation's own message and
  not with the merged one, so this depends on the order of clocks and on failures.
* `ColdJoinerSeesAcked`: a joiner that replays `ListOps` (sorted by clock) from an
  empty index sees the text, or the deletion, of the newest acknowledged write.
  `Replay` is the merge of a set of operations in the order of their clocks.
* `DeletedIsTerminal`, `ClocksOnlyAdvance`: until a restart no mixture of merges,
  redeliveries and failures revives a deleted message or moves a listed one back.
* `LocalWriteTakesEffect`, `LocalWritesOrdered`: a write that reported success is
  what the index shows, and is after every earlier acknowledged write, restarts
  included; both rest on the clock being ahead of everything merged.
* `OnlyOwnMessagesMerged`: while a client's batch is applied, only messages of that
  client change, and messages without an author, although the batch was validated before its first operation.
  (`MergeOpsAs` lets anybody change a message without an author; only a trusted batch can bring one.)
* `Convergence`, `ImplementsPromise`, `NoRegression`: on replicas; the second is
  refinement of `ConvergentMessages`.
* `ClocksTellWrites`: the clock of a new operation is nobody else's and later than all that its
  replica had merged, the write it was made from included. It names the one exception, an
  operation of another replica from the same millisecond where ties are possible.
* `AckedIsRead`: what was acknowledged as read stays read. On the
  SQL persisters this needs requests that do not overlap, which `overlap` records.
* `MarkedWasShown`: a message up to the cursor has been on the screen, in its channel and as
  it now is, although the mark follows a poll that others write into. It holds because the
  mark is of the render before the send; marking what was just sent (the mutant) breaks it.
  `strayed` records the exception: who presses send while a late list of another channel
  is on the screen marks the new channel with the clock of the other's last message.
* `ListKeepsUp`: of polls that overtake one another the older one takes nothing back, since
  listings are merged and not shown as they come.
* `ShownInTheEnd` (liveness): who stays in a channel has exactly its messages on the screen
  in the end, although a late answer for another channel replaces them at first.
* `PrivateByInvitation`, `DMIsClosed`: a request was allowed in one step and acts in a
  later one, after others have joined, been invited or been lost in a crash; still a
  stranger gets in only by a member's invitation, or by the creator's list: also while the
  channel is being created, only who is on that list and has not had its turn.
* `MembersOnly`, `OwnText`: on all paths that write a message (send, change,
  merge, bots, webhooks), with a merge of the same id between the check and the act of a change, and
  after restarts, which find messages by the channel in their row. `MembersOnly` states the one way
  round it: a message that was merged by an operation on another channel, to which its author
  had access.
* `ImplementsAtomic`: whatever comes between a check and its act (requests, failed writes,
  crashes), the outcome is one of `AtomicAccess`, where every request checks and acts at one
  moment. In particular no membership is lost. An invitation there may be of somebody who is a
  member already, which is finding 5.
* `RecentHistoryKept`, `SnapshotBeforeOverwrite`: pruning works from a listing that other
  updates have made old, and an update from a file that others have changed. The newest
  snapshots are there, and can be read but for a labelling that is under way, or was
  when its process stopped, or overlapped another. The second names its exceptions: another
  write between the steps, a snapshot that failed, which `UpdateFile` ignores, and a snapshot that
  a labelling has made unreadable.
* `NothingOutlivesFile`: snapshots and shares inserted while a file is deleted.
* `ChecksExplained`: owner and shares are read in two statements; an answer must be one that
  some moment of the check gives, except that a change of owner can turn somebody away.
* `SignersKept`, `AuditOnlyGrows`, `DeletedComesBackOnlyByOverlap`: audit events and deletions are
  undone only by the overlaps that the properties name, and a signature by those and by an
  upsert of the same signer that is interrupted or overlaps another one (below).
* `ReservedExact`, `GatedWithinCap`: a reservation is counted once and given back once on every
  path; the cap is checked under the lock with an entitlement from before it.
* `SuspensionReaches`: after a suspension an account is served only while an older answer can
  still be fresh, whatever overtakes what. `RevokedKeyStops` is the same for API keys.
* `EveryCallReturns` (liveness): an outage keeps no call waiting, and every reservation ends.
* `BurstBound`: a bucket that is evicted when idle and made again full gives nobody more
  than one that never was, however many requests share it.
* `AnsweredIsKept`: across failed statements, failed listings and starts without a database, the
  table and every later process have what the last request about a key left, unless the last
  statement about it failed; a blind start shows nothing rather than something older.
* `SearchExplained`: no result that no moment of the search showed, and no miss of a message that
  had the words all the time, provided that the query which the database makes of them
  matches its text.

### Findings

1. `store.go:108-121`: when a remote clock is of the current millisecond and the
   local clock is older, `Receive` takes the default branch and forgets the remote
   counter. An edit in the same millisecond can get an older stamp than the message
   it edits: it returns success and is dropped by last-writer-wins.
2. `store.go:687`: `applyLocal` saves the message of the operation and not the
   merged entry. An append that comes again after the delete overwrites the
   tombstone's row, and the next `Open` loads the message as active.
3. `store.go:729-731,747`: a tombstone takes the higher clock, an edit after the
   tombstone is ignored with its clock: the clock of a deleted message, hence its
   place in the list, depends on the order of arrival. Text and state do not.
4. `sqlite.go:477`, `postgres.go:444`: `SaveReadState` compares and upserts in two
   statements; a slower request moves the cursor back.
5. `store.go:387`: the comment says a name is filled in only when the stored one is
   empty; the code replaces any different name. `InviteMember` refuses members, but
   checks in an earlier call, so an invitation can replace the name that its account
   has set in the meantime.

### Met while modelling, without a run

These are what the code does and the models follow it; properties name them as
exceptions, or they lie outside the model.

* `os.WriteFile` over what is stored: a process that stops between emptying and writing an existing
  signer (`local.go:336`), version (`:239`), envelope (`:306`) or comment (`:576`) has destroyed it. A signature is then
  gone, and a listing of versions passes over the version without an error. An audit event that
  was cut short (`:441`) can neither be read nor, being read-only and there, be appended again.
* Two overlapping `UpdateFile` calls can both snapshot the same content: the one that was
  written between them is in no version. Two overlapping Postgres `UpsertSigner` calls lose one
  signature. A local update that read a record before its deletion writes it back. A
  Postgres comment is re-created by an update, which upserts. A Postgres audit event
  goes with its envelope (`ON DELETE CASCADE`), beside "No update or delete is ever
  permitted" in `models/signing.go`.
* A merge checks access to the channel of each operation, "every channel touched by the batch"
  (`handlers/spaces.go:495`), and the authors of what is indexed there. The row is saved under the channel of
  the message itself (`store.go:687`): after the next `Open` the message is listed in that channel,
  whose members may not include its author, and it replaces the row that a message of the same id has
  there. `MembersOnly` has this as its exception, and `OwnText` holds in spite of it, because the
  whole row is replaced, author and text together.
* `sqlite.go:163,335` filter on the literal `tombed`, which is not the value of
  `MessageStateTombed` ("deleted"); the lookup in memory is what keeps deleted messages out.
* Without FTS5 `SearchMessages` of SQLite answers "nothing found" and not "no index", so the
  scan that `sqlite.go:154,324` announce is not made.
* `sanitizeFTSToken` (`sqlite.go:370`, "Keeps letters, digits") and `sanitizePGToken` drop every
  letter that is not ASCII. A search for a word in another script has no term left, is not
  asked, and answers an empty list without the scan; of "naïve" the index is asked for "nave".
  A scan finds parts of words and authors, the index beginnings of words of the body.
* `ThreadReplies` (`store.go:208-222`) is documented as non-tombstoned and does not filter.
* A reaction or a pin whose statement failed is not saved by repeating the request, since memory
  has it already.
* A valid `vk_` key passes `APIKeyAuth` and `BotAuth`, and the bot handlers then find no bot
  and answer 401, beside the comment at `main.go:349`.
* `ChannelView.jsx`: answers of `loadPins`, `loadMembers` and `loadReadState` for the
  previous channel stay on the screen until something loads them again.

## 4. Bounds, assumptions, fairness

* `MaxWall` (milliseconds), `MaxOps` (operations created) and `CounterModulus` are
  bounds in guards (`TickRoom`, `ReceiveRoom`, `AdvanceWall`, `LocalWrite` of the
  replication), never state constraints. `store` runs with three milliseconds: one
  for a write, one for a restart, one for a write after it; the clocks of its
  batches are of that range too. The counter reaches 1: two writes in a millisecond.
  `replication` has two replicas whose wall clocks may differ, two messages and
  three operations: a send and any two of concurrent edits and deletes, merged in
  every order and again; counters reach 3, past any clock that was received. The
  hazards concern one message at a time.
* The nodes of `SpacesReplication` have different ids. That is so of the stores
  that the tests open (`store_test.go:128`); the handlers open every store under the one id "server"
  (`handlers/spaces.go:97`), and two such servers that merged from each other could issue equal clocks.
* Ids of files have no underscore: the local `ListVersions` finds versions by the prefix of a file name, so
  that a file "a" would also list those of a file "a_b".
* `PeerLead` is how far a received clock may be ahead of this host's physical time.
  With `PeerLead < 0` (a peer's operation takes at least a millisecond to arrive, and
  clocks are synchronised) the order properties hold; with 0 `store_same_ms` shows
  they do not. `TiesPossible = FALSE` is the same assumption for replicas.
* No peer sends back, after a later write, an operation on a message that this
  store minted (`store` runs with such batches only for messages of others);
  without it `store_redelivery` shows that `AckedSurvives` and `NeverUndeleted` fail.
* Operations of peers are well formed (`WellFormed`): a deleted message carries no
  text. The browser normalises a tombstone of an unknown message
  (`messages.js:281`), the server does not (`store.go:739-742`).
* `access` has two people, one of them an admin, and an app, two requests in flight (they are
  alike, so the run uses their symmetry), one message, and two channels: a room that is created, of each
  type in turn, and the public hall, through which messages for the room can be merged. A rule
  concerns one channel, and a race one check and one act of another request. Names, which decide
  nothing but themselves, are in `access_name`.
* `read_state`: three marks at a time; in the browser two channels, two messages in one and one in
  the other, the first there when the page opens, two more writes (`MaxClock`), and two
  requests under way (`Fetch`), without which nothing overtakes anything.
* `documents`: three overlapping requests on one file or one envelope: two that race and one that
  deletes or checks. `VersionCap` is 1, so that the second snapshot already prunes.
* `gates`: two billed calls of one account, amounts 1 and 2 and a cap of 4 (each fits, all
  do not), time up to 2 with a time to live and a timeout of 1: a slow answer, a fresh one, and
  the end of both. Two requests with a burst and a rate of 2, by a session and by a key.
  Buckets live long enough to be full again when they are evicted (`LimitsAssumption`:
  `BucketTTL * Rate >= Burst`; `main.go` gives buckets ten minutes); `Get` and `Reserve` of
  one request fall within one unit of time.
* `engagement`: one message, one user and two statuses; two messages and two texts for the search:
  an edit away from a text and back to it. Of the two queries one is for both texts and one for
  the first; SQLite's index misses one text of the former, Postgres' query of it matches nothing,
  and its query of the latter matches the other text too (`MCSays`, `MCMatched`).
* `SpacesStore` has one channel, and its operations carry messages of that channel, as every
  sender in the repository builds them. What else a client can send to the merge endpoint is
  in `ChannelAccess`.
* A restart takes at least a millisecond and physical time does not go back.
* `Restart`, failing writes, outages and losses are not limited in number.

Fairness is assumed in two places. `StorageQuota`: weak fairness of each call's fail-over,
use of the answer, decision and release; an HTTP request has a timeout, and a caller defers
`Release`. `ChannelView`: every request ends, with an answer or without (weak, per request); the
interval timer fires again and again, strong because in the model it has to wait for one of
the bounded requests; of the listings asked for again and again some are made and some arrive
(strong: a network that comes back). The server need not be idle: its writes are bounded,
which is what "in the end" refers to. Everything else is safety.

Deadlock is off in runs that stop because a bound is reached or every request has been answered.

## 5. Proofs

All are checked by TLAPS for every value of the constants that satisfies the named
assumptions; message ids, users, bodies, nodes, batches, bounds, numbers of requests, caps,
rates and times to live are arbitrary.

* `MessageCRDTProofs`: the order of clocks is a strict total order; `Tick` issues a
  stamp later than everything in the clock's past (`TickIssuesLater`); `Tick` and
  `Receive` keep the past (`TickKeepsPast`, `ReceiveKeepsPast`), the latter when
  the received clock is behind physical time or the clock has been there already.
  `Merge` keeps the type, never moves a clock back, keeps a
  deletion and its empty text, and touches only the message it is about.
  `MergeIdempotentCommutative` is the claim of the comments on `MergeOps` and `mergeOps`: a
  repeated operation changes nothing, at once or after another one, and two operations show
  the same in either order. It says what that needs: different clocks, one author, and
  an append before every other operation on its message. That it is about what is shown, and
  not about the clock of a deleted message, is finding 3.
* `SpacesStoreProofs`, in four layers, because each needs more of the environment:
  1. `Inv`, without assumptions on peers: types (`TypeCorrect`), and that every operation of a
     validated batch is authored by its sender while every entry with such an id is
     the sender's or nobody's (the check made before the first operation stays true of the rest,
     because a batch changes only what it was checked against), and that deleted
     entries have no text. Gives `DeletedStaysDeleted`,
     `ListedClocksAdvance`, `BatchStaysOwn`.
  2. `ClockInv`, under `PeersBehind` (`PeerLead < 0`): every clock in the index, the
     rows, the acknowledged writes and the pending batch is in the past of the
     clock or behind physical time. It is what survives `Restart`, which resets the
     clock. Gives `AckedWritesOrdered` and `AckedWriteTakesEffect`.
  3. `AckInv`, moreover under `NoRedelivery` (no batch is about a message minted
     here): `AckedSurvives`, and that a deletion that was acknowledged is also
     deleted in the index whenever the index lists it. `AckedSurvives` alone is not
     inductive: an edit is made from the index and saved over the row, so a
     tombstone's row is safe only while the index refuses the edit. Layer 2 gives
     that the edit's clock is past the row's. Gives `AckedWritesSurvive`.
  4. `LogInv`, under `NoRedelivery` alone: the log has the operation of the newest
     acknowledged write of every message, although operations whose append failed are
     missing. Merging never takes back what an entry shows (`StillSees`), so a replay
     that has come past that operation shows it: `ReplaysSeeAcked`, for a replay in any
     order that repeats what it likes. `ColdJoinersSeeAcked` is the order of `ListOps`, as the
     run checks it: the log is finite (`LogFinite`), so `Replay`, a recursive
     function over its subsets, exists and unfolds (`ReplayUnfolds`), and a smallest set of
     operations whose replay misses the acknowledged one would have a last operation, which
     is the acknowledged one or is merged after it (`JoinerSees`).

  The violation runs `store_same_ms` and `store_redelivery` show that the two
  assumptions cannot be dropped.

* `SpacesReplicationProofs`: `NeverBack`, `ClocksNeverRepeat`, `NewWritesAreLater` and `RedeliveryChangesNothing`
  hold without an assumption on wall clocks, ties included. `NewWritesAreLater` rests on `LogsNear`: what a
  replica has merged is past for its clock, or is another's from a millisecond that the clock has reached. `RedeliveryChangesNothing` rests on `Absorbed`: what an operation in the log has done to
  its entry, no later merge undoes. The rest assumes `~ TiesPossible`: with ties `Receive` can issue an edit an older
  stamp than the message that it edits (finding 1), after which two replicas that have
  seen the same operations in another order can differ (a third one that gets the edit first). The invariant relates three things. `Consistent`:
  the operations known anywhere have one author per message, no clock twice and the append
  first. `Means`: an index entry is a function of the set of operations that the replica has merged,
  which `Merge` computes without looking at a log. `Informed`: a clock is past everything in its
  log, so that the next operation is new and later than the entry it was made from. Gives
  `ReplicasConverge` and the refinement `ReplicasKeepThePromise`: a write
  and the merge of an unknown operation map to `Learn` of `ConvergentMessages`, every other step to a stutter.
* `ReadStateProofs`, the cursor: `AckedIsRead`. The invariant says of each
  request between its comparison and its upsert that the cursor is still older than
  its clock, unless requests overlapped; in memory both are one step.
  The view: `ViewInv` has, beside the types, `OneLife` (all that the page's store, the screen, and answers
  under way hold of a message are moments of one life on the server, so that `Merged` is
  the later of two: lemma `MergeIsLater`), `Whole` (each listing has all messages of its channel
  up to its newest clock), `Shown`, `Marking` (a send under way carries a clock up to which all
  has been on the screen, unless the list was another channel's) and `Cursor`.
  `MarkedWasShown` alone is not inductive: a mark comes with an answer that was listed
  before others wrote, so what matters is what was known at the send. Gives
  `ReadMeansShown` and `OvertakenTakesNothingBack`. The proof found that the `CASE` in
  `Merged` had overlapping guards, whose value TLA+ leaves open although TLC takes the first;
  it is written with `IF` since.
* `ChannelAccessProofs`: `Authorised` says that what the check of a request in flight
  established is still so. It is stable because no step takes back a channel's type,
  a membership or a message's author (`TypesKept`, `MembersKept`, `AuthorsKept`), and
  `members = rows` makes a restart harmless. `Sound`, of every message and of every row, is the
  strengthening that `MembersOnly` and `OwnText` need: its author can access the channel that was checked
  when it came, which may not be the one it is found in, and who changed it last is its author or an admin. Rows have
  to be sound because a restart makes messages of them. Gives `PrivateStaysPrivate`,
  `DMStaysClosed`, `NobodyIsDropped`, `ChecksStayGood`, `MessagesAreMembers`, `TextsAreOwn`, for any number of users,
  channels, messages and overlapping requests.
  `HandlersAreAtomic` is the refinement of `AtomicAccess`: a check and a refusal map to a stutter, an act to
  the request's one step, which `Authorised` allows. `Creators` (one request creates a channel, and
  the channel has its type by then) makes `Listed` of each channel the rest of one list.
* `GatesProofs`, billing: `ReservedExact` is inductive with the types: each step adds the same
  bytes to the counter and to the set of what calls hold, or takes the same from both (lemmas
  about the cardinality of that set). `QuotaHolds` adds `CapsBelowPeak`: no
  entitlement of a call or of the cache has a cap above the largest one ever.
  `SuspensionsReach` needs `TimeInv`: an answer that does not know of a suspension is older than
  it by no more than a call may last, in a call as in the cache.
  Requests: `GatesInv` has four parts. `AnswerInTime` and `CachedInTime` date an answer
  and a cache entry against the last moment the key was valid, and give `RevokedKeysStop`.
  `Covered` says that what any bucket would have now is never more than the never-evicted one has, and that this one is full
  where there is no bucket: an eviction waits until the bucket would be full again.
  `Reserving` ties a request to the bucket that it got. Both give `BurstsBounded`.
* `EngagementProofs`: `AnsweredIsKept` is inductive together with the types: a store that skips a
  repeated request relies on what it shows being what its table has. `RequestKept` is the lemma
  about any request on one key; the five handlers are instances of it, and `RebuiltFromTable`
  is the start.
  The search: `SearchExplained` needs `Underway` (at each stage of a write, which of row and index are
  still behind memory; a statement that failed is recorded in `clean`), that without a
  failure they are in step with memory when the lock is free, and `Watched` (the search
  under way has found only what it may answer, and what it must not miss is found or still
  to be looked up). A search does not take the lock, so all stages
  matter. Gives `SearchesAreExplained`.
* `DocumentProofs`, access lists: `AclInv` says what a check between its two queries knows of the tables as
  they are now; every change of owner or shares goes through one lemma (`TablesChecked`). Gives
  `ChecksAreExplained`.
  Files: `OrphanInv` is enough for `NothingIsOrphaned`. `HistoryInv` has the order of
  snapshots: an id of which no version is left has `VersionCap` newer ones, and so has all that a listing under way is going
  to remove. `OldHasVersions` makes versions of these ids, along the well-founded order of their number. Gives
  `RecentHistoryStays`. `OverwriteInv` adds `CurrentInv` (what an update that was not raced has read is
  what the file has) and `NamingInv` (versions, and updates that have named what they have read, use
  one name for one revision only, so that no snapshot replaces another); gives
  `OverwrittenIsRecorded`, with the exceptions that the property names. `TornInv` says that an unreadable version is
  torn only under a labelling that has not written it.
  Records: `RecordsInv` says of an update under way that it is marked when what it has read was
  deleted or signed since, and that a write that has begun is not of a deleted record; `AuditInv`, that at most one request is
  writing an event, which is torn until then. Gives `SignaturesSurvive`, `AuditIsAppended` and
  `DeletedStaysDeleted`.
* The theorems named `HalvesTyped` are about the composed specifications of `MCReadState`, `MCDocuments` and
  `MCEngagement`, and show that the halves, whose invariants are proved apart, keep them
  when composed.

Assumptions on constants, each stated in the module that declares the constant and evaluated by
TLC in the runs: sets that a `CHOOSE` or an initial value takes from are not empty
(`SomeAssumption`, `SignerAssumption`, parts of `SearchAssumption` and `BeforeAssumption`); marks
such as "never", "deleted" or a torn file are told apart from ids and texts (`RequestAssumption`,
`NoOwnerAssumption`, `AbsentUserAssumption`), while the empty account id is one of them (`NoAuthorAssumption`);
the relations between texts and queries are over the texts and queries there are (`QueryAssumption`); clocks and bounds are numbers; the page opens on a
channel whose messages are typed and have a clock iff they exist (`BeforeAssumption`). Three are
about the environment, `PeersBehind`, `NoRedelivery` and `~ TiesPossible`; they are hypotheses of the
theorems that need them and not of the modules.

Only model-checked: liveness (`EveryCallReturns`, `ShownInTheEnd`), which is out of the prover's
reach with `ENABLED`. Every invariant and action property that a passing run checks, and both
refinements, are theorems. The library's induction theorems take an operator, which the provers cannot
instantiate; where an argument needs induction over data (`OldHasVersions`, `NewestOfList`, `ReplayUnfolds`) it
takes the least counterexample of a well-founded order instead.

## 6. Not modelled

* Presence: heartbeats in a map under one lock, filtered by age when read; an entry is rewritten by
  the next heartbeat and nothing is kept. Typing indicators: ephemeral, in one browser.
* Settings, storage resolution and one-shot migration: parsing and copying without concurrency.
* Token verification, meet tokens, the gateway and most of the seam: stateless, or HTTP clients. Of
  billing, the usage events that are reported.
* Installation, tokens and delivery of apps: in the external vulos-apps library.
* Catch-up from a clock (`ExportOps` with `after`): an operation that was merged late with a lower clock
  is missed by it, but no client of this repository asks for it; browsers list the whole channel, and
  the cold joiner of `store` asks from the beginning.
* In the browser: the unread divider, pins, reactions and members of the panel, the unmount of the
  view by the activity page, the endpoint failover of `api.js`; rendering.
* Several channels in one `SpacesStore`: they share only the clock.

Open work: one step of a request, from `RequestGates` to `ChannelAccess` to `SpacesStore`, as one composed
specification, and an abstract specification of the document storage (files with a
complete history) that `DocumentStorage` implements up to the named overlaps.
