------------------------------ MODULE FileACL ------------------------------
(***************************************************************************)
(* Owners and shares of files, in each of the three stores: SQLiteStore    *)
(* and NullStore of backend/fileacl, and PostgresACLStore beside the       *)
(* documents.  In the SQL stores a check reads two tables, and Delete      *)
(* clears two tables, in separate statements; NullStore holds a lock.      *)
(*                                                                         *)
(* The files belong to the module that extends this one: it says whether a *)
(* file exists, for the foreign keys of Postgres.                          *)
(***************************************************************************)
EXTENDS DocumentRequests

CONSTANTS
  File,
  Account,
  NoOwner   \* no owner is recorded

ASSUME NoOwnerAssumption == NoOwner \notin Account
ASSUME SomeAssumption == File # {} /\ Account # {}

VARIABLES
  owner,    \* owner[f]: the row of the owners' table
  shares,   \* shares[f]: the rows of the shares' table
  ask       \* ask[r]: a check or a deletion under way, or answered

aclVars == <<owner, shares, ask>>

NoAsk == [stage |-> "idle", file |-> CHOOSE f \in File : TRUE,
          account |-> CHOOSE a \in Account : TRUE,
          open |-> FALSE, seen |-> NoOwner, allowed |-> FALSE,
          could |-> FALSE, always |-> TRUE, moved |-> FALSE]

\* "check": CanAccess has read the owner; "list": AccessibleFileIDs has read what is
\* owned; "delete": the first table is cleared; "answered": a check that has returned.
\* open: the check lets a file without an owner pass.  could, always: history, the
\* account could see the file at some moment of the check, and at every one of them;
\* moved: another owner was recorded during the check.
AskState ==
  [stage : {"idle", "check", "list", "delete", "answered"}, file : File, account : Account,
   open : BOOLEAN, seen : Account \cup {NoOwner}, allowed : BOOLEAN,
   could : BOOLEAN, always : BOOLEAN, moved : BOOLEAN]

AclTypeOK ==
  /\ store \in Store
  /\ pending \subseteq Request
  /\ owner \in [File -> Account \cup {NoOwner}]
  /\ shares \in [File -> SUBSET Account]
  /\ ask \in [Request -> AskState]

\* What a reader of both tables at one instant answers.
MayAccess(own, shr, f, a, open) ==
  IF own[f] = NoOwner THEN open \/ a \in shr[f] ELSE own[f] = a \/ a \in shr[f]

\* The tables become own and shr, and every check under way has been through them.
Tables(own, shr, asks) ==
  /\ owner' = own
  /\ shares' = shr
  /\ ask' = [r \in Request |->
       IF asks[r].stage \notin {"check", "list"} THEN asks[r]
       ELSE LET may == MayAccess(own, shr, asks[r].file, asks[r].account, asks[r].open)
            IN  [asks[r] EXCEPT !.could = @ \/ may, !.always = @ /\ may,
                             !.moved = @ \/ own[asks[r].file] # asks[r].seen]]

----------------------------------------------------------------------------
\* SQLiteStore

SQLiteSetOwner(r, f, a) ==
  /\ store = "sqlite" /\ Make(r)
  /\ Tables([owner EXCEPT ![f] = a], shares, ask)

SQLiteShare(r, f, a) ==
  /\ store = "sqlite" /\ Make(r)
  /\ Tables(owner, [shares EXCEPT ![f] = @ \cup {a}], ask)

SQLiteUnshare(r, f, a) ==
  /\ store = "sqlite" /\ Make(r)
  /\ Tables(owner, [shares EXCEPT ![f] = @ \ {a}], ask)

\* Delete: the owner, then the shares unless a failure or a crash comes between.
SQLiteDeleteOwner(r, f) ==
  /\ store = "sqlite" /\ Make(r)
  /\ Tables([owner EXCEPT ![f] = NoOwner], shares,
            [ask EXCEPT ![r] = [NoAsk EXCEPT !.stage = "delete", !.file = f]])
SQLiteDeleteShares(r) ==
  /\ store = "sqlite" /\ ask[r].stage = "delete"
  /\ \E failed \in BOOLEAN :
       Tables(owner, IF failed THEN shares ELSE [shares EXCEPT ![ask[r].file] = {}],
              [ask EXCEPT ![r] = NoAsk])
  /\ UNCHANGED pending

\* The answer of a check, with its history.
Answer(r, f, a, open, own, allowed) ==
  LET may == MayAccess(owner, shares, f, a, open)
  IN  [NoAsk EXCEPT !.stage = "answered", !.file = f, !.account = a, !.open = open,
                    !.seen = own, !.allowed = allowed,
                    !.could = ask[r].could \/ may, !.always = ask[r].always /\ may,
                    !.moved = ask[r].moved]

Reading(stage, f, a, open) ==
  [NoAsk EXCEPT !.stage = stage, !.file = f, !.account = a, !.open = open, !.seen = owner[f]]

\* Get, its first query: without an owner there is no record and the check allows.
SQLiteCanAccess(r, f, a) ==
  /\ store = "sqlite" /\ Make(r)
  /\ Tables(owner, shares,
       [ask EXCEPT ![r] = IF owner[f] = NoOwner THEN Answer(r, f, a, TRUE, NoOwner, TRUE)
                          ELSE Reading("check", f, a, TRUE)])

\* Mutant: a failure of the second query reads as a file that nobody shares.
SQLiteListSharesLenient(r) ==
  LET q == ask[r] IN
  /\ store = "sqlite" /\ q.stage = "check"
  /\ \E failed \in BOOLEAN :
       Tables(owner, shares,
         [ask EXCEPT ![r] = Answer(r, q.file, q.account, TRUE, q.seen,
            q.seen = q.account \/ (~ failed /\ q.account \in shares[q.file]))])
  /\ UNCHANGED pending

\* Get, its second query, and the comparison.
SQLiteListShares(r) ==
  LET q == ask[r] IN
  /\ store = "sqlite" /\ q.stage = "check"
  /\ Tables(owner, shares,
       [ask EXCEPT ![r] = Answer(r, q.file, q.account, TRUE, q.seen,
          q.seen = q.account \/ q.account \in shares[q.file])])
  /\ UNCHANGED pending

\* AccessibleFileIDs for one file: what is owned, then what is shared.
SQLiteAccessible(r, f, a) ==
  /\ store = "sqlite"
  /\ \/ /\ Make(r)
        /\ Tables(owner, shares, [ask EXCEPT ![r] = Reading("list", f, a, FALSE)])
     \/ /\ ask[r].stage = "list" /\ ask[r].file = f /\ ask[r].account = a
        /\ Tables(owner, shares,
             [ask EXCEPT ![r] = Answer(r, f, a, FALSE, @.seen, @.seen = a \/ a \in shares[f])])
        /\ UNCHANGED pending

SQLite(r) ==
  \/ SQLiteDeleteShares(r) \/ SQLiteListShares(r)
  \/ \E f \in File : \/ SQLiteDeleteOwner(r, f)
                     \/ \E a \in Account :
                          \/ SQLiteSetOwner(r, f, a) \/ SQLiteShare(r, f, a)
                          \/ SQLiteUnshare(r, f, a) \/ SQLiteCanAccess(r, f, a)
                          \/ SQLiteAccessible(r, f, a)

----------------------------------------------------------------------------
\* NullStore: each call is one critical section.

NullSetOwner(r, f, a) ==
  /\ store = "null" /\ Make(r)
  /\ Tables([owner EXCEPT ![f] = a], shares, ask)

NullShare(r, f, a) ==
  /\ store = "null" /\ Make(r)
  /\ Tables(owner, [shares EXCEPT ![f] = @ \cup {a}], ask)

NullUnshare(r, f, a) ==
  /\ store = "null" /\ Make(r)
  /\ Tables(owner, [shares EXCEPT ![f] = @ \ {a}], ask)

NullDelete(r, f) ==
  /\ store = "null" /\ Make(r)
  /\ Tables([owner EXCEPT ![f] = NoOwner], [shares EXCEPT ![f] = {}], ask)

NullCanAccess(r, f, a) ==
  /\ store = "null" /\ Make(r)
  /\ Tables(owner, shares,
       [ask EXCEPT ![r] = Answer(r, f, a, TRUE, owner[f],
          owner[f] = NoOwner \/ owner[f] = a \/ a \in shares[f])])

NullAccessible(r, f, a) ==
  /\ store = "null" /\ Make(r)
  /\ Tables(owner, shares,
       [ask EXCEPT ![r] = Answer(r, f, a, FALSE, owner[f], owner[f] = a \/ a \in shares[f])])

Null(r) ==
  \E f \in File :
    \/ NullDelete(r, f)
    \/ \E a \in Account :
         \/ NullSetOwner(r, f, a) \/ NullShare(r, f, a) \/ NullUnshare(r, f, a)
         \/ NullCanAccess(r, f, a) \/ NullAccessible(r, f, a)

----------------------------------------------------------------------------
\* PostgresACLStore.  exists: whether the row of f in the files' table exists; the
\* foreign key refuses a row of a missing file.

PgSetOwner(r, f, a, exists) ==
  /\ store = "postgres" /\ exists /\ Make(r)
  /\ Tables([owner EXCEPT ![f] = a], shares, ask)

PgShare(r, f, a, exists) ==
  /\ store = "postgres" /\ exists /\ Make(r)
  /\ Tables(owner, [shares EXCEPT ![f] = @ \cup {a}], ask)

PgUnshare(r, f, a) ==
  /\ store = "postgres" /\ Make(r)
  /\ Tables(owner, [shares EXCEPT ![f] = @ \ {a}], ask)

\* Delete: the shares, then the owner unless a failure or a crash comes between.
PgDeleteShares(r, f) ==
  /\ store = "postgres" /\ Make(r)
  /\ Tables(owner, [shares EXCEPT ![f] = {}],
            [ask EXCEPT ![r] = [NoAsk EXCEPT !.stage = "delete", !.file = f]])
PgDeleteOwner(r) ==
  /\ store = "postgres" /\ ask[r].stage = "delete"
  /\ \E failed \in BOOLEAN :
       Tables(IF failed THEN owner ELSE [owner EXCEPT ![ask[r].file] = NoOwner], shares,
              [ask EXCEPT ![r] = NoAsk])
  /\ UNCHANGED pending

PgCanAccess(r, f, a) ==
  /\ store = "postgres" /\ Make(r)
  /\ Tables(owner, shares,
       [ask EXCEPT ![r] = IF owner[f] = NoOwner THEN Answer(r, f, a, TRUE, NoOwner, TRUE)
                          ELSE Reading("check", f, a, TRUE)])
PgListShares(r) ==
  LET q == ask[r] IN
  /\ store = "postgres" /\ q.stage = "check"
  /\ Tables(owner, shares,
       [ask EXCEPT ![r] = Answer(r, q.file, q.account, TRUE, q.seen,
          q.seen = q.account \/ q.account \in shares[q.file])])
  /\ UNCHANGED pending

PgAccessible(r, f, a) ==
  /\ store = "postgres"
  /\ \/ /\ Make(r)
        /\ Tables(owner, shares, [ask EXCEPT ![r] = Reading("list", f, a, FALSE)])
     \/ /\ ask[r].stage = "list" /\ ask[r].file = f /\ ask[r].account = a
        /\ Tables(owner, shares,
             [ask EXCEPT ![r] = Answer(r, f, a, FALSE, @.seen, @.seen = a \/ a \in shares[f])])
        /\ UNCHANGED pending

Postgres(r, exists(_)) ==
  \/ PgDeleteOwner(r) \/ PgListShares(r)
  \/ \E f \in File : \/ PgDeleteShares(r, f)
                     \/ \E a \in Account :
                          \/ PgSetOwner(r, f, a, exists(f)) \/ PgShare(r, f, a, exists(f))
                          \/ PgUnshare(r, f, a) \/ PgCanAccess(r, f, a)
                          \/ PgAccessible(r, f, a)

----------------------------------------------------------------------------
\* Owner and shares are read apart while both change.  A check never lets pass who
\* could not have passed at any one moment of it, and it turns away who could have
\* passed at every moment of it only when the owner that it read is replaced meanwhile
\* (Store.CanAccess and Store.AccessibleFileIDs).
ChecksExplained ==
  \A r \in Request :
    LET q == ask[r] IN
    /\ q.stage = "answered" /\ q.allowed => q.could
    /\ q.stage = "answered" /\ ~ q.allowed => ~ q.always \/ q.moved

============================================================================
