---------------------------- MODULE DocumentProofs ----------------------------
(***************************************************************************)
(* Theorems about the document storage, for any overlapping requests,      *)
(* files, accounts, signers, events and tokens, in each backend.           *)
(*                                                                         *)
(*   FileACL          a check that reads two tables is explained by the    *)
(*                    moments that it spans                                *)
(*   DocumentStorage  history, overwriting and deletion of files           *)
(*   DocumentRecords  signers, audit events, deleted records               *)
(***************************************************************************)
EXTENDS MCDocuments, FiniteSetTheorems, WellFoundedInduction, TLAPS

----------------------------------------------------------------------------
\* FileACL.

Owners == [File -> Account \cup {NoOwner}]
Shares == [File -> SUBSET Account]

\* What a check that has returned says of the moments it spans.
Explained(q) ==
  q.stage = "answered" =>
    /\ q.allowed => q.could
    /\ ~ q.allowed => ~ q.always \/ q.moved

\* What a check that is under way knows.
Reads(q) ==
  /\ q.stage = "check" => q.open /\ q.seen # NoOwner
  /\ q.stage = "list" => ~ q.open

UnderWay(q) == q.stage \in {"check", "list"}

\* Before and after the tables have gone through it.
Fresh(q, own) ==
  /\ Explained(q) /\ Reads(q)
  /\ UnderWay(q) /\ q.seen = q.account => q.could \/ own[q.file] = q.seen

Checked(q, own) ==
  /\ Explained(q) /\ Reads(q)
  /\ UnderWay(q) => /\ q.seen = q.account => q.could
                    /\ own[q.file] # q.seen => q.moved

AclInv == AclTypeOK /\ \A r \in Request : Checked(ask[r], owner)

LEMMA NoAskType == NoAsk \in AskState /\ NoAsk.stage = "idle" /\ ~ NoAsk.moved /\ ~ NoAsk.could
BY SomeAssumption DEF NoAsk, AskState

LEMMA TablesChecked ==
  ASSUME AclInv, NEW own \in Owners, NEW shr \in Shares, NEW asks \in [Request -> AskState],
         \A r \in Request : Fresh(asks[r], own), Tables(own, shr, asks),
         store' = store, pending' \subseteq pending
  PROVE  AclInv'
<1>1. owner' = own /\ shares' = shr
  BY DEF Tables
<1>2. ASSUME NEW r \in Request PROVE ask'[r] \in AskState /\ Checked(ask'[r], own)
  <2> DEFINE q == asks[r]
             may == MayAccess(own, shr, q.file, q.account, q.open)
  <2>1. q \in AskState /\ Fresh(q, own)
    OBVIOUS
  <2>2. CASE ~ UnderWay(q)
    <3>1. ask'[r] = q
      BY <2>2 DEF Tables, UnderWay
    <3> QED BY <2>1, <2>2, <3>1 DEF Fresh, Checked
  <2>3. CASE UnderWay(q)
    <3>1. ask'[r] = [q EXCEPT !.could = @ \/ may, !.always = @ /\ may,
                              !.moved = @ \/ own[q.file] # q.seen]
      BY <2>3 DEF Tables, UnderWay
    <3>2. q.seen = q.account /\ own[q.file] = q.seen => may
      BY <2>1, NoOwnerAssumption DEF AskState, MayAccess
    <3> HIDE DEF may
    <3>3. ask'[r] \in AskState
      BY <2>1, <3>1 DEF AskState
    <3>4. Checked(ask'[r], own)
      BY <2>1, <2>3, <3>1, <3>2 DEF AskState, Fresh, Checked, Explained, Reads, UnderWay
    <3> QED BY <3>3, <3>4
  <2> QED BY <2>2, <2>3
<1>3. ask' \in [Request -> AskState]
  BY <1>2 DEF Tables
<1> QED BY <1>1, <1>2, <1>3 DEF AclInv, AclTypeOK, Owners, Shares

\* A change of the tables alone.
LEMMA ChangeChecked ==
  ASSUME AclInv, NEW own \in Owners, NEW shr \in Shares, Tables(own, shr, ask),
         store' = store, pending' \subseteq pending
  PROVE  AclInv'
<1>1. \A r \in Request : Fresh(ask[r], own)
  BY DEF AclInv, Checked, Fresh
<1> QED BY <1>1, TablesChecked DEF AclInv, AclTypeOK

\* A change of the tables and of one request.
LEMMA AskChecked ==
  ASSUME AclInv, NEW own \in Owners, NEW shr \in Shares, NEW r \in Request, NEW q \in AskState,
         Fresh(q, own), Tables(own, shr, [ask EXCEPT ![r] = q]),
         store' = store, pending' \subseteq pending
  PROVE  AclInv'
<1> DEFINE asks == [ask EXCEPT ![r] = q]
<1>1. asks \in [Request -> AskState]
  BY DEF AclInv, AclTypeOK
<1>2. \A p \in Request : Fresh(asks[p], own)
  BY DEF AclInv, AclTypeOK, Checked, Fresh
<1> QED BY <1>1, <1>2, TablesChecked

\* Idle requests, and those that have cleared the first table.
LEMMA RestFresh ==
  ASSUME NEW own, NEW f \in File
  PROVE  /\ NoAsk \in AskState /\ Fresh(NoAsk, own)
         /\ [NoAsk EXCEPT !.stage = "delete", !.file = f] \in AskState
         /\ Fresh([NoAsk EXCEPT !.stage = "delete", !.file = f], own)
BY SomeAssumption DEF NoAsk, AskState, Fresh, Explained, Reads, UnderWay

LEMMA ReadingFresh ==
  ASSUME AclInv, NEW f \in File, NEW a \in Account, NEW stage, NEW open,
         \/ stage = "check" /\ open = TRUE /\ owner[f] # NoOwner
         \/ stage = "list" /\ open = FALSE
  PROVE  /\ Reading(stage, f, a, open) \in AskState
         /\ Fresh(Reading(stage, f, a, open), owner)
BY SomeAssumption DEF AclInv, AclTypeOK, Reading, NoAsk, AskState, Fresh, Explained, Reads, UnderWay

\* The answer to a question that was read in one step or in two.
LEMMA AnswerFresh ==
  ASSUME AclInv, NEW r \in Request, NEW f \in File, NEW a \in Account, NEW open \in BOOLEAN,
         NEW seen \in Account \cup {NoOwner}, NEW allowed \in BOOLEAN,
         allowed => ask[r].could \/ MayAccess(owner, shares, f, a, open),
         ~ allowed /\ MayAccess(owner, shares, f, a, open) => ask[r].moved
  PROVE  /\ Answer(r, f, a, open, seen, allowed) \in AskState
         /\ Fresh(Answer(r, f, a, open, seen, allowed), owner)
<1> DEFINE may == MayAccess(owner, shares, f, a, open)
           q == Answer(r, f, a, open, seen, allowed)
<1>1. ask[r] \in AskState
  BY DEF AclInv, AclTypeOK
<1>2. q = [stage |-> "answered", file |-> f, account |-> a, open |-> open, seen |-> seen,
           allowed |-> allowed, could |-> ask[r].could \/ may, always |-> ask[r].always /\ may,
           moved |-> ask[r].moved]
  <2>1. PICK g, b : NoAsk = [stage |-> "idle", file |-> g, account |-> b, open |-> FALSE,
          seen |-> NoOwner, allowed |-> FALSE, could |-> FALSE, always |-> TRUE, moved |-> FALSE]
    BY DEF NoAsk
  <2>2. q = [NoAsk EXCEPT !.stage = "answered", !.file = f, !.account = a, !.open = open,
               !.seen = seen, !.allowed = allowed, !.could = ask[r].could \/ may,
               !.always = ask[r].always /\ may, !.moved = ask[r].moved]
    BY DEF Answer
  <2> HIDE DEF may, q
  <2> QED BY <2>1, <2>2
<1> HIDE DEF may, q
<1>3. q \in AskState
  BY <1>1, <1>2 DEF AskState
<1>4. q.stage = "answered" /\ (q.allowed => q.could) /\ (~ q.allowed => ~ q.always \/ q.moved)
  BY <1>1, <1>2 DEF may, AskState
<1> QED BY <1>3, <1>4 DEF Fresh, Explained, Reads, UnderWay, q

\* The second query of a check, and the comparison.
LEMMA SecondReadFresh ==
  ASSUME AclInv, NEW r \in Request, UnderWay(ask[r])
  PROVE  LET q == ask[r]
             ans == Answer(r, q.file, q.account, q.stage = "check", q.seen,
                           q.seen = q.account \/ q.account \in shares[q.file])
         IN  ans \in AskState /\ Fresh(ans, owner)
<1> DEFINE q == ask[r]
           open == q.stage = "check"
           allowed == q.seen = q.account \/ q.account \in shares[q.file]
           may == MayAccess(owner, shares, q.file, q.account, open)
<1>1. q \in AskState /\ Checked(q, owner)
  BY DEF AclInv, AclTypeOK
<1>2. q.file \in File /\ q.account \in Account /\ q.seen \in Account \cup {NoOwner}
  BY <1>1 DEF AskState
<1>3. (q.seen = q.account => q.could) /\ (owner[q.file] # q.seen => q.moved)
  BY <1>1 DEF Checked, UnderWay
<1>4. q.stage = "check" => q.seen # NoOwner
  BY <1>1 DEF Checked, Reads
<1>5. allowed => q.could \/ may
  BY <1>3 DEF MayAccess
<1>6. ~ allowed /\ may => q.moved
  BY <1>3, <1>4, NoOwnerAssumption DEF MayAccess
<1>7. allowed \in BOOLEAN /\ open \in BOOLEAN
  OBVIOUS
<1> HIDE DEF allowed, open
<1>8. /\ Answer(r, q.file, q.account, open, q.seen, allowed) \in AskState
      /\ Fresh(Answer(r, q.file, q.account, open, q.seen, allowed), owner)
  BY <1>2, <1>5, <1>6, <1>7, AnswerFresh
<1> QED BY <1>8 DEF allowed, open

\* The first query of a check.
LEMMA FirstReadFresh ==
  ASSUME AclInv, NEW r \in Request, NEW f \in File, NEW a \in Account
  PROVE  LET q == IF owner[f] = NoOwner THEN Answer(r, f, a, TRUE, NoOwner, TRUE)
                  ELSE Reading("check", f, a, TRUE)
         IN  q \in AskState /\ Fresh(q, owner)
<1>1. CASE owner[f] = NoOwner
  <2>1. MayAccess(owner, shares, f, a, TRUE)
    BY <1>1 DEF MayAccess
  <2> QED BY <1>1, <2>1, AnswerFresh
<1>2. CASE owner[f] # NoOwner
  BY <1>2, ReadingFresh
<1> QED BY <1>1, <1>2

LEMMA TablesTyped ==
  ASSUME AclInv
  PROVE  /\ owner \in Owners /\ shares \in Shares
         /\ \A f \in File, a \in Account :
              /\ [owner EXCEPT ![f] = a] \in Owners /\ [owner EXCEPT ![f] = NoOwner] \in Owners
              /\ [shares EXCEPT ![f] = @ \cup {a}] \in Shares
              /\ [shares EXCEPT ![f] = @ \ {a}] \in Shares /\ [shares EXCEPT ![f] = {}] \in Shares
BY DEF AclInv, AclTypeOK, Owners, Shares

LEMMA MakeShrinks ==
  ASSUME NEW r, Make(r) \/ UNCHANGED pending
  PROVE  pending' \subseteq pending
BY DEF Make

LEMMA SecondReadChecked ==
  ASSUME AclInv, NEW r \in Request, UnderWay(ask[r]),
         LET q == ask[r]
         IN  Tables(owner, shares, [ask EXCEPT ![r] =
               Answer(r, q.file, q.account, q.stage = "check", q.seen,
                      q.seen = q.account \/ q.account \in shares[q.file])]),
         store' = store, pending' \subseteq pending
  PROVE  AclInv'
<1> DEFINE q == ask[r]
           ans == Answer(r, q.file, q.account, q.stage = "check", q.seen,
                         q.seen = q.account \/ q.account \in shares[q.file])
<1>1. ans \in AskState /\ Fresh(ans, owner)
  BY SecondReadFresh
<1>2. Tables(owner, shares, [ask EXCEPT ![r] = ans])
  OBVIOUS
<1> HIDE DEF ans
<1> QED BY <1>1, <1>2, TablesTyped, AskChecked

LEMMA SQLiteChecked ==
  ASSUME AclInv, NEW r \in Request, SQLite(r), store' = store
  PROVE  AclInv'
<1>1. pending' \subseteq pending
  BY DEF SQLite, SQLiteDeleteShares, SQLiteListShares, SQLiteDeleteOwner, SQLiteSetOwner,
         SQLiteShare, SQLiteUnshare, SQLiteCanAccess, SQLiteAccessible, Make
<1>2. CASE SQLiteDeleteShares(r)
  <2>1. ask[r].file \in File
    BY DEF AclInv, AclTypeOK, AskState
  <2>2. PICK failed \in BOOLEAN :
          Tables(owner, IF failed THEN shares ELSE [shares EXCEPT ![ask[r].file] = {}],
                 [ask EXCEPT ![r] = NoAsk])
    BY <1>2 DEF SQLiteDeleteShares
  <2>3. (IF failed THEN shares ELSE [shares EXCEPT ![ask[r].file] = {}]) \in Shares
    BY <2>1, TablesTyped, SomeAssumption
  <2> QED BY <1>1, <2>1, <2>2, <2>3, TablesTyped, RestFresh, AskChecked
<1>3. CASE SQLiteListShares(r)
  <2>1. ask[r].stage = "check" /\ UnderWay(ask[r])
    BY <1>3 DEF SQLiteListShares, UnderWay
  <2>2. LET q == ask[r]
        IN  Tables(owner, shares, [ask EXCEPT ![r] =
              Answer(r, q.file, q.account, q.stage = "check", q.seen,
                     q.seen = q.account \/ q.account \in shares[q.file])])
    BY <1>3, <2>1 DEF SQLiteListShares
  <2> QED BY <1>1, <2>1, <2>2, SecondReadChecked
<1>4. ASSUME NEW f \in File, SQLiteDeleteOwner(r, f) PROVE AclInv'
  BY <1>1, <1>4, TablesTyped, RestFresh, AskChecked, SomeAssumption DEF SQLiteDeleteOwner
<1>5. ASSUME NEW f \in File, NEW a \in Account,
             SQLiteSetOwner(r, f, a) \/ SQLiteShare(r, f, a) \/ SQLiteUnshare(r, f, a)
      PROVE  AclInv'
  BY <1>1, <1>5, TablesTyped, ChangeChecked DEF SQLiteSetOwner, SQLiteShare, SQLiteUnshare
<1>6. ASSUME NEW f \in File, NEW a \in Account, SQLiteCanAccess(r, f, a) PROVE AclInv'
  BY <1>1, <1>6, TablesTyped, FirstReadFresh, AskChecked DEF SQLiteCanAccess
<1>7. ASSUME NEW f \in File, NEW a \in Account, SQLiteAccessible(r, f, a) PROVE AclInv'
  <2>1. CASE Tables(owner, shares, [ask EXCEPT ![r] = Reading("list", f, a, FALSE)])
    BY <1>1, <2>1, TablesTyped, ReadingFresh, AskChecked
  <2>2. CASE ask[r].stage = "list" /\ ask[r].file = f /\ ask[r].account = a
             /\ Tables(owner, shares, [ask EXCEPT ![r] =
                  Answer(r, f, a, FALSE, @.seen, @.seen = a \/ a \in shares[f])])
    <3>1. LET q == ask[r]
          IN  Tables(owner, shares, [ask EXCEPT ![r] =
                Answer(r, q.file, q.account, q.stage = "check", q.seen,
                       q.seen = q.account \/ q.account \in shares[q.file])])
      BY <2>2 DEF AclInv, AclTypeOK
    <3>2. UnderWay(ask[r])
      BY <2>2 DEF UnderWay
    <3> QED BY <1>1, <3>1, <3>2, SecondReadChecked
  <2> QED BY <1>7, <2>1, <2>2 DEF SQLiteAccessible
<1> QED BY <1>2, <1>3, <1>4, <1>5, <1>6, <1>7 DEF SQLite

LEMMA NullChecked ==
  ASSUME AclInv, NEW r \in Request, Null(r), store' = store
  PROVE  AclInv'
<1>1. pending' \subseteq pending
  BY DEF Null, NullDelete, NullSetOwner, NullShare, NullUnshare, NullCanAccess,
         NullAccessible, Make
<1>2. ASSUME NEW f \in File, NullDelete(r, f) PROVE AclInv'
  BY <1>1, <1>2, TablesTyped, ChangeChecked, SomeAssumption DEF NullDelete
<1>3. ASSUME NEW f \in File, NEW a \in Account,
             NullSetOwner(r, f, a) \/ NullShare(r, f, a) \/ NullUnshare(r, f, a)
      PROVE  AclInv'
  BY <1>1, <1>3, TablesTyped, ChangeChecked DEF NullSetOwner, NullShare, NullUnshare
<1>4. ASSUME NEW f \in File, NEW a \in Account, NEW open \in BOOLEAN, NEW allowed \in BOOLEAN,
             allowed <=> MayAccess(owner, shares, f, a, open),
             Tables(owner, shares, [ask EXCEPT ![r] = Answer(r, f, a, open, owner[f], allowed)])
      PROVE  AclInv'
  <2>1. owner[f] \in Account \cup {NoOwner}
    BY DEF AclInv, AclTypeOK
  <2>2. /\ Answer(r, f, a, open, owner[f], allowed) \in AskState
        /\ Fresh(Answer(r, f, a, open, owner[f], allowed), owner)
    BY <1>4, <2>1, AnswerFresh
  <2> QED BY <1>1, <1>4, <2>2, TablesTyped, AskChecked
<1>5. ASSUME NEW f \in File, NEW a \in Account, NullCanAccess(r, f, a) PROVE AclInv'
  <2> DEFINE allowed == owner[f] = NoOwner \/ owner[f] = a \/ a \in shares[f]
  <2>1. allowed \in BOOLEAN /\ (allowed <=> MayAccess(owner, shares, f, a, TRUE))
    BY DEF MayAccess
  <2>2. Tables(owner, shares, [ask EXCEPT ![r] = Answer(r, f, a, TRUE, owner[f], allowed)])
    BY <1>5 DEF NullCanAccess
  <2> HIDE DEF allowed
  <2> QED BY <1>4, <2>1, <2>2
<1>6. ASSUME NEW f \in File, NEW a \in Account, NullAccessible(r, f, a) PROVE AclInv'
  <2> DEFINE allowed == owner[f] = a \/ a \in shares[f]
  <2>1. allowed \in BOOLEAN /\ (allowed <=> MayAccess(owner, shares, f, a, FALSE))
    BY NoOwnerAssumption DEF MayAccess
  <2>2. Tables(owner, shares, [ask EXCEPT ![r] = Answer(r, f, a, FALSE, owner[f], allowed)])
    BY <1>6 DEF NullAccessible
  <2> HIDE DEF allowed
  <2> QED BY <1>4, <2>1, <2>2
<1> QED BY <1>2, <1>3, <1>5, <1>6 DEF Null

LEMMA PostgresChecked ==
  ASSUME AclInv, NEW r \in Request, Postgres(r, Exists), store' = store
  PROVE  AclInv'
<1>1. pending' \subseteq pending
  BY DEF Postgres, PgDeleteShares, PgListShares, PgDeleteOwner, PgSetOwner,
         PgShare, PgUnshare, PgCanAccess, PgAccessible, Make
<1>2. CASE PgDeleteOwner(r)
  <2>1. ask[r].file \in File
    BY DEF AclInv, AclTypeOK, AskState
  <2>2. PICK failed \in BOOLEAN :
          Tables(IF failed THEN owner ELSE [owner EXCEPT ![ask[r].file] = NoOwner], shares,
                 [ask EXCEPT ![r] = NoAsk])
    BY <1>2 DEF PgDeleteOwner
  <2>3. (IF failed THEN owner ELSE [owner EXCEPT ![ask[r].file] = NoOwner]) \in Owners
    BY <2>1, TablesTyped, SomeAssumption
  <2> QED BY <1>1, <2>1, <2>2, <2>3, TablesTyped, RestFresh, AskChecked
<1>3. CASE PgListShares(r)
  <2>1. ask[r].stage = "check" /\ UnderWay(ask[r])
    BY <1>3 DEF PgListShares, UnderWay
  <2>2. LET q == ask[r]
        IN  Tables(owner, shares, [ask EXCEPT ![r] =
              Answer(r, q.file, q.account, q.stage = "check", q.seen,
                     q.seen = q.account \/ q.account \in shares[q.file])])
    BY <1>3, <2>1 DEF PgListShares
  <2> QED BY <1>1, <2>1, <2>2, SecondReadChecked
<1>4. ASSUME NEW f \in File, PgDeleteShares(r, f) PROVE AclInv'
  BY <1>1, <1>4, TablesTyped, RestFresh, AskChecked, SomeAssumption DEF PgDeleteShares
<1>5. ASSUME NEW f \in File, NEW a \in Account,
             PgSetOwner(r, f, a, Exists(f)) \/ PgShare(r, f, a, Exists(f)) \/ PgUnshare(r, f, a)
      PROVE  AclInv'
  BY <1>1, <1>5, TablesTyped, ChangeChecked DEF PgSetOwner, PgShare, PgUnshare
<1>6. ASSUME NEW f \in File, NEW a \in Account, PgCanAccess(r, f, a) PROVE AclInv'
  BY <1>1, <1>6, TablesTyped, FirstReadFresh, AskChecked DEF PgCanAccess
<1>7. ASSUME NEW f \in File, NEW a \in Account, PgAccessible(r, f, a) PROVE AclInv'
  <2>1. CASE Tables(owner, shares, [ask EXCEPT ![r] = Reading("list", f, a, FALSE)])
    BY <1>1, <2>1, TablesTyped, ReadingFresh, AskChecked
  <2>2. CASE ask[r].stage = "list" /\ ask[r].file = f /\ ask[r].account = a
             /\ Tables(owner, shares, [ask EXCEPT ![r] =
                  Answer(r, f, a, FALSE, @.seen, @.seen = a \/ a \in shares[f])])
    <3>1. LET q == ask[r]
          IN  Tables(owner, shares, [ask EXCEPT ![r] =
                Answer(r, q.file, q.account, q.stage = "check", q.seen,
                       q.seen = q.account \/ q.account \in shares[q.file])])
      BY <2>2 DEF AclInv, AclTypeOK
    <3>2. UnderWay(ask[r])
      BY <2>2 DEF UnderWay
    <3> QED BY <1>1, <3>1, <3>2, SecondReadChecked
  <2> QED BY <1>7, <2>1, <2>2 DEF PgAccessible
<1> QED BY <1>2, <1>3, <1>4, <1>5, <1>6, <1>7 DEF Postgres


\* Steps of the document storage leave the tables, but for the cascade of a delete.
LEMMA DocumentChecked ==
  ASSUME AclInv, NEW r \in Request, LocalDocument(r) \/ PgDocument(r)
  PROVE  AclInv'
<1>1. store' = store /\ pending' \subseteq pending
  BY DEF LocalDocument, LocalSnapshot, LocalListVersions, LocalPruneVersions, LocalTruncate,
         LocalUpdateFile, LocalTruncateVersion, LocalLabelVersion, LocalCreateFile,
         LocalReadFile, LocalDeleteFile, LocalReadVersion, PgDocument, PgSnapshot, PgPruneVersions, PgUpdateFile, PgCreateFile,
         PgReadFile, PgDeleteFile, PgLabelVersion, Make
<1>2. ASSUME NEW f \in File, PgDeleteFile(r, f) PROVE AclInv'
  <2>1. Tables([owner EXCEPT ![f] = NoOwner], [shares EXCEPT ![f] = {}], ask)
    BY <1>2 DEF PgDeleteFile, Cascade
  <2> QED BY <1>1, <2>1, TablesTyped, ChangeChecked, SomeAssumption
<1>3. CASE UNCHANGED aclVars
  BY <1>1, <1>3 DEF AclInv, AclTypeOK, aclVars, Checked
<1>4. CASE LocalDocument(r)
  BY <1>3, <1>4
     DEF LocalDocument, LocalSnapshot, LocalListVersions, LocalPruneVersions, LocalTruncate,
         LocalUpdateFile, LocalTruncateVersion, LocalLabelVersion, LocalCreateFile,
         LocalReadFile, LocalDeleteFile, LocalReadVersion, aclVars
<1>5. CASE PgDocument(r)
  BY <1>2, <1>3, <1>5
     DEF PgDocument, PgSnapshot, PgPruneVersions, PgUpdateFile, PgCreateFile,
         PgReadFile, PgLabelVersion, aclVars
<1> QED BY <1>4, <1>5

LEMMA InitAcl == Init => AclInv
BY NoAskType DEF Init, AclInv, AclTypeOK, Checked, Explained, Reads, UnderWay

LEMMA StepAcl == AclInv /\ [Next]_vars => AclInv'
<1> SUFFICES ASSUME AclInv, [Next]_vars PROVE AclInv'
  OBVIOUS
<1>1. CASE Next
  BY <1>1, SQLiteChecked, NullChecked, PostgresChecked, DocumentChecked DEF Next, Access
<1>2. CASE UNCHANGED vars
  BY <1>2 DEF AclInv, AclTypeOK, vars, Checked
<1> QED BY <1>1, <1>2

LEMMA AclInvariance == Spec => []AclInv
BY InitAcl, StepAcl, PTL DEF Spec

\* A check of access is explained by the moments that it spans, however owners, shares
\* and deletions change between its two queries (CanAccess, AccessibleFileIDs).
THEOREM ChecksAreExplained == Spec => []ChecksExplained
<1>1. AclInv => ChecksExplained
  BY DEF AclInv, ChecksExplained, Checked, Explained
<1> QED BY <1>1, AclInvariance, PTL

----------------------------------------------------------------------------
\* DocumentStorage: types.

\* A row is written in one go.
TypeInv ==
  /\ TypeOK
  /\ Pg => \A f \in File : /\ file[f].rev \notin {Torn, Garbled}
                           /\ \A v \in versions[f] : v.rev \in Revision

LEMMA RevisionPlain ==
  ASSUME NEW v \in Revision
  PROVE  v \notin {Never, Gone, Torn, Garbled}
BY RequestAssumption DEF Revision, Original, Never, Gone, Torn, Garbled

LEMMA NoEditType == NoEdit \in EditState /\ NoEdit.stage = "idle"
BY SomeAssumption DEF NoEdit, EditState, Revision, Stamp

LEMMA RacedType ==
  ASSUME TypeOK, NEW f, NEW r, NEW stages
  PROVE  /\ Raced(f, r, stages) \in [Request -> EditState]
         /\ \A q \in Request :
              /\ ~ (q # r /\ Busy(q, f, stages)) => Raced(f, r, stages)[q] = edit[q]
              /\ q # r /\ Busy(q, f, stages) =>
                   Raced(f, r, stages)[q] = [edit[q] EXCEPT !.raced = TRUE]
BY DEF TypeOK, Raced, EditState

\* A step that changes what one request is doing.
LEMMA EditType ==
  ASSUME TypeOK, NEW r \in Request, NEW e \in EditState
  PROVE  [edit EXCEPT ![r] = e] \in [Request -> EditState]
BY DEF TypeOK

LEMMA PutType ==
  ASSUME TypeOK, NEW f \in File, NEW v \in Version
  PROVE  /\ Put(f, v) \in [File -> SUBSET Version]
         /\ Put(f, v)[f] = {w \in versions[f] : w.id # v.id} \cup {v}
         /\ \A g \in File \ {f} : Put(f, v)[g] = versions[g]
BY DEF TypeOK, Put

\* PruneVersions goes on with the update that it belongs to.
LEMMA PruneGoesOn ==
  ASSUME TypeOK, NEW r \in Request, LocalPruneVersions(r)
  PROVE  /\ edit[r].stage = "listed" /\ edit'[r].stage = "pruned" /\ edit'[r].file = edit[r].file
         /\ edit'[r].read = edit[r].read /\ edit'[r].at = edit[r].at /\ edit'[r].id = edit[r].id
         /\ edit'[r].raced = edit[r].raced /\ edit'[r].snapped = edit[r].snapped
<1>1. edit'[r] = [edit[r] EXCEPT !.stage = "pruned", !.tail = {}] /\ edit[r] \in EditState
  BY DEF LocalPruneVersions, TypeOK
<1> QED BY <1>1 DEF LocalPruneVersions, EditState

\* The steps of LocalStorage, each with what it does to what one request is doing.
LEMMA LocalTyped ==
  ASSUME TypeInv, AclTypeOK', NEW r \in Request, LocalDocument(r)
  PROVE  TypeInv'
<1>1. TypeOK /\ Local /\ Local'
  BY DEF TypeInv, LocalDocument, LocalSnapshot, LocalListVersions, LocalPruneVersions,
         LocalTruncate, LocalUpdateFile, LocalTruncateVersion, LocalLabelVersion,
         LocalCreateFile, LocalReadFile,
         LocalDeleteFile, LocalReadVersion, Local
<1>2. /\ now \in Nat /\ file \in [File -> Stored] /\ versions \in [File -> SUBSET Version]
      /\ edit \in [Request -> EditState] /\ created \in [File -> SUBSET Nat]
      /\ edit[r] \in EditState /\ edit[r].file \in File
  BY <1>1 DEF TypeOK, Stamp, EditState
<1> DEFINE Typed == /\ now' \in Nat /\ file' \in [File -> Stored]
                    /\ versions' \in [File -> SUBSET Version]
                    /\ edit' \in [Request -> EditState] /\ created' \in [File -> SUBSET Nat]
<1> SUFFICES Typed
  BY <1>1 DEF TypeInv, TypeOK, Stamp, Local, Pg
<1>3. CASE LocalSnapshot(r)
  <2> DEFINE f == edit[r].file
             v == [id |-> now, rev |-> edit[r].read, labelled |-> FALSE]
  <2>1. v \in Version
    BY <1>2 DEF Version, EditState, Stamp
  <2>2. PICK stored \in BOOLEAN :
          /\ versions' = IF stored THEN Put(f, v) ELSE versions
          /\ created' = IF stored THEN [created EXCEPT ![f] = @ \cup {now}] ELSE created
          /\ edit' = [edit EXCEPT ![r].stage = "snapped", ![r].snapped = stored, ![r].id = now]
          /\ now' = now + 1 /\ file' = file
    BY <1>3 DEF LocalSnapshot
  <2>3. versions' \in [File -> SUBSET Version]
    BY <1>1, <1>2, <2>1, <2>2, PutType
  <2>4. edit' \in [Request -> EditState]
    BY <1>2, <2>2 DEF EditState, Stamp
  <2>5. created' \in [File -> SUBSET Nat] /\ now' \in Nat
    BY <1>2, <2>2
  <2> QED BY <1>2, <2>2, <2>3, <2>4, <2>5
<1>4. CASE LocalListVersions(r)
  <2>1. Beyond(edit[r].file) \in SUBSET Nat
    BY <1>2 DEF Beyond, Readable, Version, Stamp
  <2> HIDE DEF Beyond
  <2> QED BY <1>2, <1>4, <2>1 DEF LocalListVersions, EditState, Stamp
<1>5. CASE LocalPruneVersions(r)
  <2>1. edit' \in [Request -> EditState]
    <3>1. [edit[r] EXCEPT !.stage = "pruned", !.tail = {}] \in EditState
      BY <1>2 DEF EditState
    <3> QED BY <1>2, <1>5, <3>1, NoEditType DEF LocalPruneVersions
  <2>2. versions' \in [File -> SUBSET Version]
    BY <1>2, <1>5 DEF LocalPruneVersions
  <2> QED BY <1>2, <1>5, <2>1, <2>2 DEF LocalPruneVersions
<1>6. CASE LocalTruncate(r)
  <2> DEFINE raced == Raced(edit[r].file, r, Before)
  <2>1. raced \in [Request -> EditState]
    BY <1>1, RacedType
  <2>2. edit' \in [Request -> EditState]
    <3>1. edit' = [raced EXCEPT ![r].stage = "writing", ![r].raced = FALSE]
      BY <1>6 DEF LocalTruncate
    <3> HIDE DEF raced
    <3>2. [raced[r] EXCEPT !.stage = "writing", !.raced = FALSE] \in EditState
      BY <2>1 DEF EditState
    <3> QED BY <2>1, <3>1, <3>2
  <2>3. file' \in [File -> Stored]
    BY <1>2, <1>6 DEF LocalTruncate, Stored
  <2> QED BY <1>2, <1>6, <2>2, <2>3 DEF LocalTruncate
<1>7. CASE LocalUpdateFile(r)
  <2>1. Raced(edit[r].file, r, Before \cup {"writing"}) \in [Request -> EditState]
    BY <1>1, RacedType
  <2>2. edit' \in [Request -> EditState]
    BY <1>7, <2>1, NoEditType DEF LocalUpdateFile
  <2>3. file' \in [File -> Stored]
    BY <1>2, <1>7 DEF LocalUpdateFile, Stored, Stamp, Revision
  <2> QED BY <1>2, <1>7, <2>2, <2>3 DEF LocalUpdateFile
<1>8. CASE LocalTruncateVersion(r) \/ LocalLabelVersion(r)
  <2>1. PICK n \in Version : versions' = Put(edit[r].file, n)
    <3>1. ASSUME NEW x \in Revision \cup {Torn, Garbled}, NEW b \in BOOLEAN
          PROVE  [id |-> edit[r].id, rev |-> x, labelled |-> b] \in Version
      BY <1>2 DEF Version, EditState
    <3>2. edit[r].read \in Revision
      BY <1>2 DEF EditState
    <3> QED BY <1>8, <3>1, <3>2 DEF LocalTruncateVersion, LocalLabelVersion
  <2>2. versions' \in [File -> SUBSET Version]
    BY <1>1, <1>2, <2>1, PutType
  <2>3. edit' \in [Request -> EditState]
    <3>1. CASE LocalTruncateVersion(r)
      BY <1>2, <3>1 DEF LocalTruncateVersion, EditState
    <3>2. CASE LocalLabelVersion(r)
      <4>1. \A q \in Request : [edit[q] EXCEPT !.raced = TRUE] \in EditState
        BY <1>2 DEF EditState
      <4> QED BY <1>2, <3>2, <4>1, NoEditType DEF LocalLabelVersion
    <3> QED BY <1>8, <3>1, <3>2
  <2> QED BY <1>2, <1>8, <2>2, <2>3 DEF LocalTruncateVersion, LocalLabelVersion
<1>9. ASSUME NEW f \in File, LocalCreateFile(r, f) PROVE Typed
  <2>1. file' \in [File -> Stored] /\ now' \in Nat
    BY <1>2, <1>9 DEF LocalCreateFile, Stored, Stamp, Revision
  <2> QED BY <1>2, <1>9, <2>1 DEF LocalCreateFile
<1>10. ASSUME NEW f \in File, LocalReadFile(r, f) PROVE Typed
  <2>1. edit' \in [Request -> EditState]
    BY <1>2, <1>10, NoEditType DEF LocalReadFile, EditState
  <2> QED BY <1>2, <1>10, <2>1 DEF LocalReadFile
<1>11. ASSUME NEW f \in File, LocalReadVersion(r, f) PROVE Typed
  <2>1. PICK v \in Readable(f) :
          edit' = [edit EXCEPT ![r] = [NoEdit EXCEPT !.stage = "label", !.file = f,
                                         !.id = v.id, !.read = v.rev]]
    BY <1>11 DEF LocalReadVersion
  <2>2. v \in Version /\ v.rev \in Revision
    BY <1>2 DEF Readable
  <2>3. v.id \in Stamp /\ v.rev \in Revision
    BY <2>2 DEF Version
  <2>4. edit' \in [Request -> EditState]
    BY <1>2, <2>1, <2>3, NoEditType DEF EditState
  <2> QED BY <1>2, <1>11, <2>4 DEF LocalReadVersion
<1>12. ASSUME NEW f \in File, LocalDeleteFile(r, f) PROVE Typed
  <2>1. Raced(f, r, Before) \in [Request -> EditState]
    BY <1>1, RacedType
  <2>2. file' \in [File -> Stored] /\ edit' \in [Request -> EditState]
    BY <1>2, <1>12, <2>1, NoEditType DEF LocalDeleteFile, Stored
  <2> QED BY <1>2, <1>12, <2>2 DEF LocalDeleteFile
<1> QED BY <1>3, <1>4, <1>5, <1>6, <1>7, <1>8, <1>9, <1>10, <1>11, <1>12 DEF LocalDocument

LEMMA PgTyped ==
  ASSUME TypeInv, AclTypeOK', NEW r \in Request, PgDocument(r)
  PROVE  TypeInv'
<1>1. TypeOK /\ Pg /\ store' = store
  BY DEF TypeInv, PgDocument, PgSnapshot, PgPruneVersions, PgUpdateFile, PgCreateFile,
         PgReadFile, PgDeleteFile, PgLabelVersion
<1>2. /\ now \in Nat /\ file \in [File -> Stored] /\ versions \in [File -> SUBSET Version]
      /\ edit \in [Request -> EditState] /\ created \in [File -> SUBSET Nat]
      /\ edit[r] \in EditState /\ edit[r].file \in File
      /\ \A f \in File : /\ file[f].rev \notin {Torn, Garbled}
                        /\ \A v \in versions[f] : v.rev \in Revision
  BY <1>1 DEF TypeOK, TypeInv, Stamp, EditState
<1> DEFINE Typed == /\ now' \in Nat /\ file' \in [File -> Stored]
                    /\ \A f \in File : /\ file'[f].rev \notin {Torn, Garbled}
                                      /\ \A v \in versions'[f] : v.rev \in Revision
                    /\ versions' \in [File -> SUBSET Version]
                    /\ edit' \in [Request -> EditState] /\ created' \in [File -> SUBSET Nat]
<1> SUFFICES Typed
  BY <1>1 DEF TypeInv, TypeOK, Stamp
<1>3. r \notin {Torn, Garbled} /\ Gone \notin {Torn, Garbled}
  BY RequestAssumption DEF Gone, Torn, Garbled
<1> DEFINE Decodable == \A f \in File : \A v \in versions'[f] : v.rev \in Revision
<1>4. CASE PgSnapshot(r)
  <2> DEFINE f == edit[r].file
             v == [id |-> edit[r].at, rev |-> edit[r].read, labelled |-> FALSE]
  <2>1. v \in Version
    BY <1>2 DEF Version, EditState, Stamp
  <2>2. PICK stored \in BOOLEAN :
          /\ versions' = IF stored /\ \A w \in versions[f] : w.id # v.id
                           THEN Put(f, v) ELSE versions
          /\ created' = IF stored THEN [created EXCEPT ![f] = @ \cup {v.id}] ELSE created
          /\ edit' = [edit EXCEPT ![r].stage = "snapped", ![r].snapped = stored, ![r].id = v.id]
          /\ now' = now /\ file' = file
    BY <1>4 DEF PgSnapshot
  <2>3. versions' \in [File -> SUBSET Version]
    BY <1>1, <1>2, <2>1, <2>2, PutType
  <2>4. edit' \in [Request -> EditState]
    BY <1>2, <2>2 DEF EditState, Stamp
  <2>5. created' \in [File -> SUBSET Nat]
    BY <1>2, <2>2 DEF EditState, Stamp
  <2>6. Decodable
    <3>1. v.rev \in Revision
      BY <1>2 DEF EditState
    <3> HIDE DEF v
    <3> QED BY <1>1, <1>2, <2>1, <2>2, <3>1, PutType
  <2> QED BY <1>2, <2>2, <2>3, <2>4, <2>5, <2>6
<1>5. CASE PgPruneVersions(r)
  <2>1. PICK gone : versions' = [versions EXCEPT ![edit[r].file] = {v \in @ : v.id \notin gone}]
    BY <1>5 DEF PgPruneVersions
  <2>2. versions' \in [File -> SUBSET Version] /\ Decodable
    BY <1>2, <2>1
  <2> QED BY <1>2, <1>5, <2>2 DEF PgPruneVersions, EditState
<1>6. CASE PgUpdateFile(r)
  <2>1. Raced(edit[r].file, r, Before) \in [Request -> EditState]
    BY <1>1, RacedType
  <2>2. edit' \in [Request -> EditState]
    BY <1>6, <2>1, NoEditType DEF PgUpdateFile
  <2>3. file' \in [File -> Stored] /\ \A f \in File : file'[f].rev \notin {Torn, Garbled}
    BY <1>2, <1>3, <1>6 DEF PgUpdateFile, Stored, Stamp, Revision
  <2> QED BY <1>2, <1>6, <2>2, <2>3 DEF PgUpdateFile
<1>7. ASSUME NEW f \in File, PgCreateFile(r, f) PROVE Typed
  <2>1. file' \in [File -> Stored] /\ \A g \in File : file'[g].rev \notin {Torn, Garbled}
    BY <1>2, <1>3, <1>7 DEF PgCreateFile, Stored, Stamp, Revision
  <2> QED BY <1>2, <1>7, <2>1 DEF PgCreateFile
<1>8. ASSUME NEW f \in File, PgReadFile(r, f) PROVE Typed
  <2>1. file[f].rev \in Revision /\ file[f].updated \in Stamp
    BY <1>2, <1>8 DEF PgReadFile, Stored, Exists
  <2>2. edit' \in [Request -> EditState]
    BY <1>2, <1>8, <2>1, NoEditType DEF PgReadFile, EditState
  <2> QED BY <1>2, <1>8, <2>2 DEF PgReadFile
<1>9. ASSUME NEW f \in File, PgDeleteFile(r, f) PROVE Typed
  <2>1. Raced(f, r, Before) \in [Request -> EditState]
    BY <1>1, RacedType
  <2>2. file' \in [File -> Stored] /\ \A g \in File : file'[g].rev \notin {Torn, Garbled}
    BY <1>2, <1>3, <1>9 DEF PgDeleteFile, Stored
  <2>3. versions' \in [File -> SUBSET Version] /\ created' \in [File -> SUBSET Nat] /\ Decodable
    BY <1>2, <1>9 DEF PgDeleteFile, Cascade
  <2> QED BY <1>2, <1>9, <2>1, <2>2, <2>3 DEF PgDeleteFile
<1>10. ASSUME NEW f \in File, PgLabelVersion(r, f) PROVE Typed
  <2>1. PICK v \in versions[f] : versions' = Put(f, [v EXCEPT !.labelled = TRUE])
    BY <1>10 DEF PgLabelVersion
  <2>2. v \in Version
    BY <1>2
  <2> DEFINE n == [v EXCEPT !.labelled = TRUE]
  <2>3. n \in Version /\ n.rev \in Revision /\ versions' = Put(f, n)
    BY <1>2, <2>1, <2>2 DEF Version
  <2> HIDE DEF n
  <2>4. versions' \in [File -> SUBSET Version] /\ Decodable
    BY <1>1, <1>2, <2>3, PutType
  <2> QED BY <1>2, <1>10, <2>4 DEF PgLabelVersion
<1> QED BY <1>4, <1>5, <1>6, <1>7, <1>8, <1>9, <1>10 DEF PgDocument

LEMMA InitTyped == Init => TypeInv
<1> SUFFICES ASSUME Init PROVE TypeInv
  OBVIOUS
<1>1. \A f \in File : file[f] \in {[rev |-> v, updated |-> 0] : v \in {Never, Original}}
  BY DEF Init
<1>2. file \in [File -> Stored] /\ \A f \in File : file[f].rev \notin {Torn, Garbled}
  BY <1>1 DEF Init, Stored, Stamp, Revision, Never, Original, Torn, Garbled
<1> QED BY <1>2, NoAskType, NoEditType DEF Init, TypeInv, TypeOK, AclTypeOK, Stamp

LEMMA StepTyped == TypeInv /\ AclTypeOK' /\ [Next]_vars => TypeInv'
<1> SUFFICES ASSUME TypeInv, AclTypeOK', [Next]_vars PROVE TypeInv'
  OBVIOUS
<1>1. CASE UNCHANGED <<store, docVars>>
  BY <1>1 DEF TypeInv, TypeOK, docVars, Pg
<1>2. CASE Next
  BY <1>1, <1>2, LocalTyped, PgTyped DEF Next, Access
<1> QED BY <1>1, <1>2 DEF vars, docVars

LEMMA TypeInvariance == Spec => []TypeInv
<1>1. AclInv => AclTypeOK
  BY DEF AclInv
<1> QED BY InitTyped, StepTyped, <1>1, AclInvariance, PTL DEF Spec

\* Files, versions, access lists and requests keep their types, whatever overlaps.
THEOREM DocumentsTyped == Spec => []TypeOK
<1>1. TypeInv => TypeOK
  BY DEF TypeInv
<1> QED BY <1>1, TypeInvariance, PTL

----------------------------------------------------------------------------
\* DocumentStorage: what outlives a file in Postgres.

OrphanInv == TypeInv /\ NothingOutlivesFile

LEMMA PostgresOrphans ==
  ASSUME OrphanInv, Pg, NEW r \in Request, Postgres(r, Exists), UNCHANGED <<store, docVars>>,
         NEW f \in File, ~ Exists(f)
  PROVE  owner'[f] = NoOwner /\ shares'[f] = {}
<1>1. owner[f] = NoOwner /\ shares[f] = {}
  BY DEF OrphanInv, NothingOutlivesFile
<1>2. owner \in [File -> Account \cup {NoOwner}] /\ shares \in [File -> SUBSET Account]
  BY DEF OrphanInv, TypeInv, TypeOK, AclTypeOK
<1>3. CASE PgDeleteOwner(r) \/ PgListShares(r)
  BY <1>1, <1>2, <1>3 DEF PgDeleteOwner, PgListShares, Tables
<1>4. ASSUME NEW g \in File, PgDeleteShares(r, g) PROVE owner'[f] = NoOwner /\ shares'[f] = {}
  BY <1>1, <1>2, <1>4 DEF PgDeleteShares, Tables
<1>5. ASSUME NEW g \in File, NEW a \in Account,
             \/ PgSetOwner(r, g, a, Exists(g)) \/ PgShare(r, g, a, Exists(g))
             \/ PgUnshare(r, g, a) \/ PgCanAccess(r, g, a) \/ PgAccessible(r, g, a)
      PROVE  owner'[f] = NoOwner /\ shares'[f] = {}
  BY <1>1, <1>2, <1>5 DEF PgSetOwner, PgShare, PgUnshare, PgCanAccess, PgAccessible, Tables
<1> QED BY <1>3, <1>4, <1>5 DEF Postgres

\* A document step in Postgres stores no version and no row without the file, and the
\* delete takes them along.
LEMMA PgOrphans ==
  ASSUME OrphanInv, NEW r \in Request, PgDocument(r), NEW f \in File, ~ Exists(f)'
  PROVE  versions'[f] = {} /\ owner'[f] = NoOwner /\ shares'[f] = {}
<1> DEFINE Bare == versions'[f] = {} /\ owner'[f] = NoOwner /\ shares'[f] = {}
<1>1. Pg
  BY DEF PgDocument, PgSnapshot, PgPruneVersions, PgUpdateFile, PgCreateFile,
         PgReadFile, PgDeleteFile, PgLabelVersion
<1>2. /\ owner \in [File -> Account \cup {NoOwner}] /\ shares \in [File -> SUBSET Account]
      /\ versions \in [File -> SUBSET Version] /\ file \in [File -> Stored]
      /\ edit[r].file \in File /\ edit \in [Request -> EditState]
  BY DEF OrphanInv, TypeInv, TypeOK, AclTypeOK, EditState
<1>3. ~ Exists(f) => versions[f] = {} /\ owner[f] = NoOwner /\ shares[f] = {}
  BY <1>1 DEF OrphanInv, NothingOutlivesFile
<1>4. ASSUME UNCHANGED <<owner, shares, versions>>, file'[f] = file[f] \/ Exists(f)' PROVE Bare
  BY <1>3, <1>4 DEF Exists
<1>5. CASE PgSnapshot(r)
  <2> DEFINE g == edit[r].file
             v == [id |-> edit[r].at, rev |-> edit[r].read, labelled |-> FALSE]
  <2>1. PICK stored \in BOOLEAN :
          /\ stored => Exists(g)
          /\ versions' = IF stored /\ \A w \in versions[g] : w.id # v.id
                           THEN Put(g, v) ELSE versions
    BY <1>5 DEF PgSnapshot
  <2>2. UNCHANGED <<file, owner, shares>>
    BY <1>5 DEF PgSnapshot
  <2>3. ~ Exists(f)
    BY <2>2 DEF Exists
  <2> HIDE DEF v
  <2>4. versions'[f] = versions[f]
    BY <1>2, <2>1, <2>3 DEF Put
  <2> QED BY <1>3, <2>2, <2>3, <2>4
<1>6. CASE PgPruneVersions(r)
  <2>1. UNCHANGED <<file, owner, shares>> /\ versions'[f] \subseteq versions[f]
    BY <1>2, <1>6 DEF PgPruneVersions
  <2> QED BY <1>3, <2>1 DEF Exists
<1>7. CASE PgUpdateFile(r)
  <2>1. file'[f] = file[f] \/ file'[f].rev = r
    BY <1>2, <1>7 DEF PgUpdateFile
  <2> QED BY <1>4, <1>7, <2>1, RequestAssumption DEF PgUpdateFile, Exists, Never, Gone
<1>8. ASSUME NEW g \in File, PgCreateFile(r, g) PROVE Bare
  <2>1. file'[f] = file[f] \/ file'[f].rev = r
    BY <1>2, <1>8 DEF PgCreateFile
  <2> QED BY <1>4, <1>8, <2>1, RequestAssumption DEF PgCreateFile, Exists, Never, Gone
<1>9. ASSUME NEW g \in File, PgReadFile(r, g) PROVE Bare
  BY <1>4, <1>9 DEF PgReadFile
<1>10. ASSUME NEW g \in File, PgDeleteFile(r, g) PROVE Bare
  <2>1. /\ owner' = [owner EXCEPT ![g] = NoOwner] /\ shares' = [shares EXCEPT ![g] = {}]
        /\ versions' = [versions EXCEPT ![g] = {}] /\ file' = [file EXCEPT ![g].rev = Gone]
    BY <1>10 DEF PgDeleteFile, Cascade, Tables
  <2> QED BY <1>2, <1>3, <2>1 DEF Exists
<1>11. ASSUME NEW g \in File, PgLabelVersion(r, g) PROVE Bare
  <2>1. PICK v \in versions[g] : versions' = Put(g, [v EXCEPT !.labelled = TRUE])
    BY <1>11 DEF PgLabelVersion
  <2>2. UNCHANGED <<file, owner, shares>> /\ ~ Exists(f)
    BY <1>11 DEF PgLabelVersion, Exists
  <2>3. versions'[f] = versions[f]
    BY <1>2, <1>3, <2>1, <2>2 DEF Put
  <2> QED BY <1>3, <2>2, <2>3
<1> QED BY <1>5, <1>6, <1>7, <1>8, <1>9, <1>10, <1>11 DEF PgDocument

\* In Postgres neither a version nor a row of an access list outlives its file (the
\* foreign keys of the schema), whatever was under way at the delete.
THEOREM NothingIsOrphaned == Spec => []NothingOutlivesFile
<1>1. Init => NothingOutlivesFile
  <2> SUFFICES ASSUME Init, NEW f \in File, ~ Exists(f)
               PROVE  versions[f] = {} /\ owner[f] = NoOwner /\ shares[f] = {}
    BY DEF NothingOutlivesFile
  <2>1. file[f] \in {[rev |-> v, updated |-> 0] : v \in {Never, Original}}
    BY DEF Init
  <2>2. file[f].rev = Never
    BY <2>1 DEF Exists, Never, Gone, Original
  <2> QED BY <2>2 DEF Init
<1>2. TypeInv /\ NothingOutlivesFile /\ [Next]_vars => NothingOutlivesFile'
  <2> SUFFICES ASSUME OrphanInv, [Next]_vars, Pg', NEW f \in File, ~ Exists(f)'
               PROVE  versions'[f] = {} /\ owner'[f] = NoOwner /\ shares'[f] = {}
    BY DEF OrphanInv, NothingOutlivesFile
  <2>1. CASE UNCHANGED vars
    BY <2>1 DEF vars, OrphanInv, NothingOutlivesFile, Pg, Exists
  <2>2. ASSUME NEW r \in Request, Access(r)
        PROVE  versions'[f] = {} /\ owner'[f] = NoOwner /\ shares'[f] = {}
    <3>1. UNCHANGED <<store, docVars>>
      BY <2>2 DEF Access
    <3>2. Pg /\ ~ Exists(f)
      BY <3>1 DEF Pg, docVars, Exists
    <3>3. ~ SQLite(r) /\ ~ Null(r)
      BY <3>2 DEF Pg, SQLite, SQLiteDeleteShares, SQLiteListShares, SQLiteDeleteOwner,
           SQLiteSetOwner, SQLiteShare, SQLiteUnshare, SQLiteCanAccess, SQLiteAccessible,
           Null, NullDelete, NullSetOwner, NullShare, NullUnshare, NullCanAccess, NullAccessible
    <3>4. Postgres(r, Exists)
      BY <2>2, <3>3 DEF Access
    <3>5. versions'[f] = {}
      BY <3>1, <3>2 DEF docVars, OrphanInv, NothingOutlivesFile
    <3> QED BY <3>1, <3>2, <3>4, <3>5, PostgresOrphans
  <2>3. ASSUME NEW r \in Request, LocalDocument(r) PROVE FALSE
    BY <2>3 DEF Local, Pg, LocalDocument, LocalSnapshot, LocalListVersions, LocalPruneVersions,
         LocalTruncate, LocalUpdateFile, LocalTruncateVersion, LocalLabelVersion,
         LocalCreateFile, LocalReadFile,
         LocalDeleteFile, LocalReadVersion
  <2> QED BY <2>1, <2>2, <2>3, PgOrphans DEF Next
<1> QED BY <1>1, <1>2, TypeInvariance, PTL DEF Spec

----------------------------------------------------------------------------
\* DocumentRecords.

\* What an update under way knows: of an envelope or a note that is deleted since it has
\* read it, which is then in nobody's hands that has begun to write it, and in Postgres of
\* signers that are stored since.
Aware(d) ==
  /\ d.of = "envelope" => d.kind = "comment"
  /\ d.of = "envelope" /\ envelope = Gone => d.deleted /\ d.stage # "writing"
  /\ d.of = "note" => Local
  /\ d.of = "note" /\ note[d.kind] = Gone => d.deleted /\ d.stage # "writing"
  /\ Pg /\ d.of \in {"envelope", "signer"} =>
       envelope = Gone \/ \A s \in Signer : d.signers[s] # signer[s] => s \in d.stale

RecordsInv == RecordsTypeOK /\ \A r \in Request : Aware(draft[r])

LEMMA NoDraftType ==
  /\ NoDraft \in Draft /\ NoDraft.of = "nothing" /\ NoDraft.kind = "comment"
  /\ NoDraft.stage = "read"
BY SignerAssumption DEF NoDraft, Draft, Kind

LEMMA StaleType ==
  ASSUME NEW signers, NEW d \in [Request -> Draft], NEW q \in Request
  PROVE  /\ Stale(signers, d) \in [Request -> Draft]
         /\ d[q].of \notin {"envelope", "signer"} => Stale(signers, d)[q] = d[q]
         /\ d[q].of \in {"envelope", "signer"} => Stale(signers, d)[q] =
              [d[q] EXCEPT !.stale = @ \cup {s \in Signer : signers[s] # signer[s]}]
BY DEF Stale, Draft

LEMMA OrphanedType ==
  ASSUME NEW of, NEW k, NEW d \in [Request -> Draft], NEW q \in Request
  PROVE  /\ Orphaned(of, k, d) \in [Request -> Draft]
         /\ ~ (d[q].of = of /\ d[q].kind = k) => Orphaned(of, k, d)[q] = d[q]
         /\ d[q].of = of /\ d[q].kind = k /\ d[q].stage = "writing" =>
              Orphaned(of, k, d)[q] = NoDraft
         /\ d[q].of = of /\ d[q].kind = k /\ d[q].stage # "writing" =>
              Orphaned(of, k, d)[q] = [d[q] EXCEPT !.deleted = TRUE]
<1>1. \A p \in Request : Orphaned(of, k, d)[p] \in Draft
  <2> SUFFICES ASSUME NEW p \in Request PROVE Orphaned(of, k, d)[p] \in Draft
    OBVIOUS
  <2>1. d[p] \in Draft /\ [d[p] EXCEPT !.deleted = TRUE] \in Draft
    BY DEF Draft
  <2> QED BY <2>1, NoDraftType DEF Orphaned
<1> QED BY <1>1 DEF Orphaned

\* A write begins; it ends, and marks those that it has come between.
LEMMA OrphanedOf ==
  ASSUME NEW of, NEW k, NEW d \in [Request -> Draft], NEW q \in Request
  PROVE  Orphaned(of, k, d)[q] = d[q] \/ Orphaned(of, k, d)[q].of \in {of, "nothing"}
<1>1. [d[q] EXCEPT !.deleted = TRUE].of = d[q].of
  BY DEF Draft
<1> QED BY <1>1, NoDraftType DEF Orphaned

LEMMA StaleOf ==
  ASSUME NEW signers, NEW d \in [Request -> Draft], NEW q \in Request
  PROVE  Stale(signers, d)[q] = d[q] \/ Stale(signers, d)[q].of \in {"envelope", "signer"}
<1>1. [d[q] EXCEPT !.stale = @ \cup {s \in Signer : signers[s] # signer[s]}].of = d[q].of
  BY DEF Draft
<1> QED BY <1>1 DEF Stale

LEMMA OpensDraft ==
  ASSUME draft \in [Request -> Draft], NEW r \in Request, NEW stage, Opens(r, stage)
  PROVE  /\ draft' \in [Request -> Draft] /\ draft[r].stage = stage
         /\ draft'[r] = [draft[r] EXCEPT !.stage = "writing"]
         /\ \A q \in Request \ {r} : draft'[q] = draft[q]
         /\ draft'[r].of = draft[r].of /\ draft'[r].event = draft[r].event
         /\ draft'[r].stage = "writing"
<1> DEFINE d == [draft[r] EXCEPT !.stage = "writing"]
<1>1. d \in Draft /\ d.of = draft[r].of /\ d.event = draft[r].event /\ d.stage = "writing"
  BY DEF Draft
<1>2. draft' = [draft EXCEPT ![r] = d] /\ draft[r].stage = stage
  BY DEF Opens
<1> HIDE DEF d
<1>3. draft'[r] = d /\ draft' \in [Request -> Draft]
      /\ \A q \in Request \ {r} : draft'[q] = draft[q]
  BY <1>1, <1>2
<1> QED BY <1>1, <1>2, <1>3 DEF d

LEMMA WritesDraft ==
  ASSUME draft \in [Request -> Draft], NEW r \in Request, Writes(r)
  PROVE  /\ draft' \in [Request -> Draft] /\ draft[r].stage = "writing" /\ draft'[r] = NoDraft
         /\ \A q \in Request \ {r} :
              draft'[q] \in {draft[q], [draft[q] EXCEPT !.raced = TRUE]}
<1>1. \A q \in Request : [draft[q] EXCEPT !.raced = TRUE] \in Draft
  BY DEF Draft
<1>2. \A q \in Request \ {r} : draft'[q] \in {draft[q], [draft[q] EXCEPT !.raced = TRUE]}
  BY DEF Writes
<1>3. draft'[r] = NoDraft /\ draft[r].stage = "writing"
  BY DEF Writes
<1>4. draft' \in [Request -> Draft]
  <2>1. draft' = [q \in Request |-> draft'[q]]
    BY DEF Writes
  <2> QED BY <1>1, <1>2, <1>3, <2>1, NoDraftType
<1> QED BY <1>2, <1>3, <1>4

\* What the end of a write leaves of the drafts.
Marks(r) ==
  \A q \in Request :
    \/ draft'[q].of = "nothing"
    \/ /\ draft'[q].of = draft[q].of /\ draft'[q].kind = draft[q].kind
       /\ draft'[q].deleted = draft[q].deleted /\ draft'[q].stage = draft[q].stage
       /\ draft'[q].event = draft[q].event /\ q # r

LEMMA WritesMark ==
  ASSUME draft \in [Request -> Draft], NEW r \in Request, Writes(r)
  PROVE  Marks(r)
<1> SUFFICES ASSUME NEW q \in Request \ {r}
             PROVE  /\ draft'[q].of = draft[q].of /\ draft'[q].kind = draft[q].kind
                    /\ draft'[q].deleted = draft[q].deleted /\ draft'[q].stage = draft[q].stage
                    /\ draft'[q].event = draft[q].event
  BY WritesDraft, NoDraftType DEF Marks
<1>1. draft'[q] \in {draft[q], [draft[q] EXCEPT !.raced = TRUE]} /\ draft[q] \in Draft
  BY WritesDraft
<1> QED BY <1>1 DEF Draft

LEMMA WrittenType ==
  ASSUME NEW r \in Request, NEW x \in Written(r)
  PROVE  x \in Revision \cup Lost /\ x \notin {Never, Gone}
BY RequestAssumption DEF Written, Lost, Revision, Never, Gone, Garbled

\* A step that touches neither envelope, signers, notes nor drafts.
LEMMA AsideAware ==
  ASSUME RecordsInv, UNCHANGED <<store, envelope, signer, note, draft>>, RecordsTypeOK'
  PROVE  RecordsInv'
BY DEF RecordsInv, Aware, Pg, Local

\* A step that starts, changes or finishes one draft, and nothing else.
LEMMA DraftAware ==
  ASSUME RecordsInv, NEW r \in Request, NEW d \in Draft, Aware(d),
         draft' = [draft EXCEPT ![r] = d], pending' \subseteq pending,
         UNCHANGED <<store, envelope, signer, audit, token, sealed, note>>
  PROVE  RecordsInv'
<1>1. RecordsTypeOK'
  BY DEF RecordsInv, RecordsTypeOK
<1>2. ASSUME NEW q \in Request PROVE Aware(draft'[q])
  BY DEF RecordsInv, RecordsTypeOK
<1> QED BY <1>1, <1>2 DEF RecordsInv, Aware, Pg, Local

LEMMA IdleAware == Aware(NoDraft)
BY NoDraftType DEF Aware

\* A step of LocalStorage that deletes nothing, and writes only what is not deleted.
LEMMA WritersAware ==
  ASSUME RecordsInv, Local, store' = store, RecordsTypeOK',
         envelope' = Gone => envelope = Gone,
         \A k \in Kind : note'[k] = Gone => note[k] = Gone,
         \A q \in Request :
           \/ draft'[q].of = "nothing"
           \/ /\ draft'[q].of = draft[q].of /\ draft'[q].kind = draft[q].kind
              /\ draft'[q].deleted = draft[q].deleted
              /\ draft'[q].stage = "writing" =>
                   \/ draft[q].stage = "writing"
                   \/ draft[q].of = "envelope" /\ envelope' # Gone
                   \/ draft[q].of = "note" /\ note'[draft[q].kind] # Gone
                   \/ draft[q].of \in {"signer", "event"}
  PROVE  RecordsInv'
<1>1. Local' /\ ~ Pg' /\ ~ Pg
  BY DEF Local, Pg
<1>2. ASSUME NEW q \in Request PROVE Aware(draft[q])'
  <2>1. Aware(draft[q]) /\ draft[q].kind \in Kind
    BY DEF RecordsInv, RecordsTypeOK, Draft
  <2> QED BY <1>1, <2>1 DEF Aware
<1> QED BY <1>2 DEF RecordsInv

LEMMA LocalSigningAware ==
  ASSUME RecordsInv, NEW r \in Request, LocalSigning(r)
  PROVE  RecordsInv'
<1>1. Local /\ ~ Pg /\ store' = store /\ pending' \subseteq pending
  BY DEF Local, Pg, LocalSigning, LocalCreateEnvelope, LocalGetEnvelope, LocalUpdateEnvelope,
         LocalDeleteEnvelope, LocalUpsertSigner, LocalAppendAuditEvent, LocalStoreSealedPDF,
         LocalGetSigner, LocalStoreSignerToken, LocalStatEvent, Make
<1>2. ~ Pg' /\ Local'
  BY <1>1 DEF Pg, Local
<1>3. /\ RecordsTypeOK /\ draft \in [Request -> Draft] /\ draft[r] \in Draft
      /\ \A q \in Request : Aware(draft[q])
  BY DEF RecordsInv, RecordsTypeOK
<1>4. CASE LocalCreateEnvelope(r)
  BY <1>1, <1>2, <1>3, <1>4, RequestAssumption
     DEF LocalCreateEnvelope, RecordsInv, RecordsTypeOK, Aware, Revision
<1>5. CASE LocalGetEnvelope(r)
  <2>1. /\ [NoDraft EXCEPT !.of = "envelope"] \in Draft
        /\ Aware([NoDraft EXCEPT !.of = "envelope"])
    BY <1>1, <1>5, NoDraftType, RevisionPlain DEF LocalGetEnvelope, Draft, Aware
  <2> QED BY <1>1, <1>5, <2>1, DraftAware DEF LocalGetEnvelope
<1>6. CASE LocalUpdateEnvelope(r)
  <2>1. /\ draft[r].of = "envelope" /\ UNCHANGED <<signer, audit, token, sealed, note>>
        /\ \/ draft' = [draft EXCEPT ![r].stage = "found"] /\ UNCHANGED envelope
           \/ Opens(r, "found") /\ envelope' = Torn
           \/ Writes(r) /\ envelope' \in Written(r)
    BY <1>6 DEF LocalUpdateEnvelope
  <2>2. CASE draft' = [draft EXCEPT ![r].stage = "found"] /\ UNCHANGED envelope
    <3>1. /\ [draft[r] EXCEPT !.stage = "found"] \in Draft
          /\ Aware([draft[r] EXCEPT !.stage = "found"])
      BY <1>1, <1>3 DEF Draft, Aware
    <3>2. draft' = [draft EXCEPT ![r] = [draft[r] EXCEPT !.stage = "found"]]
      BY <2>2
    <3> QED BY <1>1, <2>1, <2>2, <3>1, <3>2, DraftAware
  <2>3. CASE Opens(r, "found") /\ envelope' = Torn
    <3>1. RecordsTypeOK'
      BY <1>1, <1>3, <2>1, <2>3, OpensDraft DEF RecordsTypeOK, Lost
    <3>2. envelope' # Gone
      BY <2>3 DEF Torn, Gone
    <3>3. /\ draft'[r] = [draft[r] EXCEPT !.stage = "writing"]
          /\ \A q \in Request \ {r} : draft'[q] = draft[q]
      BY <1>3, <2>3, OpensDraft
    <3>4. /\ draft'[r].of = draft[r].of /\ draft'[r].kind = draft[r].kind
          /\ draft'[r].deleted = draft[r].deleted
      BY <1>3, <3>3 DEF Draft
    <3> QED BY <1>1, <2>1, <3>1, <3>2, <3>3, <3>4, WritersAware
  <2>4. CASE Writes(r) /\ envelope' \in Written(r)
    <3>1. RecordsTypeOK' /\ envelope' # Gone
      BY <1>1, <1>3, <2>1, <2>4, WritesDraft, WrittenType DEF RecordsTypeOK
    <3>2. Marks(r)
      BY <1>3, <2>4, WritesMark
    <3> QED BY <1>1, <2>1, <3>1, <3>2, WritersAware DEF Marks
  <2> QED BY <2>1, <2>2, <2>3, <2>4
<1>7. CASE LocalDeleteEnvelope(r)
  <2>1. /\ draft' = Orphaned("envelope", "comment", draft) /\ envelope' = Gone
        /\ UNCHANGED <<signer, audit, token, sealed, note>>
    BY <1>7 DEF LocalDeleteEnvelope
  <2>2. RecordsTypeOK'
    BY <1>1, <1>3, <2>1, OrphanedType DEF RecordsTypeOK
  <2>3. ASSUME NEW q \in Request PROVE Aware(draft[q])'
    <3>1. draft[q] \in Draft /\ Aware(draft[q])
      BY <1>3
    <3>2. CASE draft[q].of = "envelope"
      <4>1. draft'[q] = NoDraft \/ (draft[q].stage # "writing"
                                    /\ draft'[q] = [draft[q] EXCEPT !.deleted = TRUE])
        BY <1>3, <2>1, <3>1, <3>2, OrphanedType DEF Aware
      <4>2. CASE draft'[q] = NoDraft
        BY <4>2, NoDraftType DEF Aware
      <4> QED BY <1>2, <2>1, <3>1, <3>2, <4>1, <4>2 DEF Aware, Draft
    <3>3. CASE draft[q].of # "envelope"
      <4>1. draft'[q] = draft[q]
        BY <2>1, <3>3 DEF Orphaned
      <4> QED BY <1>2, <2>1, <3>1, <3>3, <4>1 DEF Aware
    <3> QED BY <3>2, <3>3
  <2> QED BY <2>2, <2>3 DEF RecordsInv
<1>8. CASE LocalUpsertSigner(r)
  <2> DEFINE s == draft[r].about
  <2>1. /\ draft[r].of = "signer" /\ UNCHANGED <<envelope, audit, token, sealed, note>>
        /\ \/ Opens(r, "read") /\ signer' = [signer EXCEPT ![s] = Torn]
           \/ Writes(r) /\ \E left \in Written(r) : signer' = [signer EXCEPT ![s] = left]
    BY <1>8 DEF LocalUpsertSigner
  <2>2. CASE Opens(r, "read") /\ signer' = [signer EXCEPT ![s] = Torn]
    <3>1. RecordsTypeOK'
      BY <1>1, <1>3, <2>1, <2>2, OpensDraft DEF RecordsTypeOK, Lost
    <3>2. /\ draft'[r] = [draft[r] EXCEPT !.stage = "writing"]
          /\ \A q \in Request \ {r} : draft'[q] = draft[q]
      BY <1>3, <2>2, OpensDraft
    <3>3. /\ draft'[r].of = draft[r].of /\ draft'[r].kind = draft[r].kind
          /\ draft'[r].deleted = draft[r].deleted
      BY <1>3, <3>2 DEF Draft
    <3> QED BY <1>1, <2>1, <3>1, <3>2, <3>3, WritersAware
  <2>3. ASSUME Writes(r), NEW left \in Written(r), signer' = [signer EXCEPT ![s] = left]
        PROVE  RecordsInv'
    <3>1. RecordsTypeOK'
      BY <1>1, <1>3, <2>1, <2>3, WritesDraft, WrittenType DEF RecordsTypeOK
    <3>2. Marks(r)
      BY <1>3, <2>3, WritesMark
    <3> QED BY <1>1, <2>1, <3>1, <3>2, WritersAware DEF Marks
  <2> QED BY <2>1, <2>2, <2>3
<1>9. CASE LocalAppendAuditEvent(r)
  <2> DEFINE v == draft[r].event
  <2>1. /\ draft[r].of = "event" /\ UNCHANGED <<envelope, signer, token, sealed, note>>
        /\ \/ Opens(r, "read") /\ audit' = [audit EXCEPT ![v] = Torn]
           \/ draft' = [draft EXCEPT ![r] = NoDraft] /\ UNCHANGED audit
           \/ Writes(r) /\ audit' = [audit EXCEPT ![v] = r]
    BY <1>9 DEF LocalAppendAuditEvent
  <2>2. CASE Opens(r, "read") /\ audit' = [audit EXCEPT ![v] = Torn]
    <3>1. RecordsTypeOK'
      BY <1>1, <1>3, <2>1, <2>2, OpensDraft DEF RecordsTypeOK
    <3>2. /\ draft'[r] = [draft[r] EXCEPT !.stage = "writing"]
          /\ \A q \in Request \ {r} : draft'[q] = draft[q]
      BY <1>3, <2>2, OpensDraft
    <3>3. /\ draft'[r].of = draft[r].of /\ draft'[r].kind = draft[r].kind
          /\ draft'[r].deleted = draft[r].deleted
      BY <1>3, <3>2 DEF Draft
    <3> QED BY <1>1, <2>1, <3>1, <3>2, <3>3, WritersAware
  <2>3. CASE draft' = [draft EXCEPT ![r] = NoDraft] /\ UNCHANGED audit
    BY <1>1, <1>9, <2>1, <2>3, DraftAware, IdleAware, NoDraftType
  <2>4. CASE Writes(r) /\ audit' = [audit EXCEPT ![v] = r]
    <3>1. RecordsTypeOK'
      BY <1>1, <1>3, <2>1, <2>4, WritesDraft DEF RecordsTypeOK
    <3>2. Marks(r)
      BY <1>3, <2>4, WritesMark
    <3> QED BY <1>1, <2>1, <3>1, <3>2, WritersAware DEF Marks
  <2> QED BY <2>1, <2>2, <2>3, <2>4
<1>10. CASE LocalStoreSealedPDF(r)
  BY <1>1, <1>3, <1>10, AsideAware DEF LocalStoreSealedPDF, RecordsTypeOK
<1>11. ASSUME NEW s \in Signer, LocalGetSigner(r, s) PROVE RecordsInv'
  <2>1. /\ [NoDraft EXCEPT !.of = "signer", !.about = s] \in Draft
        /\ Aware([NoDraft EXCEPT !.of = "signer", !.about = s])
    BY <1>1, NoDraftType DEF Draft, Aware
  <2> QED BY <1>1, <1>11, <2>1, DraftAware DEF LocalGetSigner
<1>12. ASSUME NEW t \in Token, NEW s \in Signer, LocalStoreSignerToken(r, t, s)
       PROVE  RecordsInv'
  BY <1>1, <1>3, <1>12, AsideAware DEF LocalStoreSignerToken, RecordsTypeOK
<1>13. ASSUME NEW v \in Event, LocalStatEvent(r, v) PROVE RecordsInv'
  <2>1. /\ [NoDraft EXCEPT !.of = "event", !.event = v] \in Draft
        /\ Aware([NoDraft EXCEPT !.of = "event", !.event = v])
    BY <1>1, NoDraftType DEF Draft, Aware
  <2> QED BY <1>1, <1>13, <2>1, DraftAware DEF LocalStatEvent
<1> QED BY <1>4, <1>5, <1>6, <1>7, <1>8, <1>9, <1>10, <1>11, <1>12, <1>13 DEF LocalSigning

LEMMA LocalNotesAware ==
  ASSUME RecordsInv, NEW r \in Request,
         LocalComments(r) \/ LocalReplies(r) \/ LocalSuggestions(r)
  PROVE  RecordsInv'
<1>1. PICK k \in Kind :
        LocalCreate(r, k) \/ LocalGet(r, k) \/ LocalUpdate(r, k) \/ LocalDelete(r, k)
  BY DEF LocalComments, LocalReplies, LocalUpdateReply, LocalSuggestions,
         LocalCreateSuggestion, Kind
<1>2. Local /\ Local' /\ ~ Pg /\ ~ Pg' /\ store' = store /\ pending' \subseteq pending
  BY <1>1 DEF Local, Pg, LocalCreate, LocalGet, LocalUpdate, LocalDelete, Make
<1>3. /\ RecordsTypeOK /\ draft \in [Request -> Draft]
      /\ \A q \in Request : draft[q] \in Draft /\ Aware(draft[q])
      /\ \A q \in Request : draft[q].kind \in Kind
      /\ note \in [Kind -> Revision \cup {Never, Gone} \cup Lost]
  BY DEF RecordsInv, RecordsTypeOK, Draft
<1>4. CASE LocalCreate(r, k)
  <2>1. /\ note' = [note EXCEPT ![k] = r]
        /\ UNCHANGED <<envelope, signer, audit, token, sealed, draft>>
    BY <1>4 DEF LocalCreate
  <2>2. RecordsTypeOK'
    BY <1>2, <1>3, <2>1 DEF RecordsTypeOK, Revision
  <2>3. ASSUME NEW q \in Request PROVE Aware(draft[q])'
    BY <1>2, <1>3, <2>1, RequestAssumption DEF Aware
  <2> QED BY <2>2, <2>3 DEF RecordsInv
<1>5. CASE LocalGet(r, k)
  <2>1. /\ [NoDraft EXCEPT !.of = "note", !.kind = k] \in Draft
        /\ Aware([NoDraft EXCEPT !.of = "note", !.kind = k])
    BY <1>2, <1>5, NoDraftType, RevisionPlain DEF LocalGet, Draft, Aware
  <2> QED BY <1>2, <1>5, <2>1, DraftAware DEF LocalGet
<1>6. CASE LocalUpdate(r, k)
  <2>1. /\ draft[r].of = "note" /\ draft[r].kind = k
        /\ UNCHANGED <<envelope, signer, audit, token, sealed>>
        /\ \/ Opens(r, "read") /\ note' = [note EXCEPT ![k] = Torn]
           \/ Writes(r) /\ \E left \in Written(r) : note' = [note EXCEPT ![k] = left]
    BY <1>6 DEF LocalUpdate
  <2>2. CASE Opens(r, "read") /\ note' = [note EXCEPT ![k] = Torn]
    <3>1. RecordsTypeOK'
      BY <1>2, <1>3, <2>1, <2>2, OpensDraft DEF RecordsTypeOK, Lost
    <3>2. /\ draft'[r] = [draft[r] EXCEPT !.stage = "writing"]
          /\ \A q \in Request \ {r} : draft'[q] = draft[q]
      BY <1>3, <2>2, OpensDraft
    <3>3. /\ draft'[r].of = draft[r].of /\ draft'[r].kind = draft[r].kind
          /\ draft'[r].deleted = draft[r].deleted
      BY <1>3, <3>2 DEF Draft
    <3>4. note'[k] # Gone /\ \A j \in Kind : note'[j] = Gone => note[j] = Gone
      BY <1>3, <2>2 DEF Torn, Gone
    <3> QED BY <1>2, <2>1, <3>1, <3>2, <3>3, <3>4, WritersAware
  <2>3. ASSUME Writes(r), NEW left \in Written(r), note' = [note EXCEPT ![k] = left]
        PROVE  RecordsInv'
    <3>1. left \in Revision \cup Lost /\ left # Gone
      BY WrittenType
    <3>2. RecordsTypeOK' /\ \A j \in Kind : note'[j] = Gone => note[j] = Gone
      BY <1>2, <1>3, <2>1, <2>3, <3>1, WritesDraft DEF RecordsTypeOK
    <3>3. Marks(r)
      BY <1>3, <2>3, WritesMark
    <3> QED BY <1>2, <2>1, <3>2, <3>3, WritersAware DEF Marks
  <2> QED BY <2>1, <2>2, <2>3
<1>7. CASE LocalDelete(r, k)
  <2>1. /\ note' = [note EXCEPT ![k] = Gone] /\ draft' = Orphaned("note", k, draft)
        /\ UNCHANGED <<envelope, signer, audit, token, sealed>>
    BY <1>7 DEF LocalDelete
  <2>2. RecordsTypeOK'
    BY <1>2, <1>3, <2>1, OrphanedType DEF RecordsTypeOK
  <2>3. ASSUME NEW q \in Request PROVE Aware(draft[q])'
    <3>1. draft[q] \in Draft /\ Aware(draft[q]) /\ draft[q].kind \in Kind
      BY <1>3
    <3>2. CASE draft[q].of = "note" /\ draft[q].kind = k
      <4>1. draft'[q] = NoDraft \/ (draft[q].stage # "writing"
                                    /\ draft'[q] = [draft[q] EXCEPT !.deleted = TRUE])
        BY <1>3, <2>1, <3>2, OrphanedType
      <4>2. CASE draft'[q] = NoDraft
        BY <4>2, NoDraftType DEF Aware
      <4> QED BY <1>2, <2>1, <3>1, <3>2, <4>1, <4>2 DEF Aware, Draft
    <3>3. CASE ~ (draft[q].of = "note" /\ draft[q].kind = k)
      <4>1. draft'[q] = draft[q]
        BY <2>1, <3>3 DEF Orphaned
      <4> QED BY <1>2, <1>3, <2>1, <3>1, <3>3, <4>1 DEF Aware
    <3> QED BY <3>2, <3>3
  <2> QED BY <2>2, <2>3 DEF RecordsInv
<1> QED BY <1>1, <1>4, <1>5, <1>6, <1>7

\* A write of the signers in Postgres, by a request that finishes.
LEMMA WriteAware ==
  ASSUME RecordsInv, NEW r \in Request, NEW written \in [Signer -> Revision \cup {Never} \cup Lost],
         signer' = written, envelope' \in {envelope, r}, envelope' = r => Present(envelope),
         draft' = Stale(written, [draft EXCEPT ![r] = NoDraft]),
         UNCHANGED <<store, pending, audit, token, sealed, note>>
  PROVE  RecordsInv'
<1> DEFINE d == [draft EXCEPT ![r] = NoDraft]
<1>1. RecordsTypeOK /\ d \in [Request -> Draft]
  BY NoDraftType DEF RecordsInv, RecordsTypeOK
<1>2. RecordsTypeOK'
  BY <1>1, StaleType DEF RecordsTypeOK, Revision
<1>3. envelope' = Gone <=> envelope = Gone
  <2>1. r # Gone
    BY RequestAssumption
  <2> QED BY <2>1 DEF Present
<1>4. ASSUME NEW q \in Request PROVE Aware(draft[q])'
  <2>1. d[q] \in Draft /\ Aware(d[q])
    BY <1>1, IdleAware DEF RecordsInv, RecordsTypeOK
  <2>2. /\ d[q].of \notin {"envelope", "signer"} => draft'[q] = d[q]
        /\ d[q].of \in {"envelope", "signer"} => draft'[q] =
             [d[q] EXCEPT !.stale = @ \cup {s \in Signer : written[s] # signer[s]}]
    <3>1. draft' = Stale(written, d)
      OBVIOUS
    <3> HIDE DEF d
    <3> QED BY <3>1 DEF Stale
  <2> HIDE DEF d
  <2>3. CASE d[q].of \notin {"envelope", "signer"}
    BY <2>1, <2>2, <2>3 DEF Aware, Local
  <2>4. CASE d[q].of \in {"envelope", "signer"}
    <3>1. /\ draft'[q].of = d[q].of /\ draft'[q].kind = d[q].kind
          /\ draft'[q].deleted = d[q].deleted /\ draft'[q].signers = d[q].signers
          /\ draft'[q].stage = d[q].stage
          /\ draft'[q].stale = d[q].stale \cup {s \in Signer : written[s] # signer[s]}
      BY <2>1, <2>2, <2>4 DEF Draft
    <3> QED BY <1>3, <2>1, <2>4, <3>1 DEF Aware, Pg, Local
  <2> QED BY <2>3, <2>4
<1> QED BY <1>2, <1>4 DEF RecordsInv

LEMMA PgSigningAware ==
  ASSUME RecordsInv, NEW r \in Request, PgSigning(r)
  PROVE  RecordsInv'
<1>1. Pg /\ store' = store /\ pending' \subseteq pending
  BY DEF Pg, PgSigning, PgCreateEnvelope, PgGetEnvelope, PgUpdateEnvelope, PgUpsertSigner,
         PgDeleteEnvelope, PgStoreSealedPDF, PgAppendAuditEvent, PgStoreSignerToken, Make
<1>2. /\ RecordsTypeOK /\ draft \in [Request -> Draft] /\ draft[r] \in Draft
      /\ \A q \in Request : Aware(draft[q])
      /\ signer \in [Signer -> Revision \cup {Never} \cup Lost]
  BY DEF RecordsInv, RecordsTypeOK
<1>3. CASE PgCreateEnvelope(r)
  <2>1. /\ envelope = Never /\ envelope' = r /\ envelope' # Gone
        /\ UNCHANGED <<store, signer, audit, token, sealed, note, draft>>
    BY <1>3, RequestAssumption DEF PgCreateEnvelope
  <2>2. RecordsTypeOK'
    BY <1>1, <1>2, <2>1 DEF RecordsTypeOK, Revision
  <2>3. ASSUME NEW q \in Request PROVE Aware(draft[q])'
    BY <1>2, <2>1 DEF Aware, Pg, Local, Never, Gone
  <2> QED BY <2>2, <2>3 DEF RecordsInv
<1>4. CASE PgGetEnvelope(r)
  <2>1. Present(envelope) /\ UNCHANGED <<store, envelope, signer, audit, token, sealed, note>>
    BY <1>4 DEF PgGetEnvelope
  <2>2. CASE draft' = [draft EXCEPT ![r] = [NoDraft EXCEPT !.of = "envelope", !.signers = signer]]
    <3>1. /\ [NoDraft EXCEPT !.of = "envelope", !.signers = signer] \in Draft
          /\ Aware([NoDraft EXCEPT !.of = "envelope", !.signers = signer])
      BY <1>2, <2>1, NoDraftType DEF Present, Draft, Aware
    <3> QED BY <1>1, <2>1, <2>2, <3>1, DraftAware
  <2>3. ASSUME NEW s \in Signer, draft' = [draft EXCEPT ![r] =
                 [NoDraft EXCEPT !.of = "signer", !.signers = signer, !.about = s]]
        PROVE  RecordsInv'
    <3>1. /\ [NoDraft EXCEPT !.of = "signer", !.signers = signer, !.about = s] \in Draft
          /\ Aware([NoDraft EXCEPT !.of = "signer", !.signers = signer, !.about = s])
      BY <1>2, NoDraftType DEF Draft, Aware
    <3> QED BY <1>1, <2>1, <2>3, <3>1, DraftAware
  <2> QED BY <1>4, <2>2, <2>3 DEF PgGetEnvelope
<1>5. CASE PgUpdateEnvelope(r)
  <2>1. draft[r].signers \in [Signer -> Revision \cup {Never} \cup Lost]
    BY <1>2 DEF Draft
  <2>2. /\ envelope' \in {envelope, r} /\ (envelope' = r => Present(envelope))
        /\ signer' \in {signer, draft[r].signers}
        /\ draft' = Stale(signer', [draft EXCEPT ![r] = NoDraft])
        /\ UNCHANGED <<store, pending, audit, token, sealed, note>>
    <3>1. envelope = r => Present(envelope)
      BY RequestAssumption DEF Present
    <3> QED BY <1>5, <3>1 DEF PgUpdateEnvelope
  <2> QED BY <1>2, <2>1, <2>2, WriteAware
<1>6. CASE PgUpsertSigner(r)
  <2>1. [draft[r].signers EXCEPT ![draft[r].about] = r] \in [Signer -> Revision \cup {Never} \cup Lost]
    BY <1>2 DEF Draft, Revision
  <2>2. /\ envelope' = envelope
        /\ signer' \in {signer, [draft[r].signers EXCEPT ![draft[r].about] = r]}
        /\ draft' = Stale(signer', [draft EXCEPT ![r] = NoDraft])
        /\ UNCHANGED <<store, pending, audit, token, sealed, note>>
    BY <1>6 DEF PgUpsertSigner
  <2>3. envelope' = r => Present(envelope)
    BY <2>2, RequestAssumption DEF Present
  <2> QED BY <1>2, <2>1, <2>2, <2>3, WriteAware
<1>7. CASE PgDeleteEnvelope(r)
  <2>1. /\ draft' = Orphaned("envelope", "comment", draft) /\ envelope' = Gone
        /\ signer' = [s \in Signer |-> Never] /\ audit' = [v \in Event |-> Never]
        /\ UNCHANGED <<store, token, sealed, note>>
    BY <1>7 DEF PgDeleteEnvelope, AuditCascade
  <2>2. RecordsTypeOK'
    BY <1>1, <1>2, <2>1, OrphanedType DEF RecordsTypeOK
  <2>3. ASSUME NEW q \in Request PROVE Aware(draft[q])'
    <3>1. draft[q] \in Draft /\ Aware(draft[q])
      BY <1>2
    <3>2. CASE draft[q].of = "envelope"
      <4>1. draft'[q] = NoDraft \/ (draft[q].stage # "writing"
                                    /\ draft'[q] = [draft[q] EXCEPT !.deleted = TRUE])
        BY <1>2, <2>1, <3>1, <3>2, OrphanedType DEF Aware
      <4>2. CASE draft'[q] = NoDraft
        BY <4>2, NoDraftType DEF Aware
      <4> QED BY <2>1, <3>1, <3>2, <4>1, <4>2 DEF Aware, Draft
    <3>3. CASE draft[q].of # "envelope"
      <4>1. draft'[q] = draft[q]
        BY <2>1, <3>3 DEF Orphaned
      <4> QED BY <2>1, <3>1, <3>3, <4>1 DEF Aware, Local
    <3> QED BY <3>2, <3>3
  <2> QED BY <2>2, <2>3 DEF RecordsInv
<1>8. CASE PgStoreSealedPDF(r)
  BY <1>1, <1>2, <1>8, AsideAware DEF PgStoreSealedPDF, RecordsTypeOK
<1>9. ASSUME NEW v \in Event, PgAppendAuditEvent(r, v) PROVE RecordsInv'
  BY <1>1, <1>2, <1>9, AsideAware DEF PgAppendAuditEvent, RecordsTypeOK
<1>10. ASSUME NEW t \in Token, NEW s \in Signer, PgStoreSignerToken(r, t, s)
       PROVE  RecordsInv'
  BY <1>1, <1>2, <1>10, AsideAware DEF PgStoreSignerToken, RecordsTypeOK
<1> QED BY <1>3, <1>4, <1>5, <1>6, <1>7, <1>8, <1>9, <1>10 DEF PgSigning

\* Postgres has no draft of a note: a deleted one is nobody's to bring back.
LEMMA PgNotesAware ==
  ASSUME RecordsInv, NEW r \in Request,
         PgComments(r) \/ PgReplies(r) \/ PgSuggestions(r)
  PROVE  RecordsInv'
<1>1. PICK k \in Kind : \/ PgUpsert(r, k) \/ PgDelete(r, k)
                        \/ k = "suggestion" /\ PgCreateSuggestion(r)
  BY DEF PgComments, PgReplies, PgSuggestions, PgUpdateSuggestion, Kind
<1>2. /\ Pg /\ ~ Local /\ pending' \subseteq pending
      /\ \E v \in {r, Gone} : note' = [note EXCEPT ![k] = v]
      /\ UNCHANGED <<store, envelope, signer, audit, token, sealed, draft>>
  BY <1>1 DEF PgUpsert, PgDelete, PgCreateSuggestion, Make, Pg, Local
<1>3. RecordsTypeOK /\ RecordsTypeOK'
  BY <1>2 DEF RecordsInv, RecordsTypeOK, Revision
<1>4. ASSUME NEW q \in Request PROVE Aware(draft[q])'
  BY <1>2 DEF RecordsInv, Aware, Pg, Local
<1> QED BY <1>3, <1>4 DEF RecordsInv

LEMMA InitRecords == RecordsInit => RecordsInv
<1> SUFFICES ASSUME RecordsInit PROVE RecordsInv
  OBVIOUS
<1>1. RecordsTypeOK
  BY NoDraftType DEF RecordsInit, RecordsTypeOK, Store, Revision
<1>2. \A r \in Request : Aware(draft[r])
  BY NoDraftType DEF RecordsInit, Aware
<1> QED BY <1>1, <1>2 DEF RecordsInv

LEMMA StepRecords == RecordsInv /\ [RecordsNext]_allVars => RecordsInv'
<1> SUFFICES ASSUME RecordsInv, [RecordsNext]_allVars PROVE RecordsInv'
  OBVIOUS
<1>1. CASE UNCHANGED allVars
  BY <1>1 DEF allVars, RecordsInv, RecordsTypeOK, Aware, Pg, Local
<1>2. CASE RecordsNext
  BY <1>2, LocalSigningAware, LocalNotesAware, PgSigningAware, PgNotesAware DEF RecordsNext
<1> QED BY <1>1, <1>2

LEMMA RecordsInvariance == RecordsSpec => []RecordsInv
BY InitRecords, StepRecords, PTL DEF RecordsSpec

\* The records keep their types, whatever overlaps.
THEOREM RecordsTyped == RecordsSpec => []RecordsTypeOK
<1>1. RecordsInv => RecordsTypeOK
  BY DEF RecordsInv
<1> QED BY <1>1, RecordsInvariance, PTL

\* A finished request has no draft, whoever marks drafts as stale in the same step.
LEMMA StaleFinishes ==
  ASSUME RecordsInv, NEW r \in Request, NEW written, draft[r].of # "nothing",
         draft' = Stale(written, [draft EXCEPT ![r] = NoDraft])
  PROVE  Finishes(r)
<1>1. draft'[r] = NoDraft
  BY NoDraftType DEF RecordsInv, RecordsTypeOK, Stale
<1> QED BY <1>1, NoDraftType DEF Finishes

\* Which steps store signers: an upsert, in Postgres also the other writes of the row.
LEMMA SignersWritten ==
  ASSUME RecordsInv, NEW r \in Request, LocalSigning(r) \/ PgSigning(r), signer' # signer
  PROVE  LocalUpsertSigner(r) \/ PgUpdateEnvelope(r) \/ PgUpsertSigner(r) \/ PgDeleteEnvelope(r)
BY DEF LocalSigning, LocalCreateEnvelope, LocalGetEnvelope, LocalUpdateEnvelope,
       LocalDeleteEnvelope, LocalAppendAuditEvent, LocalStoreSealedPDF,
       LocalGetSigner, LocalStoreSignerToken, LocalStatEvent,
       PgSigning, PgCreateEnvelope, PgGetEnvelope,
       PgStoreSealedPDF, PgAppendAuditEvent, PgStoreSignerToken

\* What is stored of a signer changes by its own upserts, is emptied by them before it is
\* written in LocalStorage, and is lost besides only to an update of the envelope that has
\* read the signers before (UpdateEnvelope and UpsertSigner of PostgresStorage), or with
\* the envelope.
THEOREM SignaturesSurvive == RecordsSpec => SignersKept
<1> DEFINE Kept(s) ==
      \/ \E r \in Request :
           /\ draft[r].of = "signer" /\ draft[r].about = s
           /\ \/ Finishes(r) /\ signer'[s] \in Written(r)
              \/ Local /\ Empties(r) /\ signer'[s] = Torn
      \/ Pg /\ envelope' = Gone
      \/ Pg /\ \E r \in Request : Finishes(r) /\ s \in draft[r].stale
<1>1. ASSUME RecordsInv, RecordsNext, NEW s \in Signer, signer'[s] # signer[s]
      PROVE  Kept(s)
  <2>1. /\ signer \in [Signer -> Revision \cup {Never} \cup Lost]
        /\ \A r \in Request : draft[r] \in Draft /\ Aware(draft[r])
    BY <1>1 DEF RecordsInv, RecordsTypeOK
  <2>2. PICK r \in Request : LocalSigning(r) \/ PgSigning(r)
    BY <1>1 DEF RecordsNext, LocalComments, LocalReplies, LocalSuggestions, LocalCreate,
         LocalGet, LocalUpdateReply, LocalCreateSuggestion, LocalUpdate, LocalDelete,
         PgComments, PgReplies, PgSuggestions, PgUpsert, PgDelete, PgCreateSuggestion,
         PgUpdateSuggestion
  <2>3. CASE LocalUpsertSigner(r)
    <3>1. /\ Local /\ draft[r].of = "signer" /\ draft \in [Request -> Draft]
          /\ \/ Opens(r, "read") /\ signer' = [signer EXCEPT ![draft[r].about] = Torn]
             \/ /\ Writes(r)
                /\ \E left \in Written(r) : signer' = [signer EXCEPT ![draft[r].about] = left]
      BY <1>1, <2>3 DEF LocalUpsertSigner, RecordsInv, RecordsTypeOK
    <3>2. s = draft[r].about
      BY <1>1, <2>1, <3>1
    <3>3. CASE Opens(r, "read") /\ signer' = [signer EXCEPT ![draft[r].about] = Torn]
      <4>1. draft'[r].stage = "writing" /\ draft[r].stage = "read"
        BY <3>1, <3>3, OpensDraft
      <4>2. Empties(r) /\ signer'[s] = Torn
        BY <2>1, <3>2, <3>3, <4>1 DEF Empties
      <4> QED BY <3>1, <3>2, <4>2
    <3>4. ASSUME Writes(r), NEW left \in Written(r),
                 signer' = [signer EXCEPT ![draft[r].about] = left]
          PROVE  Kept(s)
      <4>1. Finishes(r)
        BY <3>1, <3>4, WritesDraft, NoDraftType DEF Finishes
      <4>2. signer'[s] = left
        BY <2>1, <3>2, <3>4
      <4> QED BY <3>1, <3>2, <4>1, <4>2
    <3> QED BY <3>1, <3>3, <3>4
  <2>4. CASE PgUpdateEnvelope(r)
    <3>1. /\ Pg /\ Present(envelope) /\ signer' = draft[r].signers
          /\ draft[r].of = "envelope" /\ draft' = Stale(signer', [draft EXCEPT ![r] = NoDraft])
      BY <1>1, <2>4 DEF PgUpdateEnvelope
    <3>2. s \in draft[r].stale
      BY <1>1, <2>1, <3>1 DEF Aware, Present
    <3>3. Finishes(r)
      BY <1>1, <3>1, StaleFinishes
    <3> QED BY <3>1, <3>2, <3>3
  <2>5. CASE PgUpsertSigner(r)
    <3>1. /\ Pg /\ Present(envelope) /\ draft[r].of = "signer"
          /\ signer' = [draft[r].signers EXCEPT ![draft[r].about] = r]
          /\ draft' = Stale(signer', [draft EXCEPT ![r] = NoDraft])
      BY <1>1, <2>5 DEF PgUpsertSigner
    <3>2. Finishes(r)
      BY <1>1, <3>1, StaleFinishes
    <3>3. CASE s = draft[r].about
      <4>1. signer'[s] = r /\ r \in Written(r)
        BY <2>1, <3>1, <3>3 DEF Draft, Written
      <4> QED BY <3>1, <3>2, <3>3, <4>1
    <3>4. CASE s # draft[r].about
      <4>1. draft[r].signers[s] # signer[s]
        BY <1>1, <2>1, <3>1, <3>4 DEF Draft
      <4>2. s \in draft[r].stale
        BY <2>1, <3>1, <4>1 DEF Aware, Present
      <4> QED BY <3>1, <3>2, <4>2
    <3> QED BY <3>3, <3>4
  <2>6. CASE PgDeleteEnvelope(r)
    BY <2>6 DEF PgDeleteEnvelope
  <2> QED BY <1>1, <2>2, <2>3, <2>4, <2>5, <2>6, SignersWritten
<1>2. RecordsInv /\ [RecordsNext]_allVars
        => [\A s \in Signer : signer'[s] # signer[s] => Kept(s)]_allVars
  BY <1>1
<1> QED BY <1>2, RecordsInvariance, PTL DEF RecordsSpec, SignersKept

\* An event that is being written is torn, and has one writer: whoever comes later finds a
\* file that cannot be opened to write.
Appending(d) == d.of = "event" /\ d.stage = "writing"

AuditInv ==
  \A q \in Request :
    /\ draft[q].of = "event" => Local
    /\ Appending(draft[q]) =>
         /\ audit[draft[q].event] = Torn
         /\ \A p \in Request \ {q} :
              Appending(draft[p]) => draft[p].event # draft[q].event

\* Steps that neither write audit events nor draft them.
LEMMA AuditAside ==
  ASSUME AuditInv, store' = store, audit' = audit,
         \A q \in Request :
           \/ draft'[q].of # "event"
           \/ draft'[q].stage # "writing" /\ Local
           \/ /\ draft'[q].of = draft[q].of /\ draft'[q].stage = draft[q].stage
              /\ draft'[q].event = draft[q].event
  PROVE  AuditInv'
BY DEF AuditInv, Appending, Local

\* Drafts of events are as they were, whoever else drafts, writes or deletes.
LEMMA EventDraftsStay ==
  ASSUME RecordsInv, NEW r \in Request, NEW q \in Request,
         \/ draft' = draft
         \/ \E d \in Draft : d.of # "event" /\ draft' = [draft EXCEPT ![r] = d]
         \/ \E stage : Opens(r, stage) /\ draft[r].of # "event"
         \/ Writes(r)
         \/ \E of \in {"envelope", "note"} : \E k : draft' = Orphaned(of, k, draft)
         \/ \E written : draft' = Stale(written, [draft EXCEPT ![r] = NoDraft])
  PROVE  \/ draft'[q].of # "event"
         \/ /\ draft'[q].of = draft[q].of /\ draft'[q].stage = draft[q].stage
            /\ draft'[q].event = draft[q].event
<1>1. draft \in [Request -> Draft]
  BY DEF RecordsInv, RecordsTypeOK
<1>2. ASSUME NEW stage, Opens(r, stage), draft[r].of # "event"
      PROVE  draft'[q].of # "event" \/ draft'[q] = draft[q]
  <2>1. draft'[r].of = draft[r].of
    BY <1>1, <1>2, OpensDraft
  <2> QED BY <1>1, <1>2, <2>1, OpensDraft
<1>3. CASE Writes(r)
  BY <1>1, <1>3, WritesMark DEF Marks
<1>4. ASSUME NEW of \in {"envelope", "note"}, NEW k, draft' = Orphaned(of, k, draft)
      PROVE  draft'[q].of # "event" \/ draft'[q] = draft[q]
  BY <1>1, <1>4, OrphanedOf
<1>5. ASSUME NEW written, draft' = Stale(written, [draft EXCEPT ![r] = NoDraft])
      PROVE  draft'[q].of # "event" \/ draft'[q] = draft[q]
  <2>1. /\ [draft EXCEPT ![r] = NoDraft] \in [Request -> Draft]
        /\ \/ [draft EXCEPT ![r] = NoDraft][q] = draft[q]
           \/ [draft EXCEPT ![r] = NoDraft][q].of # "event"
    BY <1>1, NoDraftType
  <2> QED BY <1>5, <2>1, StaleOf
<1>6. ASSUME NEW d \in Draft, d.of # "event", draft' = [draft EXCEPT ![r] = d]
      PROVE  draft'[q].of # "event" \/ draft'[q] = draft[q]
  BY <1>1, <1>6
<1> QED BY <1>2, <1>3, <1>4, <1>5, <1>6

\* AppendAuditEvent of one request.
LEMMA AppendAudit ==
  ASSUME RecordsInv, AuditInv, NEW r \in Request, LocalAppendAuditEvent(r)
  PROVE  AuditInv' /\ \A v \in Event : audit[v] \in Request => audit'[v] = audit[v]
<1> DEFINE w == draft[r].event
<1>1. /\ draft \in [Request -> Draft] /\ w \in Event /\ store' = store /\ Local /\ Local'
      /\ audit \in [Event -> Request \cup {Never, Torn}] /\ draft[r].of = "event"
  BY DEF RecordsInv, RecordsTypeOK, Draft, LocalAppendAuditEvent, Local
<1>2. CASE audit[w] = Never /\ Opens(r, "read") /\ audit' = [audit EXCEPT ![w] = Torn]
  <2>1. /\ draft'[r].event = w /\ draft'[r].of = "event"
        /\ \A q \in Request \ {r} : draft'[q] = draft[q]
    BY <1>1, <1>2, OpensDraft
  <2>2. \A q \in Request \ {r} : Appending(draft[q]) => draft[q].event # w
    BY <1>2 DEF AuditInv, Never, Torn
  <2>3. ASSUME NEW q \in Request, Appending(draft'[q])
        PROVE  /\ audit'[draft'[q].event] = Torn
               /\ \A p \in Request \ {q} :
                    Appending(draft'[p]) => draft'[p].event # draft'[q].event
    <3>1. CASE q = r
      BY <1>1, <1>2, <2>1, <2>2, <3>1
    <3>2. CASE q # r
      <4>1. draft'[q] = draft[q] /\ draft[q].event # w /\ draft[q].event \in Event
        BY <1>1, <2>1, <2>2, <2>3, <3>2 DEF Draft
      <4>2. audit[draft[q].event] = Torn
        BY <2>3, <3>2, <4>1 DEF AuditInv
      <4>3. \A p \in Request \ {q} : Appending(draft[p]) => draft[p].event # draft[q].event
        BY <2>3, <3>2, <4>1 DEF AuditInv
      <4> QED BY <1>1, <1>2, <2>1, <4>1, <4>2, <4>3
    <3> QED BY <3>1, <3>2
  <2>4. AuditInv'
    BY <1>1, <2>3 DEF AuditInv, Appending
  <2>5. Never \notin Request
    BY RequestAssumption
  <2> QED BY <1>1, <1>2, <2>4, <2>5
<1>3. CASE draft' = [draft EXCEPT ![r] = NoDraft] /\ audit' = audit
  <2>1. \A q \in Request : draft'[q].of # "event" \/ draft'[q] = draft[q]
    BY <1>1, <1>3, NoDraftType
  <2> QED BY <1>1, <1>3, <2>1, AuditAside
<1>4. CASE Writes(r) /\ audit' = [audit EXCEPT ![w] = r]
  <2>1. Appending(draft[r]) /\ audit[w] = Torn
    BY <1>1, <1>4, WritesDraft DEF Appending, AuditInv
  <2>2. \A q \in Request \ {r} : Appending(draft[q]) => draft[q].event # w
    BY <2>1 DEF AuditInv
  <2>3. Marks(r) /\ draft'[r].of = "nothing"
    BY <1>1, <1>4, WritesMark, WritesDraft, NoDraftType
  <2>4. ASSUME NEW q \in Request, Appending(draft'[q])
        PROVE  /\ q # r /\ Appending(draft[q]) /\ draft'[q].event = draft[q].event
    BY <2>3, <2>4 DEF Marks, Appending
  <2>5. ASSUME NEW q \in Request, Appending(draft'[q])
        PROVE  /\ audit'[draft'[q].event] = Torn
               /\ \A p \in Request \ {q} :
                    Appending(draft'[p]) => draft'[p].event # draft'[q].event
    <3>1. q # r /\ Appending(draft[q]) /\ draft'[q].event = draft[q].event
      BY <2>4, <2>5
    <3>2. draft[q].event \in Event /\ draft[q].event # w /\ audit[draft[q].event] = Torn
      BY <1>1, <2>2, <3>1 DEF AuditInv, Draft
    <3>3. \A p \in Request \ {q} : Appending(draft[p]) => draft[p].event # draft[q].event
      BY <3>1 DEF AuditInv
    <3> QED BY <1>1, <1>4, <2>4, <3>1, <3>2, <3>3
  <2>6. AuditInv'
    BY <1>1, <2>5 DEF AuditInv, Appending
  <2>7. Torn \notin Request
    BY RequestAssumption
  <2> QED BY <1>1, <1>4, <2>1, <2>6, <2>7
<1> QED BY <1>2, <1>3, <1>4 DEF LocalAppendAuditEvent

\* What a step does to audit events and to who writes them.
LEMMA AuditStep ==
  ASSUME RecordsInv, AuditInv, RecordsNext
  PROVE  /\ AuditInv'
         /\ \A v \in Event : audit[v] \in Request =>
              audit'[v] = audit[v] \/ (Pg /\ envelope # Gone /\ envelope' = Gone)
<1> DEFINE Goal == /\ AuditInv'
                   /\ \A v \in Event : audit[v] \in Request =>
                        audit'[v] = audit[v] \/ (Pg /\ envelope # Gone /\ envelope' = Gone)
<1>1. PICK r \in Request :
        \/ LocalSigning(r) \/ LocalComments(r) \/ LocalReplies(r) \/ LocalSuggestions(r)
        \/ PgSigning(r) \/ PgComments(r) \/ PgReplies(r) \/ PgSuggestions(r)
  BY DEF RecordsNext
<1>2. ASSUME store' = store, audit' = audit,
             \/ draft' = draft
             \/ \E d \in Draft : d.of # "event" /\ draft' = [draft EXCEPT ![r] = d]
             \/ \E stage : Opens(r, stage) /\ draft[r].of # "event"
             \/ Writes(r)
             \/ \E of \in {"envelope", "note"} : \E k : draft' = Orphaned(of, k, draft)
             \/ \E written : draft' = Stale(written, [draft EXCEPT ![r] = NoDraft])
      PROVE  Goal
  <2>1. \A q \in Request :
          \/ draft'[q].of # "event"
          \/ /\ draft'[q].of = draft[q].of /\ draft'[q].stage = draft[q].stage
             /\ draft'[q].event = draft[q].event
    BY <1>2, EventDraftsStay
  <2> QED BY <1>2, <2>1, AuditAside
<1>3. draft \in [Request -> Draft] /\ audit \in [Event -> Request \cup {Never, Torn}]
  BY DEF RecordsInv, RecordsTypeOK
<1>4. CASE LocalSigning(r)
  <2>1. ASSUME NEW v \in Event, LocalStatEvent(r, v) PROVE Goal
    <3>1. /\ Local /\ store' = store /\ audit' = audit
          /\ draft' = [draft EXCEPT ![r] = [NoDraft EXCEPT !.of = "event", !.event = v]]
      BY <2>1 DEF LocalStatEvent
    <3>2. draft'[r].stage # "writing" /\ \A q \in Request \ {r} : draft'[q] = draft[q]
      BY <1>3, <3>1, NoDraftType DEF Draft
    <3> QED BY <3>1, <3>2, AuditAside
  <2>2. ASSUME NEW s \in Signer, LocalGetSigner(r, s) PROVE Goal
    <3>1. /\ [NoDraft EXCEPT !.of = "signer", !.about = s] \in Draft
          /\ [NoDraft EXCEPT !.of = "signer", !.about = s].of # "event"
      BY NoDraftType DEF Draft
    <3> QED BY <1>2, <2>2, <3>1 DEF LocalGetSigner
  <2>3. CASE LocalGetEnvelope(r)
    <3>1. /\ [NoDraft EXCEPT !.of = "envelope"] \in Draft
          /\ [NoDraft EXCEPT !.of = "envelope"].of # "event"
      BY NoDraftType DEF Draft
    <3> QED BY <1>2, <2>3, <3>1 DEF LocalGetEnvelope
  <2>4. CASE LocalUpdateEnvelope(r)
    <3>1. /\ [draft[r] EXCEPT !.stage = "found"] \in Draft /\ draft[r].of = "envelope"
          /\ [draft[r] EXCEPT !.stage = "found"].of = draft[r].of
      BY <1>3, <2>4 DEF LocalUpdateEnvelope, Draft
    <3>2. /\ store' = store /\ audit' = audit
          /\ \/ draft' = [draft EXCEPT ![r].stage = "found"] \/ Opens(r, "found") \/ Writes(r)
      BY <2>4 DEF LocalUpdateEnvelope
    <3> QED BY <1>2, <3>1, <3>2
  <2>5. CASE LocalUpsertSigner(r)
    BY <1>2, <2>5 DEF LocalUpsertSigner
  <2>6. CASE LocalDeleteEnvelope(r)
    BY <1>2, <2>6 DEF LocalDeleteEnvelope
  <2>7. CASE LocalAppendAuditEvent(r)
    BY <2>7, AppendAudit
  <2>8. CASE LocalCreateEnvelope(r) \/ LocalStoreSealedPDF(r)
             \/ \E t \in Token, s \in Signer : LocalStoreSignerToken(r, t, s)
    BY <1>2, <2>8 DEF LocalCreateEnvelope, LocalStoreSealedPDF, LocalStoreSignerToken
  <2> QED BY <1>4, <2>1, <2>2, <2>3, <2>4, <2>5, <2>6, <2>7, <2>8 DEF LocalSigning
<1>5. CASE LocalComments(r) \/ LocalReplies(r) \/ LocalSuggestions(r)
  <2>1. PICK k \in Kind :
          LocalCreate(r, k) \/ LocalGet(r, k) \/ LocalUpdate(r, k) \/ LocalDelete(r, k)
    BY <1>5 DEF LocalComments, LocalReplies, LocalUpdateReply, LocalSuggestions,
         LocalCreateSuggestion, Kind
  <2>2. /\ [NoDraft EXCEPT !.of = "note", !.kind = k] \in Draft
        /\ [NoDraft EXCEPT !.of = "note", !.kind = k].of # "event"
    BY NoDraftType DEF Draft
  <2>3. CASE LocalGet(r, k)
    BY <1>2, <2>2, <2>3 DEF LocalGet
  <2>4. CASE LocalUpdate(r, k)
    BY <1>2, <2>4 DEF LocalUpdate
  <2>5. CASE LocalCreate(r, k) \/ LocalDelete(r, k)
    BY <1>2, <2>5 DEF LocalCreate, LocalDelete
  <2> QED BY <2>1, <2>3, <2>4, <2>5
<1>6. CASE PgSigning(r)
  <2>1. CASE PgDeleteEnvelope(r)
    <3>1. /\ Pg /\ ~ Local /\ envelope # Gone /\ envelope' = Gone /\ store' = store
          /\ draft' = Orphaned("envelope", "comment", draft)
      BY <2>1 DEF PgDeleteEnvelope, Present, Pg, Local
    <3>2. \A q \in Request : draft'[q].of # "event"
      BY <3>1, EventDraftsStay DEF AuditInv
    <3> QED BY <3>1, <3>2 DEF AuditInv, Appending
  <2>2. ASSUME NEW v \in Event, PgAppendAuditEvent(r, v) PROVE Goal
    <3>1. /\ Pg /\ ~ Local /\ store' = store /\ draft' = draft /\ audit[v] = Never
          /\ audit' = [audit EXCEPT ![v] = r]
      BY <2>2 DEF PgAppendAuditEvent, Pg, Local
    <3>2. Never \notin Request
      BY RequestAssumption
    <3> QED BY <1>3, <3>1, <3>2 DEF AuditInv, Appending
  <2>3. CASE PgGetEnvelope(r)
    <3>1. /\ [NoDraft EXCEPT !.of = "envelope", !.signers = signer] \in Draft
          /\ [NoDraft EXCEPT !.of = "envelope", !.signers = signer].of # "event"
      BY NoDraftType DEF Draft, RecordsInv, RecordsTypeOK
    <3>2. ASSUME NEW s \in Signer
          PROVE  /\ [NoDraft EXCEPT !.of = "signer", !.signers = signer, !.about = s] \in Draft
                 /\ [NoDraft EXCEPT !.of = "signer", !.signers = signer, !.about = s].of # "event"
      BY NoDraftType DEF Draft, RecordsInv, RecordsTypeOK
    <3>3. store' = store /\ audit' = audit
      BY <2>3 DEF PgGetEnvelope
    <3> QED BY <1>2, <2>3, <3>1, <3>2, <3>3 DEF PgGetEnvelope
  <2>4. CASE PgUpdateEnvelope(r)
    BY <1>2, <2>4 DEF PgUpdateEnvelope
  <2>5. CASE PgUpsertSigner(r)
    BY <1>2, <2>5 DEF PgUpsertSigner
  <2>6. CASE PgCreateEnvelope(r) \/ PgStoreSealedPDF(r)
             \/ \E t \in Token, s \in Signer : PgStoreSignerToken(r, t, s)
    BY <1>2, <2>6 DEF PgCreateEnvelope, PgStoreSealedPDF, PgStoreSignerToken
  <2> QED BY <1>6, <2>1, <2>2, <2>3, <2>4, <2>5, <2>6 DEF PgSigning
<1>7. CASE PgComments(r) \/ PgReplies(r) \/ PgSuggestions(r)
  BY <1>2, <1>7 DEF PgComments, PgReplies, PgSuggestions, PgUpsert, PgDelete,
                    PgCreateSuggestion, PgUpdateSuggestion
<1> QED BY <1>1, <1>4, <1>5, <1>6, <1>7

\* An audit event that is appended stays as it is until its envelope is deleted in
\* Postgres, whatever other appends of its id overlap (AppendAuditEvent; ON DELETE CASCADE).
THEOREM AuditIsAppended == RecordsSpec => AuditOnlyGrows
<1> DEFINE Grows == \A v \in Event : audit[v] \in Request =>
                      audit'[v] = audit[v] \/ (Pg /\ envelope # Gone /\ envelope' = Gone)
<1>1. RecordsInit => AuditInv
  BY NoDraftType DEF RecordsInit, AuditInv, Appending
<1>2. RecordsInv /\ AuditInv /\ [RecordsNext]_allVars => AuditInv'
  <2>1. AuditInv /\ UNCHANGED allVars => AuditInv'
    BY DEF AuditInv, Appending, allVars, Local
  <2> QED BY <2>1, AuditStep
<1>3. RecordsInv /\ AuditInv /\ [RecordsNext]_allVars => [Grows]_allVars
  BY AuditStep
<1> QED BY <1>1, <1>2, <1>3, RecordsInvariance, PTL DEF RecordsSpec, AuditOnlyGrows

\* What is deleted comes back only from an update that had read it before, and in
\* Postgres only a comment does: its update inserts the row again.
THEOREM DeletedStaysDeleted == RecordsSpec => DeletedComesBackOnlyByOverlap
<1> DEFINE Late(of, k) == \E r \in Request : /\ Empties(r) /\ draft[r].of = of
                                             /\ draft[r].kind = k /\ draft[r].deleted
           Envelope == envelope = Gone /\ envelope' # Gone => Local /\ Late("envelope", "comment")
           Note(k) == note[k] = Gone /\ note'[k] # Gone =>
                        (Local /\ Late("note", k)) \/ (Pg /\ k = "comment")
<1>1. ASSUME RecordsInv, RecordsNext, envelope = Gone, envelope' # Gone
      PROVE  Local /\ Late("envelope", "comment")
  <2>1. PICK r \in Request : LocalUpdateEnvelope(r)
    BY <1>1 DEF RecordsNext, LocalComments, LocalReplies, LocalSuggestions, LocalCreate,
         LocalGet, LocalUpdateReply, LocalCreateSuggestion, LocalUpdate, LocalDelete,
         PgComments, PgReplies, PgSuggestions, PgUpsert, PgDelete, PgCreateSuggestion,
         PgUpdateSuggestion, LocalSigning, LocalCreateEnvelope, LocalGetEnvelope,
         LocalDeleteEnvelope, LocalUpsertSigner, LocalAppendAuditEvent, LocalStoreSealedPDF,
         LocalGetSigner, LocalStoreSignerToken, LocalStatEvent, PgSigning, PgCreateEnvelope,
         PgGetEnvelope, PgUpdateEnvelope, PgUpsertSigner, PgDeleteEnvelope, PgStoreSealedPDF,
         PgStoreSignerToken, PgAppendAuditEvent, Present, Never, Gone
  <2>2. Local /\ draft[r].of = "envelope" /\ (Opens(r, "found") \/ Writes(r))
    BY <1>1, <2>1 DEF LocalUpdateEnvelope
  <2>3. draft[r].kind = "comment" /\ draft[r].deleted /\ draft[r].stage # "writing"
    BY <1>1, <2>2 DEF RecordsInv, Aware
  <2>4. Empties(r)
    <3>1. draft \in [Request -> Draft]
      BY <1>1 DEF RecordsInv, RecordsTypeOK
    <3>2. Opens(r, "found")
      BY <2>2, <2>3 DEF Writes
    <3>3. draft'[r].stage = "writing"
      BY <3>1, <3>2, OpensDraft
    <3> QED BY <2>3, <3>3 DEF Empties
  <2> QED BY <2>2, <2>3, <2>4
<1>2. ASSUME RecordsInv, RecordsNext, NEW k \in {"comment", "suggestion"},
             note[k] = Gone, note'[k] # Gone
      PROVE  (Local /\ Late("note", k)) \/ (Pg /\ k = "comment")
  <2>1. note \in [Kind -> Revision \cup {Never, Gone} \cup Lost] /\ k \in Kind
    BY <1>2 DEF RecordsInv, RecordsTypeOK, Kind
  <2>2. PICK r \in Request :
          \/ LocalComments(r) \/ LocalReplies(r) \/ LocalSuggestions(r)
          \/ PgComments(r) \/ PgReplies(r) \/ PgSuggestions(r)
    BY <1>2 DEF RecordsNext, LocalSigning, LocalCreateEnvelope, LocalGetEnvelope,
         LocalUpdateEnvelope, LocalDeleteEnvelope, LocalUpsertSigner, LocalAppendAuditEvent,
         LocalStoreSealedPDF, LocalGetSigner, LocalStoreSignerToken, LocalStatEvent,
         PgSigning, PgCreateEnvelope, PgGetEnvelope, PgUpdateEnvelope, PgUpsertSigner,
         PgDeleteEnvelope, PgStoreSealedPDF, PgStoreSignerToken, PgAppendAuditEvent
  <2>3. CASE LocalComments(r) \/ LocalReplies(r) \/ LocalSuggestions(r)
    <3>1. PICK j \in Kind :
            LocalCreate(r, j) \/ LocalGet(r, j) \/ LocalUpdate(r, j) \/ LocalDelete(r, j)
      BY <2>3 DEF LocalComments, LocalReplies, LocalUpdateReply, LocalSuggestions,
           LocalCreateSuggestion, Kind
    <3>2. k = j /\ LocalUpdate(r, k)
      BY <1>2, <2>1, <3>1 DEF LocalCreate, LocalGet, LocalUpdate, LocalDelete, Never, Gone
    <3>3. /\ Local /\ draft[r].of = "note" /\ draft[r].kind = k
          /\ Opens(r, "read") \/ Writes(r)
      BY <3>2 DEF LocalUpdate
    <3>4. draft[r].deleted /\ draft[r].stage # "writing"
      BY <1>2, <3>3 DEF RecordsInv, Aware
    <3>5. Empties(r)
      <4>1. draft \in [Request -> Draft]
        BY <1>2 DEF RecordsInv, RecordsTypeOK
      <4>2. Opens(r, "read")
        BY <3>3, <3>4 DEF Writes
      <4>3. draft'[r].stage = "writing"
        BY <4>1, <4>2, OpensDraft
      <4> QED BY <3>4, <4>3 DEF Empties
    <3> QED BY <3>3, <3>4, <3>5
  <2>4. CASE PgComments(r) \/ PgReplies(r) \/ PgSuggestions(r)
    BY <1>2, <2>1, <2>4
       DEF PgComments, PgReplies, PgSuggestions, PgUpsert, PgDelete, PgCreateSuggestion,
           PgUpdateSuggestion, Present, Never, Gone, Kind
  <2> QED BY <2>2, <2>3, <2>4
<1>3. RecordsInv /\ [RecordsNext]_allVars
        => [Envelope /\ \A k \in {"comment", "suggestion"} : Note(k)]_allVars
  BY <1>1, <1>2
<1> QED BY <1>3, RecordsInvariance, PTL DEF RecordsSpec, DeletedComesBackOnlyByOverlap

----------------------------------------------------------------------------
\* The history of one file, as the set vs of its versions and the set ids of all ids that
\* were ever given out.

Later(ids, i) == {j \in ids : j > i}
Old(ids, i) == Cardinality(Later(ids, i)) >= VersionCap

\* Versions have ids of their own, and only what is old is missing.
History(vs, ids) ==
  /\ IsFiniteSet(ids)
  /\ \A v \in vs : v.id \in ids
  /\ \A v, w \in vs : v.id = w.id => v = w
  /\ \A i \in ids : Old(ids, i) \/ \E v \in vs : v.id = i

LEMMA LaterFinite ==
  ASSUME NEW ids \in SUBSET Nat, IsFiniteSet(ids), NEW i \in Nat
  PROVE  IsFiniteSet(Later(ids, i)) /\ Cardinality(Later(ids, i)) \in Nat
<1>1. Later(ids, i) \in SUBSET ids
  BY DEF Later
<1> QED BY <1>1, FS_Subset, FS_CardinalityType

\* What is old stays old when ids are given out, and what is before it is old as well.
LEMMA OldGrows ==
  ASSUME NEW few \in SUBSET Nat, NEW ids \in SUBSET Nat, few \subseteq ids, IsFiniteSet(ids),
         NEW i \in Nat, NEW k \in Nat, k <= i, Old(few, i)
  PROVE  Old(ids, k)
<1>1. Later(few, i) \in SUBSET Later(ids, k)
  <2>1. \A j \in few : j \in Nat /\ j \in ids /\ (j > i => j > k)
    OBVIOUS
  <2> QED BY <2>1 DEF Later
<1>2. IsFiniteSet(Later(ids, k)) /\ Cardinality(Later(ids, k)) \in Nat
  BY LaterFinite
<1>3. IsFiniteSet(Later(few, i)) /\ Cardinality(Later(few, i)) <= Cardinality(Later(ids, k))
  BY <1>1, <1>2, FS_Subset
<1>4. Cardinality(Later(few, i)) \in Nat
  BY <1>3, FS_CardinalityType
<1> QED BY <1>2, <1>3, <1>4, VersionCapAssumption DEF Old

\* There are never more versions than ids.
LEMMA CountVersions ==
  ASSUME NEW vs \in SUBSET Version, NEW ids \in SUBSET Nat, IsFiniteSet(ids),
         \A v \in vs : v.id \in ids, \A v, w \in vs : v.id = w.id => v = w, NEW i \in Nat
  PROVE  LET new == {v \in vs : v.id > i}
         IN  IsFiniteSet(new) /\ Cardinality(new) <= Cardinality(Later(ids, i))
<1> DEFINE new == {v \in vs : v.id > i}
           f == [v \in new |-> v.id]
<1>1. f \in Injection(new, Later(ids, i))
  BY DEF Injection, IsInjective, Later
<1>2. IsFiniteSet(Later(ids, i))
  BY LaterFinite
<1> HIDE DEF new, f
<1>3. IsFiniteSet(new) /\ Cardinality(new) <= Cardinality(Later(ids, i))
  BY <1>1, <1>2, FS_Injection
<1> QED BY <1>3 DEF new

\* What a listing names beyond the cap is old.
LEMMA BeyondOld ==
  ASSUME NEW f \in File, versions[f] \in SUBSET Version, created[f] \in SUBSET Nat,
         History(versions[f], created[f]), NEW i \in Beyond(f)
  PROVE  Old(created[f], i)
<1>1. PICK w \in versions[f] : i = w.id /\ Cardinality(Newer(f, w.id)) >= VersionCap
  BY DEF Beyond, Readable
<1>2. i \in Nat
  BY <1>1 DEF Version, Stamp
<1>3. IsFiniteSet(Newer(f, i)) /\ Cardinality(Newer(f, i)) <= Cardinality(Later(created[f], i))
  <2>1. Readable(f) \in SUBSET Version /\ Readable(f) \subseteq versions[f]
    BY DEF Readable
  <2>2. /\ \A v \in Readable(f) : v.id \in created[f]
        /\ \A v, u \in Readable(f) : v.id = u.id => v = u
        /\ IsFiniteSet(created[f])
    BY <2>1 DEF History
  <2> HIDE DEF Readable
  <2> QED BY <1>2, <2>1, <2>2, CountVersions DEF Newer
<1>4. Cardinality(Newer(f, i)) \in Nat /\ Cardinality(Later(created[f], i)) \in Nat
  BY <1>2, <1>3, FS_CardinalityType, LaterFinite DEF History
<1> QED BY <1>1, <1>3, <1>4, VersionCapAssumption DEF Old

LEMMA HistoryNone == History({}, {})
BY FS_EmptySet DEF History

\* A version is stored, under a new id or under its old one.
LEMMA HistoryPut ==
  ASSUME NEW vs \in SUBSET Version, NEW ids \in SUBSET Nat, History(vs, ids), NEW v \in Version
  PROVE  History({w \in vs : w.id # v.id} \cup {v}, ids \cup {v.id})
<1> DEFINE ws == {w \in vs : w.id # v.id} \cup {v}
           all == ids \cup {v.id}
<1>1. IsFiniteSet(all) /\ all \in SUBSET Nat /\ ids \subseteq all
  BY FS_AddElement DEF History, Version, Stamp
<1>2. \A i \in ids : Old(ids, i) => Old(all, i)
  BY <1>1, OldGrows
<1>3. ASSUME NEW i \in all PROVE Old(all, i) \/ \E w \in ws : w.id = i
  BY <1>2 DEF History
<1>4. \A w \in ws : w.id \in all
  BY DEF History
<1>5. \A w, u \in ws : w.id = u.id => w = u
  BY DEF History
<1> QED BY <1>1, <1>3, <1>4, <1>5 DEF History

\* Versions that are old are removed.
LEMMA HistoryPrune ==
  ASSUME NEW vs, NEW ids, History(vs, ids), NEW gone, \A i \in gone : Old(ids, i)
  PROVE  History({v \in vs : v.id \notin gone}, ids)
BY DEF History

\* What is old among the ids has as many versions after it: if one of those is missing,
\* the last of the missing ones has them.
LEMMA OldHasVersions ==
  ASSUME NEW vs \in SUBSET Version, NEW ids \in SUBSET Nat, History(vs, ids),
         NEW i \in Nat, Old(ids, i)
  PROVE  Cardinality({v \in vs : v.id > i}) >= VersionCap
<1> DEFINE after(j) == Cardinality(Later(ids, j))
           new(j) == {v \in vs : v.id > j}
           aged == {j \in Nat : j >= i /\ (j = i \/ j \in ids) /\ Old(ids, j)}
           counts == {after(j) : j \in aged}
<1>1. IsFiniteSet(ids)
  BY DEF History
<1>2. \A j \in Nat : IsFiniteSet(Later(ids, j)) /\ after(j) \in Nat
  BY <1>1, LaterFinite
<1>3. i \in aged /\ counts \subseteq Nat /\ counts # {}
  BY <1>2
<1>4. PICK n \in counts : \A m \in counts : ~ <<m, n>> \in OpToRel(<, Nat)
  <2> HIDE DEF counts
  <2> QED BY <1>3, WFMin, NatLessThanWellFounded
<1>5. \A m \in counts : ~ m < n
  BY <1>3, <1>4 DEF OpToRel
<1>6. PICK j \in aged : n = after(j)
  BY DEF counts
<1>7. ASSUME NEW k \in ids, k > j PROVE ~ Old(ids, k)
  <2> SUFFICES ASSUME Old(ids, k) PROVE FALSE
    OBVIOUS
  <2>1. k \in aged
    BY <1>7
  <2>2. Later(ids, k) \in SUBSET Later(ids, j) /\ k \in Later(ids, j) /\ k \notin Later(ids, k)
    <3>1. \A m \in ids : m \in Nat /\ (m > k => m > j)
      BY <1>7
    <3>2. k \in Nat /\ ~ k > k
      OBVIOUS
    <3> QED BY <1>7, <3>1, <3>2 DEF Later
  <2>3. after(k) < after(j)
    BY <1>2, <2>1, <2>2, FS_Subset
  <2> QED BY <1>5, <1>6, <2>1, <2>3
<1>8. \A k \in Later(ids, j) : \E v \in new(j) : v.id = k
  BY <1>7 DEF History, Later
<1>9. IsFiniteSet(new(j)) /\ IsFiniteSet(new(i))
  BY <1>1, CountVersions DEF History
<1>10. Cardinality(new(j)) >= after(j)
  <2> DEFINE f == [v \in new(j) |-> v.id]
  <2>1. f \in Surjection(new(j), Later(ids, j))
    BY <1>8 DEF Surjection, History, Later
  <2> HIDE DEF f
  <2>2. Cardinality(Later(ids, j)) <= Cardinality(new(j))
    BY <1>9, <2>1, FS_Surjection
  <2>3. Cardinality(new(j)) \in Nat
    BY <1>9, FS_CardinalityType
  <2> QED BY <1>2, <2>2, <2>3
<1>11. after(j) >= VersionCap
  BY DEF Old
<1>12. Cardinality(new(i)) >= Cardinality(new(j))
  <2>1. new(j) \in SUBSET new(i)
    BY DEF Version, Stamp
  <2>2. Cardinality(new(j)) <= Cardinality(new(i))
    BY <1>9, <2>1, FS_Subset
  <2> QED BY <1>9, <2>2, FS_CardinalityType
<1>13. Cardinality(new(i)) \in Nat /\ Cardinality(new(j)) \in Nat /\ after(j) \in Nat
  BY <1>2, <1>9, FS_CardinalityType
<1> HIDE DEF new, after
<1>14. Cardinality(new(i)) >= VersionCap
  BY <1>10, <1>11, <1>12, <1>13, VersionCapAssumption
<1> QED BY <1>14 DEF new

----------------------------------------------------------------------------
\* DocumentStorage: history.

\* What is listed for removal is old, and a version is labelled under an id given out.
Listing(e) ==
  /\ e.stage = "listed" => Local /\ \A i \in e.tail : Old(created[e.file], i)
  /\ e.stage \in {"label", "labelling"} => Local /\ e.id \in created[e.file]

Histories == \A f \in File : History(versions[f], created[f])

HistoryInv == TypeInv /\ Histories /\ \A r \in Request : Listing(edit[r])

\* An update under way is as it was, but for a write that has come between.
Same(q) ==
  /\ edit'[q].stage = edit[q].stage /\ edit'[q].file = edit[q].file
  /\ edit'[q].read = edit[q].read /\ edit'[q].at = edit[q].at /\ edit'[q].id = edit[q].id
  /\ edit'[q].tail = edit[q].tail /\ edit'[q].snapped = edit[q].snapped
  /\ edit[q].raced => edit'[q].raced

\* What a step of r leaves as it was, or has come to nothing.
Bystanders(r) == \A q \in Request \ {r} : Same(q) \/ edit'[q].stage = "idle"

LEMMA RacedSame ==
  ASSUME TypeOK, NEW f, NEW r, NEW stages, NEW q \in Request
  PROVE  LET e == Raced(f, r, stages)[q]
         IN  /\ e.stage = edit[q].stage /\ e.file = edit[q].file /\ e.read = edit[q].read
             /\ e.at = edit[q].at /\ e.id = edit[q].id /\ e.tail = edit[q].tail
             /\ e.snapped = edit[q].snapped /\ (edit[q].raced => e.raced)
             /\ q # r /\ Busy(q, f, stages) => e.raced
<1>1. edit[q] \in EditState
  BY DEF TypeOK
<1>2. Raced(f, r, stages)[q] \in {edit[q], [edit[q] EXCEPT !.raced = TRUE]}
  BY DEF Raced
<1>3. q # r /\ Busy(q, f, stages) => Raced(f, r, stages)[q] = [edit[q] EXCEPT !.raced = TRUE]
  BY DEF Raced
<1> QED BY <1>1, <1>2, <1>3 DEF EditState

\* Every step of the storage leaves what other requests are doing, but for the marks of
\* Raced and for a write whose file is deleted or removed.
LEMMA LeavesOthers ==
  ASSUME TypeOK, NEW r \in Request, LocalDocument(r) \/ PgDocument(r)
  PROVE  Bystanders(r)
<1>1. edit \in [Request -> EditState]
  BY DEF TypeOK
<1>2. ASSUME NEW f, NEW stages, NEW q \in Request \ {r}, edit'[q] = Raced(f, r, stages)[q]
      PROVE  Same(q)
  BY <1>2, RacedSame DEF Same
<1>3. ASSUME NEW q \in Request \ {r}, edit'[q] = edit[q] PROVE Same(q)
  BY <1>3 DEF Same
<1>4. CASE LocalTruncate(r) \/ LocalUpdateFile(r)
  <2>1. PICK f, stages : \A q \in Request \ {r} : edit'[q] = Raced(f, r, stages)[q]
    BY <1>4 DEF LocalTruncate, LocalUpdateFile, Raced
  <2> QED BY <1>2, <2>1 DEF Bystanders
<1>5. ASSUME NEW f \in File, LocalDeleteFile(r, f) PROVE Bystanders(r)
  <2>1. \A q \in Request : edit'[q] \in {NoEdit, Raced(f, r, Before)[q]}
    BY <1>5 DEF LocalDeleteFile
  <2> QED BY <1>2, <2>1, NoEditType DEF Bystanders
<1>6. ASSUME NEW f \in File, PgDeleteFile(r, f) PROVE Bystanders(r)
  <2>1. edit' = Raced(f, r, Before)
    BY <1>6 DEF PgDeleteFile
  <2> QED BY <1>2, <2>1 DEF Bystanders
<1>7. CASE PgUpdateFile(r)
  <2>1. \A q \in Request \ {r} : edit'[q] = Raced(edit[r].file, r, Before)[q]
    BY <1>7 DEF PgUpdateFile, Raced
  <2> QED BY <1>2, <2>1 DEF Bystanders
<1>8. CASE \A q \in Request \ {r} : edit'[q] = edit[q]
  BY <1>3, <1>8 DEF Bystanders
<1>11. CASE LocalPruneVersions(r)
  <2>1. \A q \in Request \ {r} : edit'[q] \in {NoEdit, edit[q]}
    BY <1>11 DEF LocalPruneVersions
  <2> QED BY <1>3, <2>1, NoEditType DEF Bystanders
<1>12. CASE LocalLabelVersion(r)
  <2>1. \A q \in Request \ {r} : edit'[q] \in {edit[q], [edit[q] EXCEPT !.raced = TRUE]}
    BY <1>12 DEF LocalLabelVersion
  <2>2. ASSUME NEW q \in Request \ {r} PROVE Same(q)
    <3>1. edit[q] \in EditState
      BY <1>1
    <3> QED BY <2>1, <3>1 DEF Same, EditState
  <2> QED BY <2>2 DEF Bystanders
<1>9. CASE LocalDocument(r)
  <2>1. \/ \A q \in Request \ {r} : edit'[q] = edit[q]
        \/ LocalTruncate(r) \/ LocalUpdateFile(r) \/ (\E f \in File : LocalDeleteFile(r, f))
        \/ LocalPruneVersions(r) \/ LocalLabelVersion(r)
    BY <1>1, <1>9 DEF LocalDocument, LocalSnapshot, LocalListVersions,
         LocalTruncateVersion, LocalCreateFile, LocalReadFile, LocalReadVersion
  <2> QED BY <2>1, <1>4, <1>5, <1>8, <1>11, <1>12
<1>10. CASE PgDocument(r)
  <2>1. \/ \A q \in Request \ {r} : edit'[q] = edit[q]
        \/ PgUpdateFile(r) \/ \E f \in File : PgDeleteFile(r, f)
    BY <1>1, <1>10 DEF PgDocument, PgSnapshot, PgPruneVersions, PgCreateFile, PgReadFile,
         PgLabelVersion
  <2> QED BY <2>1, <1>6, <1>7, <1>8
<1> QED BY <1>9, <1>10

\* A step that takes no id back.
LEMMA ListingKept ==
  ASSUME HistoryInv, TypeInv', Histories', store' = store, NEW r \in Request, Bystanders(r),
         \A f \in File : created[f] \subseteq created'[f], Listing(edit[r])'
  PROVE  HistoryInv'
<1> SUFFICES ASSUME NEW q \in Request \ {r} PROVE Listing(edit[q])'
  BY DEF HistoryInv
<1>1. edit[q] \in EditState /\ edit[q].file \in File /\ edit[q].tail \in SUBSET Nat
  BY DEF HistoryInv, TypeInv, TypeOK, EditState, Stamp
<1>2. CASE edit'[q].stage = "idle"
  BY <1>2 DEF Listing
<1>3. CASE Same(q)
  <2> DEFINE f == edit[q].file
  <2>1. /\ created[f] \in SUBSET Nat /\ created'[f] \in SUBSET Nat
        /\ created[f] \subseteq created'[f] /\ IsFiniteSet(created'[f])
    BY <1>1 DEF HistoryInv, TypeInv, TypeOK, Stamp, Histories, History
  <2>2. \A i \in edit[q].tail : Old(created[f], i) => Old(created'[f], i)
    BY <1>1, <2>1, OldGrows
  <2> HIDE DEF f
  <2>3. Listing(edit[q]) /\ (Local <=> Local')
    BY DEF HistoryInv, Local
  <2> QED BY <1>3, <2>1, <2>2, <2>3 DEF Listing, Same, f
<1> QED BY <1>2, <1>3 DEF Bystanders

LEMMA LocalHistory ==
  ASSUME HistoryInv, TypeInv', NEW r \in Request, LocalDocument(r)
  PROVE  HistoryInv'
<1>1. TypeOK /\ Local /\ Local' /\ store' = store /\ TypeOK'
  BY DEF HistoryInv, TypeInv, LocalDocument, LocalSnapshot, LocalListVersions, LocalPruneVersions,
         LocalTruncate, LocalUpdateFile, LocalTruncateVersion, LocalLabelVersion,
         LocalCreateFile, LocalReadFile,
         LocalDeleteFile, LocalReadVersion, Local
<1>2. /\ now \in Nat /\ versions \in [File -> SUBSET Version] /\ created \in [File -> SUBSET Nat]
      /\ edit \in [Request -> EditState] /\ edit[r] \in EditState /\ edit[r].file \in File
      /\ \A f \in File : versions[f] \in SUBSET Version /\ created[f] \in SUBSET Nat
  BY <1>1 DEF TypeOK, Stamp, EditState
<1>3. Bystanders(r)
  BY <1>1, LeavesOthers
<1>4. Histories /\ Listing(edit[r])
  BY DEF HistoryInv
<1> DEFINE Goal == Histories' /\ (\A f \in File : created[f] \subseteq created'[f])
                              /\ Listing(edit[r])'
<1> SUFFICES Goal
  BY <1>1, <1>3, ListingKept
<1>5. ASSUME UNCHANGED <<versions, created>>, edit'[r].stage \notin {"listed", "label", "labelling"}
      PROVE  Goal
  BY <1>4, <1>5 DEF Histories, Listing
<1>6. CASE LocalSnapshot(r)
  <2> DEFINE f == edit[r].file
             v == [id |-> now, rev |-> edit[r].read, labelled |-> FALSE]
  <2>1. v \in Version /\ v.id = now
    BY <1>2 DEF Version, EditState, Stamp
  <2>2. PICK stored \in BOOLEAN :
          /\ versions' = IF stored THEN Put(f, v) ELSE versions
          /\ created' = IF stored THEN [created EXCEPT ![f] = @ \cup {now}] ELSE created
          /\ edit' = [edit EXCEPT ![r].stage = "snapped", ![r].snapped = stored, ![r].id = now]
    BY <1>6 DEF LocalSnapshot
  <2>3. edit'[r].stage = "snapped"
    BY <1>2, <2>2 DEF EditState
  <2>4. CASE ~ stored
    BY <1>5, <2>2, <2>3, <2>4
  <2>5. CASE stored
    <3> HIDE DEF f, v
    <3>1. f \in File
      BY <1>2 DEF f
    <3>2. Put(f, v)[f] = {w \in versions[f] : w.id # v.id} \cup {v}
          /\ \A g \in File \ {f} : Put(f, v)[g] = versions[g]
      BY <1>1, <2>1, <3>1, PutType
    <3>3. created'[f] = created[f] \cup {v.id} /\ \A g \in File \ {f} : created'[g] = created[g]
      BY <1>2, <2>1, <2>2, <2>5, <3>1
    <3>4. History(versions'[f], created'[f])
      BY <1>2, <1>4, <2>1, <2>2, <2>5, <3>1, <3>2, <3>3, HistoryPut DEF Histories
    <3> QED BY <1>4, <2>2, <2>3, <2>5, <3>2, <3>3, <3>4 DEF Histories, Listing
  <2> QED BY <2>4, <2>5
<1>7. CASE LocalListVersions(r)
  <2>1. /\ edit'[r].tail = Beyond(edit[r].file) /\ edit'[r].file = edit[r].file
        /\ edit'[r].stage = "listed" /\ UNCHANGED <<versions, created>>
    BY <1>2, <1>7 DEF LocalListVersions, EditState
  <2>2. \A i \in Beyond(edit[r].file) : Old(created[edit[r].file], i)
    BY <1>2, <1>4, BeyondOld DEF Histories
  <2> QED BY <1>1, <1>4, <2>1, <2>2 DEF Histories, Listing
<1>8. CASE LocalPruneVersions(r)
  <2> DEFINE f == edit[r].file
  <2>1. PICK gone \in SUBSET edit[r].tail :
          versions' = [versions EXCEPT ![f] = {v \in @ : v.id \notin gone}]
    BY <1>8 DEF LocalPruneVersions
  <2>2. edit'[r].stage = "pruned" /\ created' = created /\ edit[r].stage = "listed"
    BY <1>2, <1>8 DEF LocalPruneVersions, EditState
  <2>3. \A i \in gone : Old(created[f], i)
    BY <1>4, <2>2 DEF Listing
  <2>4. History({v \in versions[f] : v.id \notin gone}, created[f])
    BY <1>2, <1>4, <2>3, HistoryPrune DEF Histories
  <2>5. ASSUME NEW g \in File PROVE History(versions'[g], created'[g])
    BY <1>2, <1>4, <2>1, <2>2, <2>4 DEF Histories
  <2> QED BY <2>2, <2>5 DEF Histories, Listing
<1>9. CASE LocalTruncate(r)
  <2>1. edit'[r].stage = "writing"
    BY <1>1, <1>2, <1>9, RacedType DEF LocalTruncate, EditState
  <2> QED BY <1>5, <1>9, <2>1 DEF LocalTruncate
<1>10. CASE LocalUpdateFile(r)
  <2>1. edit'[r] = NoEdit
    BY <1>1, <1>10, RacedType DEF LocalUpdateFile
  <2> QED BY <1>5, <1>10, <2>1, NoEditType DEF LocalUpdateFile
<1>11. CASE LocalTruncateVersion(r) \/ LocalLabelVersion(r)
  <2> DEFINE f == edit[r].file
  <2>1. PICK v \in Version : v.id = edit[r].id /\ versions' = Put(f, v)
    <3>1. ASSUME NEW x \in Revision \cup {Torn, Garbled}, NEW b \in BOOLEAN
          PROVE  LET v == [id |-> edit[r].id, rev |-> x, labelled |-> b]
                 IN  v \in Version /\ v.id = edit[r].id
      BY <1>2 DEF Version, EditState
    <3>2. edit[r].read \in Revision
      BY <1>2 DEF EditState
    <3> QED BY <1>11, <3>1, <3>2 DEF LocalTruncateVersion, LocalLabelVersion
  <2>2. edit[r].stage \in {"label", "labelling"} /\ created' = created
    BY <1>11 DEF LocalTruncateVersion, LocalLabelVersion
  <2>3. created[f] = created[f] \cup {v.id}
    BY <1>4, <2>1, <2>2 DEF Listing
  <2>4. f \in File
    BY <1>2
  <2>5. Listing(edit[r])'
    <3>1. CASE LocalTruncateVersion(r)
      <4>1. edit'[r].stage = "labelling" /\ edit'[r].id = edit[r].id /\ edit'[r].file = f
        BY <1>2, <3>1 DEF LocalTruncateVersion, EditState
      <4> QED BY <1>1, <1>4, <2>2, <4>1 DEF Listing
    <3>2. CASE LocalLabelVersion(r)
      BY <1>2, <3>2, NoEditType DEF LocalLabelVersion, Listing
    <3> QED BY <1>11, <3>1, <3>2
  <2> HIDE DEF f
  <2>6. Put(f, v)[f] = {w \in versions[f] : w.id # v.id} \cup {v}
        /\ \A g \in File \ {f} : Put(f, v)[g] = versions[g]
    BY <1>1, <2>1, <2>4, PutType
  <2>7. History(versions'[f], created'[f])
    BY <1>2, <1>4, <2>1, <2>2, <2>3, <2>4, <2>6, HistoryPut DEF Histories
  <2> QED BY <1>4, <2>1, <2>2, <2>5, <2>6, <2>7 DEF Histories
<1>12. ASSUME NEW f \in File, LocalCreateFile(r, f) \/ LocalReadFile(r, f) PROVE Goal
  <2>1. CASE LocalCreateFile(r, f)
    BY <1>4, <2>1 DEF LocalCreateFile, Histories, Listing, Local
  <2>2. CASE LocalReadFile(r, f)
    <3>1. edit'[r].stage = "read"
      BY <1>2, <2>2, NoEditType DEF LocalReadFile, EditState
    <3> QED BY <1>5, <2>2, <3>1 DEF LocalReadFile
  <2> QED BY <1>12, <2>1, <2>2
<1>13. ASSUME NEW f \in File, LocalDeleteFile(r, f) PROVE Goal
  <2>1. UNCHANGED <<versions, created>> /\ edit'[r] \in {NoEdit, Raced(f, r, Before)[r]}
    BY <1>13 DEF LocalDeleteFile
  <2>2. Raced(f, r, Before)[r] = edit[r]
    BY DEF Raced
  <2> QED BY <1>1, <1>4, <2>1, <2>2, NoEditType DEF Histories, Listing
<1>14. ASSUME NEW f \in File, LocalReadVersion(r, f) PROVE Goal
  <2>1. PICK v \in versions[f] :
          edit' = [edit EXCEPT ![r] = [NoEdit EXCEPT !.stage = "label", !.file = f,
                                         !.id = v.id, !.read = v.rev]]
    BY <1>14 DEF LocalReadVersion, Readable
  <2>2. /\ edit'[r].stage = "label" /\ edit'[r].file = f /\ edit'[r].id = v.id
        /\ UNCHANGED <<versions, created>>
    BY <1>2, <1>14, <2>1, NoEditType DEF LocalReadVersion, EditState
  <2>3. v.id \in created[f]
    BY <1>4, <2>1 DEF Histories, History
  <2> QED BY <1>1, <1>4, <2>2, <2>3 DEF Histories, Listing
<1> QED BY <1>6, <1>7, <1>8, <1>9, <1>10, <1>11, <1>12, <1>13, <1>14 DEF LocalDocument

\* In Postgres nothing is listed: PruneVersions is one statement.
LEMMA PgHistory ==
  ASSUME HistoryInv, TypeInv', NEW r \in Request, PgDocument(r)
  PROVE  HistoryInv'
<1>1. TypeOK /\ Pg /\ ~ Local /\ store' = store
  BY DEF HistoryInv, TypeInv, PgDocument, PgSnapshot, PgPruneVersions, PgUpdateFile, PgCreateFile,
         PgReadFile, PgDeleteFile, PgLabelVersion, Pg, Local
<1>2. /\ now \in Nat /\ versions \in [File -> SUBSET Version] /\ created \in [File -> SUBSET Nat]
      /\ edit \in [Request -> EditState] /\ edit[r] \in EditState /\ edit[r].file \in File
      /\ \A f \in File : versions[f] \in SUBSET Version /\ created[f] \in SUBSET Nat
  BY <1>1 DEF TypeOK, Stamp, EditState
<1>3. Bystanders(r)
  BY <1>1, LeavesOthers
<1>4. Histories /\ \A q \in Request : edit[q].stage \notin {"listed", "label", "labelling"}
  BY <1>1 DEF HistoryInv, Listing
<1> DEFINE Goal == Histories' /\ edit'[r].stage \notin {"listed", "label", "labelling"}
<1> SUFFICES Goal
  <2>1. \A q \in Request : edit'[q].stage \notin {"listed", "label", "labelling"}
    BY <1>3, <1>4 DEF Bystanders, Same
  <2> QED BY <2>1 DEF HistoryInv, Listing
<1>5. ASSUME UNCHANGED <<versions, created>>, edit'[r].stage \notin {"listed", "label", "labelling"}
      PROVE  Goal
  BY <1>4, <1>5 DEF Histories
<1>6. CASE PgSnapshot(r)
  <2> DEFINE f == edit[r].file
             v == [id |-> edit[r].at, rev |-> edit[r].read, labelled |-> FALSE]
  <2>1. v \in Version /\ f \in File
    BY <1>2 DEF Version, EditState, Stamp
  <2>2. PICK stored \in BOOLEAN :
          /\ versions' = IF stored /\ \A w \in versions[f] : w.id # v.id
                           THEN Put(f, v) ELSE versions
          /\ created' = IF stored THEN [created EXCEPT ![f] = @ \cup {v.id}] ELSE created
          /\ edit' = [edit EXCEPT ![r].stage = "snapped", ![r].snapped = stored, ![r].id = v.id]
    BY <1>6 DEF PgSnapshot
  <2>3. edit'[r].stage = "snapped"
    BY <1>2, <2>2 DEF EditState
  <2> HIDE DEF f, v
  <2>4. CASE ~ stored
    BY <1>5, <2>2, <2>3, <2>4
  <2>5. CASE stored
    <3>1. created'[f] = created[f] \cup {v.id} /\ \A g \in File \ {f} : created'[g] = created[g]
      BY <1>2, <2>1, <2>2, <2>5
    <3>2. CASE \A w \in versions[f] : w.id # v.id
      <4>1. versions'[f] = {w \in versions[f] : w.id # v.id} \cup {v}
            /\ \A g \in File \ {f} : versions'[g] = versions[g]
        BY <1>1, <2>1, <2>2, <2>5, <3>2, PutType
      <4>2. History(versions'[f], created'[f])
        BY <1>2, <1>4, <2>1, <3>1, <4>1, HistoryPut DEF Histories
      <4> QED BY <1>4, <2>3, <3>1, <4>1, <4>2 DEF Histories
    <3>3. CASE \E w \in versions[f] : w.id = v.id
      <4>1. created[f] = created[f] \cup {v.id}
        BY <1>4, <2>1, <3>3 DEF Histories, History
      <4>2. versions' = versions /\ \A g \in File : created'[g] = created[g]
        BY <2>2, <3>1, <3>3, <4>1
      <4> QED BY <1>4, <2>3, <4>2 DEF Histories
    <3> QED BY <3>2, <3>3
  <2> QED BY <2>4, <2>5
<1>7. CASE PgPruneVersions(r)
  <2> DEFINE f == edit[r].file
  <2>1. PICK gone \in {{}, Beyond(f)} :
          versions' = [versions EXCEPT ![f] = {v \in @ : v.id \notin gone}]
    BY <1>7 DEF PgPruneVersions
  <2>2. edit'[r].stage = "pruned" /\ created' = created
    BY <1>2, <1>7 DEF PgPruneVersions, EditState
  <2>3. \A i \in gone : Old(created[f], i)
    BY <1>2, <1>4, BeyondOld DEF Histories
  <2>4. History({v \in versions[f] : v.id \notin gone}, created[f])
    BY <1>2, <1>4, <2>3, HistoryPrune DEF Histories
  <2>5. ASSUME NEW g \in File PROVE History(versions'[g], created'[g])
    BY <1>2, <1>4, <2>1, <2>2, <2>4 DEF Histories
  <2> QED BY <2>2, <2>5 DEF Histories
<1>8. CASE PgUpdateFile(r)
  <2>1. edit'[r] = NoEdit
    BY <1>1, <1>8, RacedType DEF PgUpdateFile
  <2> QED BY <1>5, <1>8, <2>1, NoEditType DEF PgUpdateFile
<1>9. ASSUME NEW f \in File, PgCreateFile(r, f) PROVE Goal
  BY <1>4, <1>5, <1>9 DEF PgCreateFile
<1>10. ASSUME NEW f \in File, PgReadFile(r, f) PROVE Goal
  <2>1. edit'[r].stage = "read"
    BY <1>2, <1>10, NoEditType DEF PgReadFile, EditState
  <2> QED BY <1>5, <1>10, <2>1 DEF PgReadFile
<1>11. ASSUME NEW f \in File, PgDeleteFile(r, f) PROVE Goal
  <2>1. /\ versions' = [versions EXCEPT ![f] = {}] /\ created' = [created EXCEPT ![f] = {}]
        /\ edit' = Raced(f, r, Before)
    BY <1>11 DEF PgDeleteFile, Cascade
  <2>2. edit'[r].stage = edit[r].stage
    BY <1>1, <2>1, RacedSame
  <2>3. ASSUME NEW g \in File PROVE History(versions'[g], created'[g])
    BY <1>2, <1>4, <2>1, HistoryNone DEF Histories
  <2> QED BY <1>4, <2>2, <2>3 DEF Histories
<1>12. ASSUME NEW f \in File, PgLabelVersion(r, f) PROVE Goal
  <2>1. PICK v \in versions[f] : versions' = Put(f, [v EXCEPT !.labelled = TRUE])
    BY <1>12 DEF PgLabelVersion
  <2> DEFINE w == [v EXCEPT !.labelled = TRUE]
  <2>2. v \in Version
    BY <1>2
  <2>3. w \in Version /\ w.id = v.id
    BY <2>2 DEF Version
  <2>4. created' = created /\ edit' = edit
    BY <1>12 DEF PgLabelVersion
  <2>5. created[f] = created[f] \cup {w.id}
    BY <1>4, <2>3 DEF Histories, History
  <2>6. versions' = Put(f, w)
    BY <2>1
  <2> HIDE DEF w
  <2>7. Put(f, w)[f] = {u \in versions[f] : u.id # w.id} \cup {w}
        /\ \A g \in File \ {f} : Put(f, w)[g] = versions[g]
    BY <1>1, <2>3, PutType
  <2>8. History(versions'[f], created'[f])
    BY <1>2, <1>4, <2>3, <2>4, <2>5, <2>6, <2>7, HistoryPut DEF Histories
  <2> QED BY <1>4, <2>4, <2>6, <2>7, <2>8 DEF Histories
<1> QED BY <1>6, <1>7, <1>8, <1>9, <1>10, <1>11, <1>12 DEF PgDocument

LEMMA HistoryInvariance == Spec => []HistoryInv
<1>1. Init /\ TypeInv => HistoryInv
  BY NoEditType, HistoryNone DEF Init, HistoryInv, Histories, Listing
<1>2. HistoryInv /\ TypeInv' /\ [Next]_vars => HistoryInv'
  <2> SUFFICES ASSUME HistoryInv, TypeInv', [Next]_vars PROVE HistoryInv'
    OBVIOUS
  <2>1. CASE UNCHANGED <<store, docVars>>
    BY <2>1 DEF HistoryInv, Histories, Listing, Local, docVars
  <2>2. CASE Next
    BY <2>1, <2>2, LocalHistory, PgHistory DEF Next, Access
  <2> QED BY <2>1, <2>2 DEF vars, docVars
<1> QED BY <1>1, <1>2, TypeInvariance, PTL DEF Spec

----------------------------------------------------------------------------
\* DocumentStorage: what an update overwrites.

Snapped == {"snapped", "listed", "pruned"}

\* A request not made yet does nothing.
Begun == \A r \in pending : edit[r].stage = "idle"

\* What an update has read is what is stored, unless a write came between.
Current(e) == e.stage \in Before /\ ~ e.raced => file[e.file].rev = e.read

CurrentInv == TypeInv /\ Begun /\ \A r \in Request : Current(edit[r])

LEMMA BegunKept ==
  ASSUME TypeOK, Begun, NEW r \in Request, LocalDocument(r) \/ PgDocument(r)
  PROVE  Begun'
<1>1. r \notin pending' /\ pending' \subseteq pending /\ pending \subseteq Request
  BY DEF TypeOK, AclTypeOK, Begun, LocalDocument, LocalSnapshot, LocalListVersions,
         LocalPruneVersions, LocalTruncate, LocalUpdateFile, LocalTruncateVersion,
         LocalLabelVersion, LocalCreateFile,
         LocalReadFile, LocalDeleteFile, LocalReadVersion, PgDocument, PgSnapshot,
         PgPruneVersions, PgUpdateFile, PgCreateFile, PgReadFile, PgDeleteFile,
         PgLabelVersion, Make
<1>2. Bystanders(r)
  BY LeavesOthers
<1> QED BY <1>1, <1>2 DEF Begun, Bystanders, Same

\* Every write of a file marks the updates of it that it comes between.
LEMMA FileSettled ==
  ASSUME CurrentInv, NEW r \in Request, LocalDocument(r) \/ PgDocument(r),
         NEW q \in Request \ {r}, edit[q].stage \in Before, ~ edit'[q].raced,
         file[edit[q].file].rev = edit[q].read
  PROVE  file'[edit[q].file].rev = file[edit[q].file].rev
<1> DEFINE g == edit[q].file
<1>1. /\ TypeOK /\ file \in [File -> Stored] /\ edit[q] \in EditState
      /\ g \in File /\ edit[q].read # Never
  BY RevisionPlain DEF CurrentInv, TypeInv, TypeOK, EditState
<1>2. ASSUME NEW f, NEW stages, Before \subseteq stages, edit'[q] = Raced(f, r, stages)[q]
      PROVE  g # f
  BY <1>1, <1>2, RacedSame DEF Busy
<1>3. ASSUME NEW f, file[f].rev = Never PROVE g # f
  BY <1>1, <1>3
<1> DEFINE Kept == file'[g].rev = file[g].rev
<1>4. CASE UNCHANGED file
  BY <1>4
<1>5. CASE LocalTruncate(r)
  <2>1. /\ edit'[q] = Raced(edit[r].file, r, Before)[q]
        /\ file' = [file EXCEPT ![edit[r].file].rev = Torn]
    BY <1>5 DEF LocalTruncate, Raced
  <2> QED BY <1>1, <1>2, <2>1
<1>6. CASE LocalUpdateFile(r)
  <2>1. /\ edit'[q] = Raced(edit[r].file, r, Before \cup {"writing"})[q]
        /\ \E x : file' = [file EXCEPT ![edit[r].file] = x]
    BY <1>6 DEF LocalUpdateFile, Raced
  <2> QED BY <1>1, <1>2, <2>1
<1>7. ASSUME NEW f \in File, LocalDeleteFile(r, f) PROVE Kept
  <2>1. edit'[q] = Raced(f, r, Before)[q] /\ file' = [file EXCEPT ![f].rev = Gone]
    BY <1>7 DEF LocalDeleteFile, Busy, Before
  <2> QED BY <1>1, <1>2, <2>1
<1>8. ASSUME NEW f \in File, LocalCreateFile(r, f) \/ PgCreateFile(r, f) PROVE Kept
  <2>1. file[f].rev = Never /\ \E x : file' = [file EXCEPT ![f] = x]
    BY <1>8 DEF LocalCreateFile, PgCreateFile
  <2> QED BY <1>1, <1>3, <2>1
<1>9. CASE PgUpdateFile(r)
  <2>1. /\ edit'[q] = Raced(edit[r].file, r, Before)[q]
        /\ file' = file \/ \E x : file' = [file EXCEPT ![edit[r].file] = x]
    BY <1>9 DEF PgUpdateFile, Raced
  <2> QED BY <1>1, <1>2, <2>1
<1>10. ASSUME NEW f \in File, PgDeleteFile(r, f) PROVE Kept
  <2>1. edit'[q] = Raced(f, r, Before)[q] /\ file' = [file EXCEPT ![f].rev = Gone]
    BY <1>10 DEF PgDeleteFile
  <2> QED BY <1>1, <1>2, <2>1
<1>11. CASE LocalDocument(r)
  BY <1>4, <1>5, <1>6, <1>7, <1>8, <1>11
     DEF LocalDocument, LocalSnapshot, LocalListVersions, LocalPruneVersions,
         LocalTruncateVersion, LocalLabelVersion, LocalReadFile, LocalReadVersion
<1>12. CASE PgDocument(r)
  BY <1>4, <1>8, <1>9, <1>10, <1>12
     DEF PgDocument, PgSnapshot, PgPruneVersions, PgReadFile, PgLabelVersion
<1> QED BY <1>11, <1>12

\* An update in progress has read what is stored, or goes on with what it has read.
LEMMA OwnCurrent ==
  ASSUME CurrentInv, NEW r \in Request, LocalDocument(r) \/ PgDocument(r)
  PROVE  Current(edit[r])'
<1>1. /\ TypeOK /\ Begun /\ Current(edit[r]) /\ edit \in [Request -> EditState]
      /\ edit[r] \in EditState
  BY DEF CurrentInv, TypeInv, TypeOK
<1>2. CASE edit'[r].stage \notin Before
  BY <1>2 DEF Current
<1>3. ASSUME file' = file, edit'[r].file = edit[r].file, edit'[r].read = edit[r].read,
             edit'[r].raced = edit[r].raced, edit[r].stage \in Before
      PROVE  Current(edit[r])'
  BY <1>1, <1>3 DEF Current
<1>4. ASSUME file' = file, NEW f \in File, edit'[r].file = f, edit'[r].read = file[f].rev
      PROVE  Current(edit[r])'
  BY <1>4 DEF Current
<1>5. ASSUME Make(r), edit'[r] = edit[r] PROVE Current(edit[r])'
  <2>1. edit'[r].stage \notin Before
    BY <1>1, <1>5 DEF Begun, Make, Before
  <2> QED BY <1>2, <2>1
<1>6. CASE LocalSnapshot(r)
  BY <1>1, <1>3, <1>6 DEF LocalSnapshot, EditState, Before
<1>7. CASE LocalListVersions(r) \/ LocalPruneVersions(r)
  <2>1. CASE LocalListVersions(r)
    BY <1>1, <1>3, <2>1 DEF LocalListVersions, EditState, Before
  <2>2. CASE LocalPruneVersions(r)
    BY <1>1, <1>3, <2>2, PruneGoesOn DEF LocalPruneVersions, Before
  <2> QED BY <1>7, <2>1, <2>2
<1>8. CASE LocalTruncate(r)
  <2>1. edit'[r].stage = "writing"
    BY <1>1, <1>8, RacedType DEF LocalTruncate, EditState
  <2> QED BY <1>2, <2>1 DEF Before
<1>9. CASE LocalUpdateFile(r) \/ PgUpdateFile(r)
  <2>1. edit'[r] = NoEdit
    BY <1>1, <1>9, RacedType DEF LocalUpdateFile, PgUpdateFile
  <2> QED BY <1>2, <2>1, NoEditType DEF Before
<1>10. CASE LocalTruncateVersion(r) \/ LocalLabelVersion(r)
  <2>1. edit'[r].stage \in {"labelling", "idle"}
    BY <1>1, <1>10, NoEditType DEF LocalTruncateVersion, LocalLabelVersion, EditState
  <2> QED BY <1>2, <2>1 DEF Before
<1>11. ASSUME NEW f \in File,
              LocalCreateFile(r, f) \/ PgCreateFile(r, f) \/ PgLabelVersion(r, f)
       PROVE  Current(edit[r])'
  BY <1>5, <1>11 DEF LocalCreateFile, PgCreateFile, PgLabelVersion
<1>12. ASSUME NEW f \in File, LocalReadFile(r, f) \/ PgReadFile(r, f) PROVE Current(edit[r])'
  <2>1. edit'[r].file = f /\ edit'[r].read = file[f].rev /\ file' = file
    BY <1>1, <1>12, NoEditType DEF LocalReadFile, PgReadFile, EditState
  <2> QED BY <1>4, <2>1
<1>13. ASSUME NEW f \in File, LocalDeleteFile(r, f) \/ PgDeleteFile(r, f)
       PROVE  Current(edit[r])'
  <2>1. edit'[r] \in {NoEdit, edit[r]} /\ Make(r)
    BY <1>13 DEF LocalDeleteFile, PgDeleteFile, Raced
  <2> QED BY <1>2, <1>5, <2>1, NoEditType DEF Before
<1>14. ASSUME NEW f \in File, LocalReadVersion(r, f) PROVE Current(edit[r])'
  <2>1. edit'[r].stage = "label"
    BY <1>1, <1>14, NoEditType DEF LocalReadVersion, EditState
  <2> QED BY <1>2, <2>1 DEF Before
<1>15. CASE PgSnapshot(r)
  BY <1>1, <1>3, <1>15 DEF PgSnapshot, EditState, Before
<1>16. CASE PgPruneVersions(r)
  BY <1>1, <1>3, <1>16 DEF PgPruneVersions, EditState, Before
<1> QED BY <1>6, <1>7, <1>8, <1>9, <1>10, <1>11, <1>12, <1>13, <1>14, <1>15, <1>16
        DEF LocalDocument, PgDocument

LEMMA CurrentInvariance == Spec => []CurrentInv
<1>1. Init /\ TypeInv => CurrentInv
  BY NoEditType DEF Init, CurrentInv, Begun, Current, Before
<1>2. CurrentInv /\ TypeInv' /\ [Next]_vars => CurrentInv'
  <2> SUFFICES ASSUME CurrentInv, TypeInv', [Next]_vars PROVE CurrentInv'
    OBVIOUS
  <2>1. CASE UNCHANGED <<file, edit>> /\ pending' \subseteq pending
    BY <2>1 DEF CurrentInv, Begun, Current
  <2>2. ASSUME NEW r \in Request, LocalDocument(r) \/ PgDocument(r) PROVE CurrentInv'
    <3>1. Begun'
      BY <2>2, BegunKept DEF CurrentInv, TypeInv
    <3>2. Bystanders(r)
      BY <2>2, LeavesOthers DEF CurrentInv, TypeInv
    <3>3. ASSUME NEW q \in Request \ {r} PROVE Current(edit[q])'
      <4>1. CASE edit'[q].stage = "idle"
        BY <4>1 DEF Current, Before
      <4>2. CASE Same(q) /\ edit'[q].stage \in Before /\ ~ edit'[q].raced
        <5>1. edit[q].stage \in Before /\ file[edit[q].file].rev = edit[q].read
          BY <4>2 DEF Same, CurrentInv, Current
        <5>2. file'[edit[q].file].rev = file[edit[q].file].rev
          BY <2>2, <4>2, <5>1, FileSettled
        <5> QED BY <4>2, <5>1, <5>2 DEF Same, Current
      <4> QED BY <3>2, <4>1, <4>2 DEF Bystanders, Current
    <3> QED BY <2>2, <3>1, <3>3, OwnCurrent DEF CurrentInv
  <2>3. ASSUME NEW r \in Request, Access(r) PROVE CurrentInv'
    <3>1. pending' \subseteq pending
      BY <2>3 DEF Access, SQLite, SQLiteDeleteShares, SQLiteListShares, SQLiteDeleteOwner,
           SQLiteSetOwner, SQLiteShare, SQLiteUnshare, SQLiteCanAccess, SQLiteAccessible,
           Null, NullDelete, NullSetOwner, NullShare, NullUnshare, NullCanAccess, NullAccessible,
           Postgres, PgDeleteShares, PgListShares, PgDeleteOwner, PgSetOwner, PgShare,
           PgUnshare, PgCanAccess, PgAccessible, Make
    <3> QED BY <2>1, <2>3, <3>1 DEF Access, docVars
  <2>4. CASE UNCHANGED vars
    BY <2>1, <2>4 DEF vars
  <2> QED BY <2>2, <2>3, <2>4 DEF Next
<1> QED BY <1>1, <1>2, TypeInvariance, PTL DEF Spec

----------------------------------------------------------------------------
\* DocumentStorage: what cannot be decoded.

\* What is torn, a labelling under way has emptied.
TornInv ==
  \A f \in File : \A v \in versions[f] : v.rev = Torn =>
    \E q \in Request : Busy(q, f, {"labelling"}) /\ edit[q].id = v.id

\* A labelling that has emptied a version goes on until it has written it, unless the
\* version is removed.
LEMMA LabellingStays ==
  ASSUME TypeOK, NEW r \in Request, LocalDocument(r), NEW q \in Request \ {r},
         edit[q].stage = "labelling"
  PROVE  \/ /\ edit'[q].stage = "labelling" /\ edit'[q].file = edit[q].file
            /\ edit'[q].id = edit[q].id
         \/ \A v \in versions'[edit[q].file] : v.id # edit[q].id
<1> DEFINE Stays == /\ edit'[q].stage = "labelling" /\ edit'[q].file = edit[q].file
                    /\ edit'[q].id = edit[q].id
<1>1. edit \in [Request -> EditState] /\ edit[q] \in EditState
  BY DEF TypeOK
<1>2. ASSUME NEW f, NEW stages, edit'[q] = Raced(f, r, stages)[q] PROVE Stays
  BY <1>2, RacedSame
<1>3. CASE LocalTruncate(r) \/ LocalUpdateFile(r)
  <2>1. PICK f, stages : edit'[q] = Raced(f, r, stages)[q]
    BY <1>3 DEF LocalTruncate, LocalUpdateFile, Raced
  <2> QED BY <1>2, <2>1
<1>4. ASSUME NEW f \in File, LocalDeleteFile(r, f) PROVE Stays
  <2>1. edit'[q] = Raced(f, r, Before)[q]
    BY <1>4 DEF LocalDeleteFile, Busy
  <2> QED BY <1>2, <2>1
<1>5. CASE LocalPruneVersions(r)
  <2> DEFINE f == edit[r].file
  <2>1. PICK gone \in SUBSET edit[r].tail :
          /\ versions' = [versions EXCEPT ![f] = {v \in @ : v.id \notin gone}]
          /\ edit'[q] = IF Busy(q, f, {"labelling"}) /\ edit[q].id \in gone THEN NoEdit
                                                                           ELSE edit[q]
    BY <1>5 DEF LocalPruneVersions
  <2>2. CASE Busy(q, f, {"labelling"}) /\ edit[q].id \in gone
    <3>1. f \in File /\ f = edit[q].file /\ versions \in [File -> SUBSET Version]
      BY <2>2 DEF TypeOK, EditState, Busy
    <3>2. versions'[f] = {v \in versions[f] : v.id \notin gone}
      BY <2>1, <3>1
    <3> QED BY <2>2, <3>1, <3>2
  <2>3. CASE ~ (Busy(q, f, {"labelling"}) /\ edit[q].id \in gone)
    BY <2>1, <2>3
  <2> QED BY <2>2, <2>3
<1>6. CASE LocalLabelVersion(r)
  <2>1. edit'[q] \in {edit[q], [edit[q] EXCEPT !.raced = TRUE]}
    BY <1>6 DEF LocalLabelVersion
  <2> QED BY <1>1, <2>1 DEF EditState
<1>7. CASE edit'[q] = edit[q]
  BY <1>7
<1> QED BY <1>1, <1>3, <1>4, <1>5, <1>6, <1>7
        DEF LocalDocument, LocalSnapshot, LocalListVersions, LocalTruncateVersion,
            LocalCreateFile, LocalReadFile, LocalReadVersion

LEMMA LocalTorn ==
  ASSUME TypeInv, Begun, TornInv, NEW r \in Request, LocalDocument(r)
  PROVE  TornInv'
<1> SUFFICES ASSUME NEW f \in File, NEW v \in versions'[f], v.rev = Torn
             PROVE  \E q \in Request : Busy(q, f, {"labelling"})' /\ edit'[q].id = v.id
  BY DEF TornInv
<1>1. /\ TypeOK /\ now \in Nat /\ versions \in [File -> SUBSET Version]
      /\ edit \in [Request -> EditState] /\ edit[r] \in EditState
      /\ edit[r].file \in File /\ edit[r].read \in Revision /\ edit[r].id \in Stamp
  BY DEF TypeInv, TypeOK, EditState, Stamp
<1>2. Torn \notin Revision /\ Torn # Garbled
  BY RevisionPlain DEF Torn, Garbled
<1>3. ASSUME v \in versions[f],
             edit[r].stage # "labelling" \/ edit[r].file # f \/ edit[r].id # v.id
      PROVE  \E q \in Request : Busy(q, f, {"labelling"})' /\ edit'[q].id = v.id
  <2>1. PICK q \in Request : edit[q].stage = "labelling" /\ edit[q].file = f /\ edit[q].id = v.id
    BY <1>3 DEF TornInv, Busy
  <2>2. q # r
    BY <1>3, <2>1
  <2>3. edit'[q].stage = "labelling" /\ edit'[q].file = f /\ edit'[q].id = v.id
    BY <1>1, <2>1, <2>2, LabellingStays
  <2> QED BY <2>3 DEF Busy
<1>4. CASE LocalSnapshot(r)
  <2> DEFINE g == edit[r].file
             n == [id |-> now, rev |-> edit[r].read, labelled |-> FALSE]
  <2>1. n \in Version /\ n.rev # Torn
    BY <1>1, <1>2 DEF Version, Stamp
  <2>2. edit[r].stage = "read" /\ (versions' = versions \/ versions' = Put(g, n))
    BY <1>4 DEF LocalSnapshot
  <2> HIDE DEF n
  <2>3. v \in versions[f]
    BY <1>1, <2>1, <2>2, PutType
  <2> QED BY <1>3, <2>2, <2>3
<1>5. CASE LocalPruneVersions(r)
  <2>1. edit[r].stage = "listed" /\ versions'[f] \subseteq versions[f]
    BY <1>1, <1>5 DEF LocalPruneVersions
  <2> QED BY <1>3, <2>1
<1>6. CASE LocalTruncateVersion(r)
  <2> DEFINE g == edit[r].file
             n == [id |-> edit[r].id, rev |-> Torn, labelled |-> FALSE]
  <2>1. n \in Version /\ n.id = edit[r].id
    BY <1>1 DEF Version
  <2>2. /\ edit[r].stage = "label" /\ versions' = Put(g, n)
        /\ edit'[r].stage = "labelling" /\ edit'[r].file = g /\ edit'[r].id = edit[r].id
    BY <1>1, <1>6 DEF LocalTruncateVersion, EditState
  <2> HIDE DEF n
  <2>3. v \in versions[f] \/ (f = g /\ v = n)
    BY <1>1, <2>1, <2>2, PutType
  <2>4. CASE f = g /\ v = n
    BY <2>1, <2>2, <2>4 DEF Busy
  <2> QED BY <1>3, <2>2, <2>3, <2>4
<1>7. CASE LocalLabelVersion(r)
  <2>1. PICK x \in {edit[r].read, Garbled} :
          versions' = Put(edit[r].file, [id |-> edit[r].id, rev |-> x, labelled |-> TRUE])
    BY <1>7 DEF LocalLabelVersion
  <2> DEFINE g == edit[r].file
             n == [id |-> edit[r].id, rev |-> x, labelled |-> TRUE]
  <2>2. n \in Version /\ n.id = edit[r].id /\ n.rev # Torn /\ versions' = Put(g, n)
    BY <1>1, <1>2, <2>1 DEF Version
  <2> HIDE DEF n
  <2>3. v \in versions[f] /\ (g # f \/ edit[r].id # v.id)
    BY <1>1, <2>2, PutType
  <2> QED BY <1>3, <2>3
<1>8. CASE versions' = versions /\ edit[r].stage # "labelling"
  BY <1>3, <1>8
<1>9. CASE LocalListVersions(r) \/ LocalTruncate(r) \/ LocalUpdateFile(r)
  BY <1>8, <1>9 DEF LocalListVersions, LocalTruncate, LocalUpdateFile
<1>10. ASSUME NEW g \in File, \/ LocalCreateFile(r, g) \/ LocalReadFile(r, g)
                              \/ LocalDeleteFile(r, g) \/ LocalReadVersion(r, g)
       PROVE  \E q \in Request : Busy(q, f, {"labelling"})' /\ edit'[q].id = v.id
  <2>1. Make(r) /\ versions' = versions
    BY <1>10 DEF LocalCreateFile, LocalReadFile, LocalDeleteFile, LocalReadVersion
  <2>2. edit[r].stage = "idle"
    BY <2>1 DEF Begun, Make
  <2> QED BY <1>8, <2>1, <2>2
<1> QED BY <1>4, <1>5, <1>6, <1>7, <1>9, <1>10 DEF LocalDocument

LEMMA TornInvariance == Spec => []TornInv
<1>1. Init => TornInv
  BY DEF Init, TornInv
<1>2. CurrentInv /\ TypeInv' /\ TornInv /\ [Next]_vars => TornInv'
  <2> SUFFICES ASSUME CurrentInv, TypeInv', TornInv, [Next]_vars PROVE TornInv'
    OBVIOUS
  <2>1. CASE UNCHANGED docVars
    BY <2>1 DEF TornInv, docVars, Busy
  <2>2. ASSUME NEW r \in Request, LocalDocument(r) PROVE TornInv'
    BY <2>2, LocalTorn DEF CurrentInv
  <2>3. ASSUME NEW r \in Request, PgDocument(r) PROVE TornInv'
    <3>1. Pg'
      BY <2>3 DEF PgDocument, PgSnapshot, PgPruneVersions, PgUpdateFile, PgCreateFile,
           PgReadFile, PgDeleteFile, PgLabelVersion, Pg
    <3>2. \A f \in File : \A v \in versions'[f] : v.rev # Torn
      BY <3>1, RevisionPlain DEF TypeInv
    <3> QED BY <3>2 DEF TornInv
  <2> QED BY <2>1, <2>2, <2>3 DEF Next, Access, vars, docVars
<1> QED BY <1>1, <1>2, CurrentInvariance, TypeInvariance, PTL DEF Spec

\* The newest VersionCap snapshots of a file are never pruned, however many updates and
\* labellings list, remove and write at the same time, and a labelling under way or cut
\* short is all that tears one (PruneVersions, LabelVersion).
THEOREM RecentHistoryStays == Spec => []RecentHistoryKept
<1>1. HistoryInv /\ TornInv => RecentHistoryKept
  <2> SUFFICES ASSUME HistoryInv, TornInv, NEW f \in File, NEW i \in created[f],
                      Cardinality(Later(created[f], i)) < VersionCap
               PROVE  \E v \in versions[f] :
                        /\ v.id = i
                        /\ v.rev = Torn => \E r \in Request : Busy(r, f, {"labelling"}) /\ edit[r].id = i
    BY DEF RecentHistoryKept, Later
  <2>1. History(versions[f], created[f]) /\ created[f] \in SUBSET Nat
    BY DEF HistoryInv, Histories, TypeInv, TypeOK, Stamp
  <2>2. Cardinality(Later(created[f], i)) \in Nat
    BY <2>1, LaterFinite DEF History
  <2>3. PICK v \in versions[f] : v.id = i
    BY <2>1, <2>2, VersionCapAssumption DEF History, Old
  <2> QED BY <2>3 DEF TornInv
<1> QED BY <1>1, HistoryInvariance, TornInvariance, PTL

----------------------------------------------------------------------------
\* DocumentStorage: what an update overwrites is recorded.

\* Who else names a revision of f: a version that can be decoded, and an update or a
\* labelling that has named what it has read.  LocalStorage names it when it takes the snapshot, Postgres
\* by its time from the start.
Claims(e) == e.stage \in IF Pg THEN Before ELSE Snapped \cup {"label", "labelling"}
Named(e) == IF Pg THEN e.at ELSE e.id

Said(f, i, x) ==
  \/ \E v \in versions[f] : v.id = i /\ v.rev = x
  \/ \E r \in Request : /\ Claims(edit[r]) /\ edit[r].file = f
                        /\ Named(edit[r]) = i /\ edit[r].read = x

\* One name, one revision: also that of the file itself in Postgres.
Naming ==
  \A f \in File, i \in Nat, x \in Revision : Said(f, i, x) =>
    /\ i < now
    /\ \A y \in Revision : Said(f, i, y) => x = y
    /\ Pg /\ Exists(f) /\ file[f].updated = i => file[f].rev = x

Timely(f) == file[f].updated <= now
SameName(e) == Pg /\ e.stage \in Snapped => e.id = e.at

NamingInv ==
  /\ TypeInv /\ Naming
  /\ Pg => \A f \in File : Timely(f)
  /\ \A r \in Request : SameName(edit[r])

\* A step says again what was said, and what is in new.
LEMMA SaidAgain ==
  ASSUME TypeOK, NEW r \in Request, Bystanders(r), store' = store, NEW new,
         \A f \in File : \A v \in versions'[f] : v.rev \in Revision =>
           Said(f, v.id, v.rev) \/ <<f, v.id, v.rev>> \in new,
         Claims(edit[r])' => LET e == edit'[r] IN
           Said(e.file, Named(e), e.read) \/ <<e.file, Named(e), e.read>> \in new,
         NEW f \in File, NEW i, NEW x \in Revision, Said(f, i, x)'
  PROVE  Said(f, i, x) \/ <<f, i, x>> \in new
<1>1. CASE \E v \in versions'[f] : v.id = i /\ v.rev = x
  BY <1>1
<1>2. ASSUME NEW q \in Request, Claims(edit[q])', edit'[q].file = f, Named(edit[q])' = i,
             edit'[q].read = x
      PROVE  Said(f, i, x) \/ <<f, i, x>> \in new
  <2>1. Named(edit[q])' = Named(edit'[q])
    BY DEF Named, Pg
  <2>2. CASE q = r
    BY <1>2, <2>1, <2>2
  <2>3. CASE q # r
    <3>1. Same(q)
      BY <1>2, <2>3 DEF Bystanders, Claims, Before, Snapped
    <3>2. Claims(edit[q]) /\ edit[q].file = f /\ Named(edit[q]) = i /\ edit[q].read = x
      BY <1>2, <3>1 DEF Same, Claims, Named, Pg
    <3> QED BY <3>2 DEF Said
  <2> QED BY <2>2, <2>3
<1> QED BY <1>1, <1>2 DEF Said

LEMMA SaidOnly ==
  ASSUME TypeOK, NEW r \in Request, Bystanders(r), store' = store,
         \A f \in File : \A v \in versions'[f] : v.rev \in Revision => Said(f, v.id, v.rev),
         Claims(edit[r])' => LET e == edit'[r] IN Said(e.file, Named(e), e.read),
         NEW f \in File, NEW i, NEW x \in Revision, Said(f, i, x)'
  PROVE  Said(f, i, x)
<1> DEFINE none == {}
<1>1. \A t : t \notin none
  OBVIOUS
<1> HIDE DEF none
<1>2. Said(f, i, x) \/ <<f, i, x>> \in none
  BY SaidAgain
<1> QED BY <1>1, <1>2

\* Nothing new is said, and what is written is later than all that was.
LEMMA NamingAgain ==
  ASSUME NamingInv, TypeInv', store' = store, now <= now',
         \A f \in File, i \in Nat, x \in Revision : Said(f, i, x)' => Said(f, i, x),
         Pg => \A f \in File : \/ file'[f] = file[f]
                               \/ file'[f].updated = now
                               \/ file'[f].updated = file[f].updated /\ ~ Exists(f)',
         NEW r \in Request, Bystanders(r), SameName(edit[r])'
  PROVE  NamingInv'
<1>1. now \in Nat /\ now' \in Nat
  BY DEF NamingInv, TypeInv, TypeOK, Stamp
<1>2. ASSUME NEW f \in File, Pg PROVE Timely(f)'
  <2>1. file[f].updated <= now /\ file[f].updated \in Nat
    BY <1>2 DEF NamingInv, Timely, TypeInv, TypeOK, Stored, Stamp
  <2> QED BY <1>1, <1>2, <2>1 DEF Timely
<1>3. \A q \in Request : SameName(edit[q])'
  BY DEF NamingInv, SameName, Bystanders, Same, Snapped, Pg
<1>4. ASSUME NEW f \in File, NEW i \in Nat, NEW x \in Revision, Said(f, i, x)'
      PROVE  /\ i < now' /\ \A y \in Revision : Said(f, i, y)' => x = y
             /\ Pg /\ Exists(f)' /\ file'[f].updated = i => file'[f].rev = x
  <2>1. /\ i < now /\ \A y \in Revision : Said(f, i, y) => x = y
        /\ Pg /\ Exists(f) /\ file[f].updated = i => file[f].rev = x
    BY <1>4 DEF NamingInv, Naming
  <2>2. ASSUME Pg, Exists(f)', file'[f].updated = i PROVE file'[f] = file[f]
    BY <1>1, <2>1, <2>2
  <2> QED BY <1>1, <2>1, <2>2 DEF Exists
<1> QED BY <1>2, <1>3, <1>4 DEF NamingInv, Naming, Pg

LEMMA LocalNaming ==
  ASSUME NamingInv, TypeInv', NEW r \in Request, LocalDocument(r)
  PROVE  NamingInv'
<1>1. TypeOK /\ Local /\ ~ Pg /\ ~ Pg' /\ store' = store
  BY DEF NamingInv, TypeInv, LocalDocument, LocalSnapshot, LocalListVersions,
         LocalPruneVersions, LocalTruncate, LocalUpdateFile, LocalTruncateVersion,
         LocalLabelVersion, LocalCreateFile,
         LocalReadFile, LocalDeleteFile, LocalReadVersion, Local, Pg
<1>2. /\ now \in Nat /\ versions \in [File -> SUBSET Version]
      /\ edit \in [Request -> EditState] /\ edit[r] \in EditState /\ edit[r].file \in File
  BY <1>1 DEF TypeOK, Stamp, EditState
<1>3. Bystanders(r)
  BY <1>1, LeavesOthers
<1> DEFINE OldVersions == \A f \in File : \A v \in versions'[f] :
                            v.rev \in Revision => Said(f, v.id, v.rev)
           OldClaim == LET e == edit'[r]
                       IN  Claims(edit[r])' => Said(e.file, Named(e), e.read)
<1>4. ASSUME OldVersions, OldClaim, now <= now' PROVE NamingInv'
  <2>1. \A f \in File, i \in Nat, x \in Revision : Said(f, i, x)' => Said(f, i, x)
    BY <1>1, <1>3, <1>4, SaidOnly
  <2>2. SameName(edit[r])'
    BY <1>1 DEF SameName
  <2> QED BY <1>1, <1>3, <1>4, <2>1, <2>2, NamingAgain
<1>5. ASSUME versions' = versions PROVE OldVersions
  BY <1>5 DEF Said
<1>6. ASSUME edit'[r].stage \in {"idle", "read", "writing"} PROVE OldClaim
  BY <1>1, <1>6 DEF Claims, Snapped
<1>7. ASSUME edit[r].stage \in {"snapped", "listed"}, edit'[r].stage \in {"listed", "pruned"},
             edit'[r].file = edit[r].file, edit'[r].id = edit[r].id, edit'[r].read = edit[r].read
      PROVE  OldClaim
  BY <1>1, <1>7 DEF Claims, Named, Said, Snapped
<1>8. ASSUME edit'[r] = edit[r] PROVE OldClaim
  BY <1>1, <1>8 DEF Claims, Said
<1>9. CASE LocalSnapshot(r)
  <2> DEFINE g == edit[r].file
             n == [id |-> now, rev |-> edit[r].read, labelled |-> FALSE]
             new == {<<g, now, edit[r].read>>}
  <2>1. /\ versions' = Put(g, n) \/ versions' = versions
        /\ now' = now + 1 /\ edit'[r].file = g /\ edit'[r].id = now
        /\ edit'[r].read = edit[r].read /\ edit'[r].stage = "snapped"
    BY <1>2, <1>9 DEF LocalSnapshot, EditState
  <2>2. n \in Version /\ n.id = now /\ n.rev = edit[r].read
    BY <1>2 DEF Version, EditState, Stamp
  <2>3. ASSUME NEW f \in File, NEW v \in versions'[f]
        PROVE  Said(f, v.id, v.rev) \/ <<f, v.id, v.rev>> \in new
    <3>1. v \in versions[f] \/ (f = g /\ v = n)
      BY <1>1, <1>2, <2>1, <2>2, PutType
    <3> QED BY <2>2, <3>1 DEF Said
  <2>4. LET e == edit'[r] IN <<e.file, Named(e), e.read>> \in new
    BY <1>1, <2>1 DEF Named
  <2>5. ASSUME NEW f \in File, NEW i \in Nat, NEW x \in Revision, Said(f, i, x)'
        PROVE  Said(f, i, x) \/ (f = g /\ i = now /\ x = edit[r].read)
    <3>1. Said(f, i, x) \/ <<f, i, x>> \in new
      <4> HIDE DEF new
      <4> QED BY <1>1, <1>3, <2>3, <2>4, <2>5, SaidAgain
    <3> QED BY <3>1
  <2>6. ASSUME NEW f \in File, NEW i \in Nat, NEW x \in Revision, Said(f, i, x)'
        PROVE  i < now' /\ \A y \in Revision : Said(f, i, y)' => x = y
    <3>1. \A y \in Revision : Said(f, i, y) => i < now
      BY DEF NamingInv, Naming
    <3>2. i < now'
      BY <1>2, <2>1, <2>5, <2>6, <3>1
    <3>3. ASSUME NEW y \in Revision, Said(f, i, y)' PROVE x = y
      <4>1. CASE i = now
        BY <1>2, <2>5, <2>6, <3>1, <3>3, <4>1
      <4>2. CASE i # now
        <5>1. Said(f, i, x) /\ Said(f, i, y)
          BY <2>5, <2>6, <3>3, <4>2
        <5> QED BY <5>1 DEF NamingInv, Naming
      <4> QED BY <4>1, <4>2
    <3> QED BY <3>2, <3>3
  <2> QED BY <1>1, <2>6 DEF NamingInv, Naming, SameName
<1>10. CASE LocalListVersions(r)
  <2>1. /\ edit[r].stage = "snapped" /\ edit'[r].stage = "listed" /\ edit'[r].file = edit[r].file
        /\ edit'[r].id = edit[r].id /\ edit'[r].read = edit[r].read
        /\ versions' = versions /\ now' = now
    BY <1>2, <1>10 DEF LocalListVersions, EditState
  <2> QED BY <1>2, <1>4, <1>5, <1>7, <2>1
<1>11. CASE LocalPruneVersions(r)
  <2>1. /\ edit[r].stage = "listed" /\ edit'[r].stage = "pruned" /\ edit'[r].file = edit[r].file
        /\ edit'[r].id = edit[r].id /\ edit'[r].read = edit[r].read /\ now' = now
        /\ \A f \in File : versions'[f] \subseteq versions[f]
    BY <1>1, <1>2, <1>11, PruneGoesOn DEF LocalPruneVersions
  <2>2. OldVersions
    BY <2>1 DEF Said
  <2> QED BY <1>2, <1>4, <1>7, <2>1, <2>2
<1>12. CASE LocalTruncate(r)
  <2>1. edit'[r].stage = "writing" /\ versions' = versions /\ now' = now
    BY <1>1, <1>2, <1>12, RacedType DEF LocalTruncate, EditState
  <2> QED BY <1>2, <1>4, <1>5, <1>6, <2>1
<1>13. CASE LocalUpdateFile(r)
  <2>1. edit'[r] = NoEdit /\ versions' = versions /\ now' = now
    BY <1>1, <1>13, RacedType DEF LocalUpdateFile
  <2> QED BY <1>2, <1>4, <1>5, <1>6, <2>1, NoEditType
<1>14. CASE LocalTruncateVersion(r) \/ LocalLabelVersion(r)
  <2> DEFINE g == edit[r].file
  <2>1. PICK n \in Version : /\ n.id = edit[r].id /\ n.rev \in {edit[r].read, Torn, Garbled}
                             /\ versions' = Put(g, n)
    <3>1. ASSUME NEW x \in Revision \cup {Torn, Garbled}, NEW b \in BOOLEAN
          PROVE  LET n == [id |-> edit[r].id, rev |-> x, labelled |-> b]
                 IN  n \in Version /\ n.id = edit[r].id /\ n.rev = x
      BY <1>2 DEF Version, EditState
    <3>2. edit[r].read \in Revision
      BY <1>2 DEF EditState
    <3> QED BY <1>14, <3>1, <3>2 DEF LocalTruncateVersion, LocalLabelVersion
  <2>2. edit[r].stage \in {"label", "labelling"} /\ now' = now
    BY <1>14 DEF LocalTruncateVersion, LocalLabelVersion
  <2>3. Said(g, n.id, edit[r].read)
    BY <1>1, <2>1, <2>2 DEF Said, Claims, Named
  <2>4. ASSUME NEW f \in File, NEW v \in versions'[f], v.rev \in Revision
        PROVE  Said(f, v.id, v.rev)
    <3>1. v \in versions[f] \/ (f = g /\ v = n)
      BY <1>1, <1>2, <2>1, PutType
    <3>2. n.rev \in Revision => n.rev = edit[r].read
      BY <2>1, RevisionPlain
    <3> QED BY <2>3, <2>4, <3>1, <3>2 DEF Said
  <2>5. OldClaim
    <3>1. CASE LocalTruncateVersion(r)
      <4>1. /\ edit'[r].file = g /\ edit'[r].id = edit[r].id
            /\ edit'[r].read = edit[r].read
        BY <1>2, <3>1 DEF LocalTruncateVersion, EditState
      <4> QED BY <1>1, <2>1, <2>3, <4>1 DEF Named
    <3>2. CASE LocalLabelVersion(r)
      BY <1>2, <1>6, <3>2, NoEditType DEF LocalLabelVersion
    <3> QED BY <1>14, <3>1, <3>2
  <2>6. now <= now'
    BY <1>2, <2>2
  <2> HIDE DEF g
  <2> QED BY <1>4, <2>4, <2>5, <2>6
<1>15. ASSUME NEW f \in File, LocalCreateFile(r, f) PROVE NamingInv'
  <2>1. versions' = versions /\ edit' = edit /\ now <= now'
    BY <1>2, <1>15 DEF LocalCreateFile
  <2> QED BY <1>4, <1>5, <1>8, <2>1
<1>16. ASSUME NEW f \in File, LocalReadFile(r, f) PROVE NamingInv'
  <2>1. edit'[r].stage = "read" /\ versions' = versions /\ now' = now
    BY <1>2, <1>16, NoEditType DEF LocalReadFile, EditState
  <2> QED BY <1>2, <1>4, <1>5, <1>6, <2>1
<1>17. ASSUME NEW f \in File, LocalDeleteFile(r, f) PROVE NamingInv'
  <2>1. edit'[r] \in {NoEdit, edit[r]} /\ versions' = versions /\ now' = now
    BY <1>17 DEF LocalDeleteFile, Raced
  <2> QED BY <1>2, <1>4, <1>5, <1>6, <1>8, <2>1, NoEditType
<1>18. ASSUME NEW f \in File, LocalReadVersion(r, f) PROVE NamingInv'
  <2>1. PICK v \in versions[f] :
          edit' = [edit EXCEPT ![r] = [NoEdit EXCEPT !.stage = "label", !.file = f,
                                         !.id = v.id, !.read = v.rev]]
    BY <1>18 DEF LocalReadVersion, Readable
  <2>2. /\ edit'[r].file = f /\ edit'[r].id = v.id /\ edit'[r].read = v.rev
        /\ versions' = versions /\ now' = now
    BY <1>2, <1>18, <2>1, NoEditType DEF LocalReadVersion, EditState
  <2>3. OldClaim
    BY <1>1, <2>1, <2>2 DEF Named, Said
  <2> QED BY <1>2, <1>4, <1>5, <2>2, <2>3
<1> QED BY <1>9, <1>10, <1>11, <1>12, <1>13, <1>14, <1>15, <1>16, <1>17, <1>18
        DEF LocalDocument

LEMMA PgNaming ==
  ASSUME NamingInv, TypeInv', NEW r \in Request, PgDocument(r)
  PROVE  NamingInv'
<1>1. TypeOK /\ Pg /\ Pg' /\ store' = store
  BY DEF NamingInv, TypeInv, PgDocument, PgSnapshot, PgPruneVersions, PgUpdateFile, PgCreateFile,
         PgReadFile, PgDeleteFile, PgLabelVersion, Pg
<1>2. /\ now \in Nat /\ versions \in [File -> SUBSET Version] /\ file \in [File -> Stored]
      /\ edit \in [Request -> EditState] /\ edit[r] \in EditState /\ edit[r].file \in File
  BY <1>1 DEF TypeOK, Stamp, EditState
<1>3. Bystanders(r)
  BY <1>1, LeavesOthers
<1> DEFINE OldVersions == \A f \in File : \A v \in versions'[f] :
                            v.rev \in Revision => Said(f, v.id, v.rev)
           OldClaim == LET e == edit'[r]
                       IN  Claims(edit[r])' => Said(e.file, Named(e), e.read)
           Rewritten == \A f \in File : \/ file'[f] = file[f]
                                        \/ file'[f].updated = now
                                        \/ file'[f].updated = file[f].updated /\ ~ Exists(f)'
<1>4. ASSUME OldVersions, OldClaim, now' = now, Rewritten, SameName(edit[r])' PROVE NamingInv'
  <2>1. \A f \in File, i \in Nat, x \in Revision : Said(f, i, x)' => Said(f, i, x)
    BY <1>1, <1>3, <1>4, SaidOnly
  <2>2. now <= now'
    BY <1>2, <1>4
  <2> QED BY <1>1, <1>3, <1>4, <2>1, <2>2, NamingAgain
<1>5. ASSUME versions' = versions PROVE OldVersions
  BY <1>5 DEF Said
<1>6. ASSUME edit'[r].stage = "idle" PROVE OldClaim /\ SameName(edit[r])'
  BY <1>1, <1>6 DEF Claims, Before, SameName, Snapped
<1>7. ASSUME edit[r].stage \in Before, edit'[r].file = edit[r].file, edit'[r].at = edit[r].at,
             edit'[r].read = edit[r].read
      PROVE  OldClaim
  BY <1>1, <1>7 DEF Claims, Named, Said
<1>8. ASSUME edit'[r] = edit[r] PROVE OldClaim /\ SameName(edit[r])'
  BY <1>1, <1>8 DEF Claims, Said, NamingInv, SameName
<1>9. CASE PgSnapshot(r)
  <2> DEFINE g == edit[r].file
             n == [id |-> edit[r].at, rev |-> edit[r].read, labelled |-> FALSE]
  <2>1. /\ versions' = Put(g, n) \/ versions' = versions
        /\ now' = now /\ file' = file /\ edit'[r].file = g /\ edit'[r].id = edit[r].at
        /\ edit'[r].at = edit[r].at /\ edit'[r].read = edit[r].read /\ edit[r].stage = "read"
    BY <1>2, <1>9 DEF PgSnapshot, EditState
  <2>2. n \in Version
    BY <1>2 DEF Version, EditState, Stamp
  <2>3. Said(g, n.id, n.rev)
    BY <1>1, <2>1 DEF Said, Claims, Named, Before
  <2>4. ASSUME NEW f \in File, NEW v \in versions'[f] PROVE Said(f, v.id, v.rev)
    <3>1. v \in versions[f] \/ (f = g /\ v = n)
      BY <1>1, <1>2, <2>1, <2>2, PutType
    <3> QED BY <2>3, <3>1 DEF Said
  <2>5. SameName(edit[r])'
    BY <2>1 DEF SameName
  <2> QED BY <1>4, <1>7, <2>1, <2>4, <2>5 DEF Before
<1>10. CASE PgPruneVersions(r)
  <2>1. /\ edit[r].stage = "snapped" /\ edit'[r].file = edit[r].file
        /\ edit'[r].id = edit[r].id /\ edit'[r].read = edit[r].read
        /\ edit'[r].at = edit[r].at /\ now' = now /\ file' = file
        /\ \A f \in File : versions'[f] \subseteq versions[f]
    BY <1>2, <1>10 DEF PgPruneVersions, EditState
  <2>2. OldVersions
    BY <2>1 DEF Said
  <2>3. SameName(edit[r])'
    BY <1>1, <2>1 DEF SameName, NamingInv, Snapped
  <2> QED BY <1>4, <1>7, <2>1, <2>2, <2>3 DEF Before
<1>11. CASE PgUpdateFile(r)
  <2>1. edit'[r] = NoEdit /\ versions' = versions /\ now' = now
    BY <1>1, <1>11, RacedType DEF PgUpdateFile
  <2>2. Rewritten
    BY <1>2, <1>11 DEF PgUpdateFile
  <2> QED BY <1>4, <1>5, <1>6, <2>1, <2>2, NoEditType
<1>12. ASSUME NEW f \in File, PgCreateFile(r, f) PROVE NamingInv'
  <2>1. versions' = versions /\ edit' = edit /\ now' = now
    BY <1>12 DEF PgCreateFile
  <2>2. Rewritten
    BY <1>2, <1>12 DEF PgCreateFile
  <2> QED BY <1>4, <1>5, <1>8, <2>1, <2>2
<1>13. ASSUME NEW g \in File, PgReadFile(r, g) PROVE NamingInv'
  <2> DEFINE new == {<<g, file[g].updated, file[g].rev>>}
  <2>1. /\ Exists(g) /\ versions' = versions /\ file' = file /\ now' = now + 1
        /\ edit'[r].stage = "read" /\ edit'[r].file = g /\ edit'[r].at = file[g].updated
        /\ edit'[r].read = file[g].rev
    BY <1>2, <1>13, NoEditType DEF PgReadFile, EditState
  <2>2. \A f \in File : \A v \in versions'[f] : Said(f, v.id, v.rev)
    BY <2>1 DEF Said
  <2>3. LET e == edit'[r] IN <<e.file, Named(e), e.read>> \in new
    BY <1>1, <2>1 DEF Named
  <2>4. ASSUME NEW f \in File, NEW i \in Nat, NEW x \in Revision, Said(f, i, x)'
        PROVE  Said(f, i, x) \/ (f = g /\ i = file[g].updated /\ x = file[g].rev)
    <3>1. Said(f, i, x) \/ <<f, i, x>> \in new
      <4> HIDE DEF new
      <4> QED BY <1>1, <1>3, <2>2, <2>3, <2>4, SaidAgain
    <3> QED BY <3>1
  <2>5. \A f \in File : Timely(f) /\ file[f].updated \in Nat
    BY <1>1, <1>2 DEF NamingInv, Stored, Stamp
  <2>6. ASSUME NEW f \in File, NEW i \in Nat, NEW x \in Revision, Said(f, i, x)'
        PROVE  /\ i < now' /\ \A y \in Revision : Said(f, i, y)' => x = y
               /\ Exists(f) /\ file[f].updated = i => file[f].rev = x
    <3>1. \A y \in Revision : Said(f, i, y) =>
            /\ i < now /\ \A z \in Revision : Said(f, i, z) => y = z
            /\ Exists(f) /\ file[f].updated = i => file[f].rev = y
      BY <1>1 DEF NamingInv, Naming
    <3>2. i < now'
      <4>1. Said(f, i, x) => i < now
        BY <3>1
      <4>2. file[g].updated <= now /\ file[g].updated \in Nat
        BY <2>5 DEF Timely
      <4>3. i < now \/ i <= now
        BY <2>4, <2>6, <4>1, <4>2
      <4> QED BY <1>2, <2>1, <4>3
    <3>3. ASSUME NEW y \in Revision, Said(f, i, y)' PROVE x = y
      <4>1. CASE f = g /\ i = file[g].updated
        <5>1. file[g].rev = x
          BY <2>1, <2>4, <2>6, <3>1, <4>1
        <5>2. file[g].rev = y
          BY <2>1, <2>4, <3>1, <3>3, <4>1
        <5> QED BY <5>1, <5>2
      <4>2. CASE ~ (f = g /\ i = file[g].updated)
        <5>1. Said(f, i, x) /\ Said(f, i, y)
          BY <2>4, <2>6, <3>3, <4>2
        <5> QED BY <3>1, <5>1
      <4> QED BY <4>1, <4>2
    <3>4. Exists(f) /\ file[f].updated = i => file[f].rev = x
      BY <2>4, <2>6, <3>1
    <3> QED BY <3>2, <3>3, <3>4
  <2>7. Naming'
    BY <2>1, <2>6 DEF Naming, Exists
  <2>8. \A f \in File : Timely(f)'
    BY <1>2, <2>1, <2>5 DEF Timely
  <2>9. \A q \in Request : SameName(edit[q])'
    BY <1>1, <1>3, <2>1 DEF NamingInv, SameName, Bystanders, Same, Snapped
  <2> QED BY <2>7, <2>8, <2>9 DEF NamingInv
<1>14. ASSUME NEW f \in File, PgDeleteFile(r, f) PROVE NamingInv'
  <2>1. /\ versions' = [versions EXCEPT ![f] = {}] /\ file' = [file EXCEPT ![f].rev = Gone]
        /\ edit' = Raced(f, r, Before) /\ now' = now
    BY <1>14 DEF PgDeleteFile, Cascade
  <2>2. edit'[r] = edit[r]
    BY <2>1 DEF Raced
  <2>3. OldVersions
    BY <1>2, <2>1 DEF Said
  <2>4. Rewritten
    BY <1>2, <2>1 DEF Exists, Stored
  <2> QED BY <1>4, <1>8, <2>1, <2>2, <2>3, <2>4
<1>15. ASSUME NEW g \in File, PgLabelVersion(r, g) PROVE NamingInv'
  <2>1. PICK u \in versions[g] : versions' = Put(g, [u EXCEPT !.labelled = TRUE])
    BY <1>15 DEF PgLabelVersion
  <2> DEFINE n == [u EXCEPT !.labelled = TRUE]
  <2>2. u \in Version
    BY <1>2
  <2>3. n \in Version /\ n.id = u.id /\ n.rev = u.rev
    BY <2>2 DEF Version
  <2>4. edit' = edit /\ now' = now /\ file' = file
    BY <1>15 DEF PgLabelVersion
  <2>5. versions' = Put(g, n)
    BY <2>1
  <2> HIDE DEF n
  <2>6. ASSUME NEW f \in File, NEW v \in versions'[f] PROVE Said(f, v.id, v.rev)
    <3>1. v \in versions[f] \/ (f = g /\ v = n)
      BY <1>1, <1>2, <2>3, <2>5, PutType
    <3> QED BY <2>3, <3>1 DEF Said
  <2> QED BY <1>4, <1>8, <2>4, <2>6
<1> QED BY <1>9, <1>10, <1>11, <1>12, <1>13, <1>14, <1>15 DEF PgDocument

LEMMA NamingInvariance == Spec => []NamingInv
<1>1. Init /\ TypeInv => NamingInv
  <2> SUFFICES ASSUME Init, TypeInv PROVE NamingInv
    OBVIOUS
  <2>1. \A f \in File : file[f] \in {[rev |-> v, updated |-> 0] : v \in {Never, Original}}
    BY DEF Init
  <2>2. \A f \in File : \A i, x : ~ Said(f, i, x)
    BY NoEditType DEF Init, Said, Claims, Before, Snapped
  <2> QED BY <2>1, <2>2, NoEditType DEF Init, NamingInv, Naming, Timely, SameName, Snapped
<1>2. NamingInv /\ TypeInv' /\ [Next]_vars => NamingInv'
  <2> SUFFICES ASSUME NamingInv, TypeInv', [Next]_vars PROVE NamingInv'
    OBVIOUS
  <2>1. CASE UNCHANGED <<store, docVars>>
    BY <2>1 DEF NamingInv, Naming, Timely, SameName, Said, Claims, Named, Pg, Exists, docVars
  <2>2. CASE Next
    BY <2>1, <2>2, LocalNaming, PgNaming DEF Next, Access
  <2> QED BY <2>1, <2>2 DEF vars, docVars
<1> QED BY <1>1, <1>2, TypeInvariance, PTL DEF Spec

\* The snapshot that an update has stored is there, whatever it holds, or is old.
Recorded(e) ==
  e.stage \in Snapped /\ e.snapped /\ ~ e.raced =>
    Old(created[e.file], e.id) \/ \E v \in versions[e.file] : v.id = e.id

\* What a step may do to the history of f.
Preserved(f) ==
  /\ created[f] \subseteq created'[f]
  /\ \A v \in versions[f] : Old(created'[f], v.id) \/ \E w \in versions'[f] : w.id = v.id

LEMMA PruneOrPut ==
  ASSUME HistoryInv, HistoryInv', NEW f \in File, created[f] \subseteq created'[f],
         \/ versions'[f] = versions[f]
         \/ \E gone : /\ \A i \in gone : Old(created[f], i)
                      /\ versions'[f] = {v \in versions[f] : v.id \notin gone}
         \/ \E n : versions'[f] = {v \in versions[f] : v.id # n.id} \cup {n}
  PROVE  Preserved(f)
<1>1. /\ versions[f] \in SUBSET Version /\ created[f] \in SUBSET Nat /\ created'[f] \in SUBSET Nat
      /\ IsFiniteSet(created'[f]) /\ \A v \in versions[f] : v.id \in created[f] /\ v.id \in Nat
  BY DEF HistoryInv, TypeInv, TypeOK, Stamp, Histories, History
<1>2. ASSUME NEW i \in created[f], Old(created[f], i) PROVE Old(created'[f], i)
  BY <1>1, <1>2, OldGrows
<1>3. ASSUME NEW gone, \A i \in gone : Old(created[f], i),
             versions'[f] = {v \in versions[f] : v.id \notin gone}
      PROVE  Preserved(f)
  BY <1>1, <1>2, <1>3 DEF Preserved
<1>4. ASSUME NEW n, versions'[f] = {v \in versions[f] : v.id # n.id} \cup {n}
      PROVE  Preserved(f)
  BY <1>4 DEF Preserved
<1>5. CASE versions'[f] = versions[f]
  BY <1>5 DEF Preserved
<1> QED BY <1>3, <1>4, <1>5

LEMMA LocalPreserves ==
  ASSUME HistoryInv, HistoryInv', NEW r \in Request, LocalDocument(r), NEW f \in File
  PROVE  Preserved(f)
<1>1. TypeOK /\ Local /\ ~ Pg
  BY DEF HistoryInv, TypeInv, LocalDocument, LocalSnapshot, LocalListVersions,
         LocalPruneVersions, LocalTruncate, LocalUpdateFile, LocalTruncateVersion,
         LocalLabelVersion, LocalCreateFile,
         LocalReadFile, LocalDeleteFile, LocalReadVersion, Local, Pg
<1>2. /\ now \in Nat /\ versions \in [File -> SUBSET Version] /\ created \in [File -> SUBSET Nat]
      /\ edit[r] \in EditState /\ edit[r].file \in File
  BY <1>1 DEF TypeOK, Stamp, EditState
<1>3. CASE UNCHANGED <<versions, created>>
  BY <1>3, PruneOrPut
<1>4. CASE LocalSnapshot(r)
  <2> DEFINE g == edit[r].file
             n == [id |-> now, rev |-> edit[r].read, labelled |-> FALSE]
  <2>1. n \in Version /\ n.id = now
    BY <1>2 DEF Version, EditState, Stamp
  <2>2. \/ UNCHANGED <<versions, created>>
        \/ versions' = Put(g, n) /\ created' = [created EXCEPT ![g] = @ \cup {now}]
    BY <1>4 DEF LocalSnapshot
  <2>3. CASE versions' = Put(g, n) /\ created' = [created EXCEPT ![g] = @ \cup {now}]
    <3>1. created[f] \subseteq created'[f]
      BY <1>2, <2>3
    <3> HIDE DEF n
    <3>2. \/ versions'[f] = versions[f]
          \/ f = g /\ versions'[f] = {w \in versions[f] : w.id # n.id} \cup {n}
      BY <1>2, <2>1, <2>3 DEF Put
    <3> QED BY <2>1, <3>1, <3>2, PruneOrPut
  <2> QED BY <1>3, <2>2, <2>3
<1>5. CASE LocalPruneVersions(r)
  <2> DEFINE g == edit[r].file
  <2>1. PICK gone \in SUBSET edit[r].tail :
          versions' = [versions EXCEPT ![g] = {v \in @ : v.id \notin gone}]
    BY <1>5 DEF LocalPruneVersions
  <2>2. \A i \in gone : Old(created[g], i)
    BY <1>5 DEF LocalPruneVersions, HistoryInv, Listing
  <2>3. created' = created
    BY <1>5 DEF LocalPruneVersions
  <2>4. versions'[f] = IF f = g THEN {v \in versions[f] : v.id \notin gone} ELSE versions[f]
    BY <1>2, <2>1
  <2> QED BY <2>2, <2>3, <2>4, PruneOrPut
<1>6. CASE LocalTruncateVersion(r) \/ LocalLabelVersion(r)
  <2> DEFINE g == edit[r].file
  <2>1. PICK n : versions' = Put(g, n)
    BY <1>6 DEF LocalTruncateVersion, LocalLabelVersion
  <2>2. created' = created
    BY <1>6 DEF LocalTruncateVersion, LocalLabelVersion
  <2>3. \/ versions'[f] = versions[f]
        \/ f = g /\ versions'[f] = {w \in versions[f] : w.id # n.id} \cup {n}
    BY <1>2, <2>1 DEF Put
  <2> QED BY <2>2, <2>3, PruneOrPut
<1> QED BY <1>3, <1>4, <1>5, <1>6
        DEF LocalDocument, LocalListVersions, LocalTruncate, LocalUpdateFile, LocalCreateFile,
            LocalReadFile, LocalDeleteFile, LocalReadVersion

LEMMA PgPreserves ==
  ASSUME HistoryInv, HistoryInv', NEW r \in Request, PgDocument(r), NEW f \in File,
         ~ PgDeleteFile(r, f)
  PROVE  Preserved(f)
<1>1. TypeOK /\ Pg
  BY DEF HistoryInv, TypeInv, PgDocument, PgSnapshot, PgPruneVersions, PgUpdateFile, PgCreateFile,
         PgReadFile, PgDeleteFile, PgLabelVersion
<1>2. /\ now \in Nat /\ versions \in [File -> SUBSET Version] /\ created \in [File -> SUBSET Nat]
      /\ edit[r] \in EditState /\ edit[r].file \in File
  BY <1>1 DEF TypeOK, Stamp, EditState
<1>3. CASE versions'[f] = versions[f] /\ created[f] \subseteq created'[f]
  BY <1>3, PruneOrPut
<1>4. CASE PgSnapshot(r)
  <2> DEFINE g == edit[r].file
             n == [id |-> edit[r].at, rev |-> edit[r].read, labelled |-> FALSE]
  <2>1. n \in Version
    BY <1>2 DEF Version, EditState, Stamp
  <2>2. /\ versions' = versions \/ versions' = Put(g, n)
        /\ created' = created \/ created' = [created EXCEPT ![g] = @ \cup {n.id}]
        /\ edit[r].stage = "read"
    BY <1>4 DEF PgSnapshot
  <2>3. Said(g, n.id, n.rev)
    BY <1>1, <2>2 DEF Said, Claims, Named, Before
  <2> HIDE DEF n
  <2>4. created[f] \subseteq created'[f]
    BY <1>2, <2>2
  <2>5. \/ versions'[f] = versions[f]
        \/ f = g /\ versions'[f] = {w \in versions[f] : w.id # n.id} \cup {n}
    BY <1>1, <1>2, <2>1, <2>2, PutType
  <2> QED BY <2>1, <2>3, <2>4, <2>5, PruneOrPut
<1>5. CASE PgPruneVersions(r)
  <2> DEFINE g == edit[r].file
  <2>1. PICK gone \in {{}, Beyond(g)} :
          versions' = [versions EXCEPT ![g] = {v \in @ : v.id \notin gone}]
    BY <1>5 DEF PgPruneVersions
  <2>2. History(versions[g], created[g])
    BY <1>2 DEF HistoryInv, Histories
  <2>3. \A i \in gone : Old(created[g], i)
    BY <1>2, <2>2, BeyondOld
  <2>4. created' = created
    BY <1>5 DEF PgPruneVersions
  <2>5. versions'[f] = IF f = g THEN {v \in versions[f] : v.id \notin gone} ELSE versions[f]
    BY <1>2, <2>1
  <2> QED BY <2>3, <2>4, <2>5, PruneOrPut
<1>6. ASSUME NEW g \in File, PgLabelVersion(r, g) PROVE Preserved(f)
  <2>1. PICK u \in versions[g] : versions' = Put(g, [u EXCEPT !.labelled = TRUE])
    BY <1>6 DEF PgLabelVersion
  <2> DEFINE n == [u EXCEPT !.labelled = TRUE]
  <2>2. u \in Version /\ created' = created
    BY <1>2, <1>6 DEF PgLabelVersion
  <2>3. n \in Version /\ n.id = u.id /\ n.rev = u.rev
    BY <2>2 DEF Version
  <2>4. versions' = Put(g, n)
    BY <2>1
  <2> HIDE DEF n
  <2>5. Said(g, n.id, n.rev)
    BY <2>3 DEF Said
  <2>6. \/ versions'[f] = versions[f]
        \/ f = g /\ versions'[f] = {w \in versions[f] : w.id # n.id} \cup {n}
    BY <1>2, <2>3, <2>4 DEF Put
  <2> QED BY <2>2, <2>3, <2>5, <2>6, PruneOrPut
<1>7. ASSUME NEW g \in File, PgDeleteFile(r, g) PROVE Preserved(f)
  <2>1. /\ f # g /\ versions' = [versions EXCEPT ![g] = {}]
        /\ created' = [created EXCEPT ![g] = {}]
    BY <1>7 DEF PgDeleteFile, Cascade
  <2> QED BY <1>2, <1>3, <2>1
<1> QED BY <1>3, <1>4, <1>5, <1>6, <1>7
        DEF PgDocument, PgUpdateFile, PgCreateFile, PgReadFile

\* An update that goes on still has its snapshot.
LEMMA RecordedKept ==
  ASSUME HistoryInv, HistoryInv', NEW q \in Request, edit[q].stage \in Snapped,
         Recorded(edit[q]), edit'[q].file = edit[q].file, edit'[q].id = edit[q].id,
         edit'[q].snapped = edit[q].snapped,
         edit[q].raced => edit'[q].raced,
         ~ edit'[q].raced => Preserved(edit[q].file)
  PROVE  Recorded(edit[q])'
<1> DEFINE f == edit[q].file
<1>1. f \in File /\ edit[q].id \in Nat
  BY DEF HistoryInv, TypeInv, TypeOK, EditState, Stamp
<1>2. /\ created[f] \in SUBSET Nat /\ created'[f] \in SUBSET Nat /\ IsFiniteSet(created'[f])
  BY <1>1 DEF HistoryInv, TypeInv, TypeOK, Stamp, Histories, History
<1> SUFFICES ASSUME edit[q].snapped, ~ edit'[q].raced, ~ edit[q].raced
             PROVE  \/ Old(created'[f], edit[q].id)
                    \/ \E v \in versions'[f] : v.id = edit[q].id
  BY DEF Recorded
<1>3. Preserved(f)
  OBVIOUS
<1>4. CASE Old(created[f], edit[q].id)
  <2>1. created[f] \subseteq created'[f]
    BY <1>3 DEF Preserved
  <2> HIDE DEF f
  <2>2. Old(created'[f], edit[q].id)
    BY <1>1, <1>2, <1>4, <2>1, OldGrows
  <2> QED BY <2>2
<1>5. ASSUME NEW v \in versions[f], v.id = edit[q].id
      PROVE  Old(created'[f], edit[q].id) \/ \E w \in versions'[f] : w.id = edit[q].id
  BY <1>3, <1>5 DEF Preserved
<1> QED BY <1>4, <1>5 DEF Recorded

OverwriteInv == HistoryInv /\ CurrentInv /\ NamingInv /\ \A r \in Request : Recorded(edit[r])

LEMMA OwnRecorded ==
  ASSUME OverwriteInv, HistoryInv', NEW r \in Request, LocalDocument(r) \/ PgDocument(r)
  PROVE  Recorded(edit[r])'
<1>1. /\ HistoryInv /\ NamingInv /\ TypeOK /\ Begun /\ Recorded(edit[r])
      /\ now \in Nat /\ versions \in [File -> SUBSET Version]
      /\ edit \in [Request -> EditState] /\ edit[r] \in EditState /\ edit[r].file \in File
  BY DEF OverwriteInv, HistoryInv, CurrentInv, TypeInv, TypeOK, EditState, Stamp
<1>2. ASSUME edit'[r].stage \notin Snapped PROVE Recorded(edit[r])'
  BY <1>2 DEF Recorded
<1>3. ASSUME Make(r), edit'[r] = edit[r] PROVE Recorded(edit[r])'
  <2>1. edit'[r].stage = "idle"
    BY <1>1, <1>3 DEF Begun, Make
  <2> QED BY <1>2, <2>1 DEF Snapped
<1>4. CASE LocalSnapshot(r)
  <2> DEFINE f == edit[r].file
             v == [id |-> now, rev |-> edit[r].read, labelled |-> FALSE]
  <2>1. v \in Version /\ v.id = now /\ v.rev = edit[r].read
    BY <1>1 DEF Version, EditState, Stamp
  <2>2. PICK stored \in BOOLEAN :
          /\ versions' = IF stored THEN Put(f, v) ELSE versions
          /\ edit' = [edit EXCEPT ![r].stage = "snapped", ![r].snapped = stored, ![r].id = now]
    BY <1>4 DEF LocalSnapshot
  <2>3. /\ edit'[r].snapped = stored /\ edit'[r].file = f /\ edit'[r].id = now
        /\ edit'[r].read = edit[r].read
    BY <1>1, <2>2 DEF EditState
  <2> HIDE DEF v
  <2>4. stored => v \in versions'[f]
    BY <1>1, <2>1, <2>2, PutType
  <2> QED BY <2>1, <2>3, <2>4 DEF Recorded
<1>5. CASE PgSnapshot(r)
  <2> DEFINE f == edit[r].file
             v == [id |-> edit[r].at, rev |-> edit[r].read, labelled |-> FALSE]
  <2>1. v \in Version /\ v.id = edit[r].at /\ v.rev = edit[r].read
    BY <1>1 DEF Version, EditState, Stamp
  <2>2. PICK stored \in BOOLEAN :
          /\ versions' = IF stored /\ \A w \in versions[f] : w.id # v.id
                           THEN Put(f, v) ELSE versions
          /\ edit' = [edit EXCEPT ![r].stage = "snapped", ![r].snapped = stored, ![r].id = v.id]
    BY <1>5 DEF PgSnapshot
  <2>3. Pg /\ edit[r].stage = "read"
    BY <1>5 DEF PgSnapshot
  <2> HIDE DEF v
  <2>4. /\ edit'[r].snapped = stored /\ edit'[r].file = f /\ edit'[r].id = v.id
        /\ edit'[r].read = v.rev
    BY <1>1, <2>1, <2>2 DEF EditState
  <2>5. CASE stored /\ \A w \in versions[f] : w.id # v.id
    <3>1. v \in versions'[f]
      BY <1>1, <2>1, <2>2, <2>5, PutType
    <3> QED BY <2>4, <3>1 DEF Recorded
  <2>6. ASSUME NEW w \in versions[f], w.id = v.id, versions' = versions
        PROVE  Recorded(edit[r])'
    BY <2>4, <2>6 DEF Recorded
  <2>7. CASE ~ stored
    BY <2>4, <2>7 DEF Recorded
  <2> QED BY <2>2, <2>5, <2>6, <2>7
<1>6. CASE LocalListVersions(r) \/ LocalPruneVersions(r) \/ PgPruneVersions(r)
  <2>1. /\ edit[r].stage \in Snapped /\ edit'[r].file = edit[r].file
        /\ edit'[r].id = edit[r].id /\ edit'[r].read = edit[r].read
        /\ edit'[r].snapped = edit[r].snapped /\ edit'[r].raced = edit[r].raced
    <3>1. CASE LocalPruneVersions(r)
      BY <1>1, <3>1, PruneGoesOn DEF Snapped
    <3>2. CASE LocalListVersions(r) \/ PgPruneVersions(r)
      BY <1>1, <3>2 DEF LocalListVersions, PgPruneVersions, EditState, Snapped
    <3> QED BY <1>6, <3>1, <3>2
  <2>2. ~ PgDeleteFile(r, edit[r].file)
    BY <1>1, <2>1 DEF PgDeleteFile, Make, Begun, Snapped
  <2>3. Preserved(edit[r].file)
    BY <1>1, <2>2, LocalPreserves, PgPreserves
  <2> QED BY <1>1, <2>1, <2>3, RecordedKept
<1>7. CASE LocalTruncate(r)
  <2>1. edit'[r].stage = "writing"
    BY <1>1, <1>7, RacedType DEF LocalTruncate, EditState
  <2> QED BY <1>2, <2>1 DEF Snapped
<1>8. CASE LocalUpdateFile(r) \/ PgUpdateFile(r) \/ LocalLabelVersion(r)
  <2>1. edit'[r] = NoEdit
    BY <1>1, <1>8, RacedType DEF LocalUpdateFile, PgUpdateFile, LocalLabelVersion
  <2> QED BY <1>2, <2>1, NoEditType DEF Snapped
<1>12. CASE LocalTruncateVersion(r)
  <2>1. edit'[r].stage = "labelling"
    BY <1>1, <1>12 DEF LocalTruncateVersion, EditState
  <2> QED BY <1>2, <2>1 DEF Snapped
<1>9. ASSUME NEW f \in File,
             LocalCreateFile(r, f) \/ PgCreateFile(r, f) \/ PgLabelVersion(r, f)
      PROVE  Recorded(edit[r])'
  BY <1>3, <1>9 DEF LocalCreateFile, PgCreateFile, PgLabelVersion
<1>10. ASSUME NEW f \in File, LocalReadFile(r, f) \/ PgReadFile(r, f) \/ LocalReadVersion(r, f)
       PROVE  Recorded(edit[r])'
  <2>1. CASE LocalReadFile(r, f)
    <3>1. edit'[r].stage = "read"
      BY <1>1, <2>1, NoEditType DEF LocalReadFile, EditState
    <3> QED BY <1>2, <3>1 DEF Snapped
  <2>2. CASE PgReadFile(r, f)
    <3>1. edit'[r].stage = "read"
      BY <1>1, <2>2, NoEditType DEF PgReadFile, EditState
    <3> QED BY <1>2, <3>1 DEF Snapped
  <2>3. CASE LocalReadVersion(r, f)
    <3>1. edit'[r].stage = "label"
      BY <1>1, <2>3, NoEditType DEF LocalReadVersion, EditState
    <3> QED BY <1>2, <3>1 DEF Snapped
  <2> QED BY <1>10, <2>1, <2>2, <2>3
<1>11. ASSUME NEW f \in File, LocalDeleteFile(r, f) \/ PgDeleteFile(r, f)
       PROVE  Recorded(edit[r])'
  <2>1. edit'[r] \in {NoEdit, edit[r]} /\ Make(r)
    BY <1>11 DEF LocalDeleteFile, PgDeleteFile, Raced
  <2> QED BY <1>2, <1>3, <2>1, NoEditType DEF Snapped
<1> QED BY <1>4, <1>5, <1>6, <1>7, <1>8, <1>9, <1>10, <1>11, <1>12 DEF LocalDocument, PgDocument

LEMMA OthersRecorded ==
  ASSUME OverwriteInv, HistoryInv', NEW r \in Request, LocalDocument(r) \/ PgDocument(r),
         NEW q \in Request \ {r}
  PROVE  Recorded(edit[q])'
<1>1. HistoryInv /\ NamingInv /\ TypeOK /\ Recorded(edit[q]) /\ edit[q].file \in File
  BY DEF OverwriteInv, HistoryInv, TypeInv, TypeOK, EditState
<1>2. CASE edit'[q].stage \notin Snapped
  BY <1>2 DEF Recorded
<1>3. CASE Same(q) /\ edit'[q].stage \in Snapped
  <2>1. ASSUME PgDeleteFile(r, edit[q].file) PROVE edit'[q].raced
    <3>1. edit'[q] = Raced(edit[q].file, r, Before)[q]
      BY <2>1 DEF PgDeleteFile
    <3>2. Busy(q, edit[q].file, Before)
      BY <1>3 DEF Busy, Same, Snapped, Before
    <3> QED BY <1>1, <3>1, <3>2, RacedSame
  <2>2. ~ edit'[q].raced => Preserved(edit[q].file)
    BY <1>1, <2>1, LocalPreserves, PgPreserves
  <2> QED BY <1>1, <1>3, <2>2, RecordedKept DEF Same
<1>4. Bystanders(r)
  BY <1>1, LeavesOthers
<1> QED BY <1>2, <1>3, <1>4 DEF Bystanders, Snapped

LEMMA OverwriteInvariance == Spec => []OverwriteInv
<1>1. Init /\ HistoryInv /\ CurrentInv /\ NamingInv => OverwriteInv
  BY NoEditType DEF Init, OverwriteInv, Recorded, Snapped
<1>2. OverwriteInv /\ HistoryInv' /\ CurrentInv' /\ NamingInv' /\ [Next]_vars => OverwriteInv'
  <2> SUFFICES ASSUME OverwriteInv, HistoryInv', CurrentInv', NamingInv', [Next]_vars
               PROVE  \A q \in Request : Recorded(edit[q])'
    BY DEF OverwriteInv
  <2>1. CASE UNCHANGED docVars
    BY <2>1 DEF OverwriteInv, Recorded, docVars
  <2>2. ASSUME NEW r \in Request, LocalDocument(r) \/ PgDocument(r)
        PROVE  \A q \in Request : Recorded(edit[q])'
    BY <2>2, OwnRecorded, OthersRecorded
  <2> QED BY <2>1, <2>2 DEF Next, Access, vars, docVars
<1> QED BY <1>1, <1>2, HistoryInvariance, CurrentInvariance, NamingInvariance, PTL DEF Spec

\* What the snapshot of an update that is to overwrite the file holds.
LEMMA PrunedRecorded ==
  ASSUME OverwriteInv, NEW r \in Request, edit[r].stage = "pruned", edit[r].snapped,
         ~ edit[r].raced
  PROVE  LET f == edit[r].file
         IN  \/ \E v \in versions[f] :
                  v.rev = file[f].rev \/ (v.id = edit[r].id /\ v.rev \in {Torn, Garbled})
             \/ Cardinality({v \in versions[f] : v.id > edit[r].id}) >= VersionCap
<1> DEFINE f == edit[r].file
           i == edit[r].id
<1>1. /\ f \in File /\ i \in Nat /\ versions[f] \in SUBSET Version
      /\ created[f] \in SUBSET Nat /\ edit[r].read \in Revision
  BY DEF OverwriteInv, HistoryInv, TypeInv, TypeOK, EditState, Stamp
<1>2. file[f].rev = edit[r].read
  BY DEF OverwriteInv, CurrentInv, Current, Before
<1>3. ASSUME NEW v \in versions[f], v.id = i
      PROVE  v.rev = file[f].rev \/ v.rev \in {Torn, Garbled}
  <2>1. v.rev \in Revision \cup {Torn, Garbled}
    BY <1>1 DEF Version
  <2>2. ASSUME v.rev \in Revision PROVE v.rev = edit[r].read
    <3>1. Said(f, i, v.rev)
      BY <1>3 DEF Said
    <3>2. Claims(edit[r]) /\ Named(edit[r]) = i
      BY DEF OverwriteInv, NamingInv, SameName, Claims, Named, Before, Snapped
    <3>3. Said(f, i, edit[r].read)
      BY <3>2 DEF Said
    <3> HIDE DEF f, i
    <3> QED BY <1>1, <2>2, <3>1, <3>3 DEF OverwriteInv, NamingInv, Naming
  <2> QED BY <1>2, <2>1, <2>2
<1>4. CASE Old(created[f], i)
  <2>1. History(versions[f], created[f])
    BY <1>1 DEF OverwriteInv, HistoryInv, Histories
  <2> HIDE DEF f, i
  <2>2. Cardinality({v \in versions[f] : v.id > i}) >= VersionCap
    BY <1>1, <1>4, <2>1, OldHasVersions
  <2> QED BY <2>2 DEF f, i
<1>5. CASE \E v \in versions[f] : v.id = i
  BY <1>3, <1>5
<1> QED BY <1>4, <1>5 DEF OverwriteInv, Recorded, Snapped

\* UpdateFile overwrites nothing that is not in the history, or older than VersionCap
\* versions of it, but for what comes between its steps, for a snapshot that failed and
\* for one that a labelling has made unreadable.
THEOREM OverwrittenIsRecorded == Spec => SnapshotBeforeOverwrite
<1> DEFINE Safe(r) ==
      LET f == edit[r].file IN
      /\ edit[r].stage = "pruned" /\ edit'[r].stage # "pruned" /\ Exists(f)
      /\ edit[r].snapped /\ ~ edit[r].raced
      => \/ \E v \in versions'[f] :
              v.rev = file[f].rev \/ (v.id = edit[r].id /\ v.rev \in {Torn, Garbled})
         \/ Cardinality({v \in versions[f] : v.id > edit[r].id}) >= VersionCap
<1>1. ASSUME OverwriteInv, Next, NEW r \in Request PROVE Safe(r)
  <2> SUFFICES ASSUME edit[r].stage = "pruned", edit'[r].stage # "pruned", edit[r].snapped,
                      ~ edit[r].raced
               PROVE  versions' = versions
    BY <1>1, PrunedRecorded
  <2>1. CASE UNCHANGED docVars
    BY <2>1 DEF docVars
  <2>2. ASSUME NEW p \in Request, LocalDocument(p) \/ PgDocument(p) PROVE versions' = versions
    <3>1. TypeOK /\ Begun
      BY <1>1 DEF OverwriteInv, CurrentInv, TypeInv
    <3>2. CASE p # r
      <4>1. edit'[r].stage = "idle"
        BY <2>2, <3>1, <3>2, LeavesOthers DEF Bystanders, Same
      <4>2. LocalTruncate(p) \/ LocalUpdateFile(p) \/ PgUpdateFile(p)
            \/ (\E f \in File : LocalDeleteFile(p, f) \/ PgDeleteFile(p, f))
            \/ edit'[r] = edit[r]
        BY <2>2, <3>1, <3>2
           DEF LocalDocument, LocalSnapshot, LocalListVersions, LocalPruneVersions,
               LocalTruncateVersion, LocalLabelVersion, LocalCreateFile, LocalReadFile,
               LocalReadVersion, Busy, PgDocument, PgSnapshot, PgPruneVersions, PgCreateFile, PgReadFile,
               PgLabelVersion, TypeOK
      <4>3. ASSUME NEW f \in File, PgDeleteFile(p, f) PROVE FALSE
        <5>1. edit' = Raced(f, p, Before)
          BY <4>3 DEF PgDeleteFile
        <5> QED BY <3>1, <4>1, <5>1, RacedSame
      <4> QED BY <4>1, <4>2, <4>3
              DEF LocalTruncate, LocalUpdateFile, PgUpdateFile, LocalDeleteFile
    <3>3. CASE p = r
      <4>1. r \notin pending
        BY <3>1 DEF Begun
      <4> QED BY <2>2, <3>3, <4>1
              DEF LocalDocument, LocalSnapshot, LocalListVersions, LocalPruneVersions,
                  LocalTruncate, LocalUpdateFile, LocalTruncateVersion, LocalLabelVersion,
                  LocalCreateFile,
                  LocalReadFile, LocalDeleteFile, LocalReadVersion, PgDocument, PgSnapshot,
                  PgPruneVersions, PgUpdateFile, PgCreateFile, PgReadFile, PgDeleteFile,
                  PgLabelVersion, Make
    <3> QED BY <3>2, <3>3
  <2> QED BY <1>1, <2>1, <2>2 DEF Next, Access
<1>2. OverwriteInv /\ [Next]_vars => [\A r \in Request : Safe(r)]_vars
  BY <1>1
<1> QED BY <1>2, OverwriteInvariance, PTL DEF Spec, SnapshotBeforeOverwrite

----------------------------------------------------------------------------
LEMMA FilesStoreStays == Next => store' = store
<1> SUFFICES ASSUME NEW r \in Request, Access(r) \/ LocalDocument(r) \/ PgDocument(r)
             PROVE  store' = store
  BY DEF Next
<1>1. CASE Access(r)
  BY <1>1 DEF Access
<1>2. CASE LocalDocument(r)
  BY <1>2 DEF LocalDocument, LocalSnapshot, LocalListVersions, LocalPruneVersions, LocalTruncate,
              LocalUpdateFile, LocalTruncateVersion, LocalLabelVersion, LocalCreateFile,
              LocalReadFile, LocalDeleteFile, LocalReadVersion
<1>3. CASE PgDocument(r)
  BY <1>3 DEF PgDocument, PgSnapshot, PgPruneVersions, PgUpdateFile, PgCreateFile, PgReadFile,
              PgDeleteFile, PgLabelVersion
<1> QED BY <1>1, <1>2, <1>3

LEMMA RecordsStoreStays == RecordsNext => store' = store
<1> SUFFICES ASSUME NEW r \in Request,
                    \/ LocalSigning(r) \/ LocalComments(r) \/ LocalReplies(r) \/ LocalSuggestions(r)
                    \/ PgSigning(r) \/ PgComments(r) \/ PgReplies(r) \/ PgSuggestions(r)
             PROVE  store' = store
  BY DEF RecordsNext
<1>1. CASE LocalSigning(r)
  BY <1>1 DEF LocalSigning, LocalCreateEnvelope, LocalGetEnvelope, LocalUpdateEnvelope,
              LocalDeleteEnvelope, LocalUpsertSigner, LocalAppendAuditEvent, LocalStoreSealedPDF,
              LocalGetSigner, LocalStoreSignerToken, LocalStatEvent
<1>2. CASE LocalComments(r) \/ LocalReplies(r) \/ LocalSuggestions(r)
  BY <1>2 DEF LocalComments, LocalReplies, LocalSuggestions, LocalCreate, LocalGet, LocalUpdate,
              LocalUpdateReply, LocalCreateSuggestion, LocalDelete
<1>3. CASE PgSigning(r)
  BY <1>3 DEF PgSigning, PgCreateEnvelope, PgGetEnvelope, PgUpdateEnvelope, PgUpsertSigner,
              PgDeleteEnvelope, PgStoreSealedPDF, PgAppendAuditEvent, PgStoreSignerToken
<1>4. CASE PgComments(r) \/ PgReplies(r) \/ PgSuggestions(r)
  BY <1>4 DEF PgComments, PgReplies, PgSuggestions, PgUpsert, PgDelete, PgCreateSuggestion,
              PgUpdateSuggestion
<1> QED BY <1>1, <1>2, <1>3, <1>4

\* Both halves, as the run composes them: all keeps its types, whichever half moves.
THEOREM HalvesTyped == MCSpec => []DocumentsTypeOK
<1> DEFINE Both == AclInv /\ TypeInv /\ RecordsInv
<1>1. MCInit => Both
  <2> SUFFICES ASSUME MCInit PROVE Both
    OBVIOUS
  <2>1. AclInv /\ TypeInv
    BY InitAcl, InitTyped DEF MCInit
  <2>2. CASE half = "records"
    BY <2>1, <2>2, InitRecords DEF MCInit
  <2>3. CASE half # "records"
    <3>1. RecordsTypeOK
      BY <2>1, <2>3, NoDraftType DEF MCInit, TypeInv, TypeOK, AclTypeOK, RecordsTypeOK
    <3>2. \A r \in Request : Aware(draft[r])
      BY <2>3, NoDraftType DEF MCInit, Aware
    <3> QED BY <2>1, <3>1, <3>2 DEF RecordsInv
  <2> QED BY <2>2, <2>3
<1>2. Both /\ [MCNext]_<<vars, recordVars, half>> => Both'
  <2> SUFFICES ASSUME Both, [MCNext]_<<vars, recordVars, half>> PROVE Both'
    OBVIOUS
  <2>1. CASE Next /\ UNCHANGED recordVars
    <3>1. AclInv' /\ TypeInv'
      BY <2>1, StepAcl, StepTyped DEF AclInv
    <3>2. store' = store /\ pending' \subseteq Request
      BY <3>1, <2>1, FilesStoreStays DEF AclInv, AclTypeOK
    <3>3. RecordsInv'
      BY <2>1, <3>2 DEF recordVars, RecordsInv, RecordsTypeOK, Aware, Pg, Local
    <3> QED BY <3>1, <3>3
  <2>2. CASE RecordsNext /\ UNCHANGED <<aclVars, docVars>>
    <3>1. RecordsInv'
      BY <2>2, StepRecords
    <3>2. store' = store /\ pending' \subseteq Request
      BY <3>1, <2>2, RecordsStoreStays DEF RecordsInv, RecordsTypeOK
    <3>3. AclInv'
      BY <2>2, <3>2 DEF aclVars, AclInv, AclTypeOK, Checked
    <3>4. TypeInv'
      BY <2>2, <3>2, <3>3 DEF aclVars, docVars, AclInv, TypeInv, TypeOK, Pg
    <3> QED BY <3>1, <3>3, <3>4
  <2>3. CASE UNCHANGED <<vars, recordVars, half>>
    BY <2>3, StepAcl, StepTyped, StepRecords
       DEF vars, recordVars, allVars, AclInv
  <2> QED BY <2>1, <2>2, <2>3 DEF MCNext
<1>3. Both => DocumentsTypeOK
  BY DEF TypeInv, RecordsInv, DocumentsTypeOK
<1> QED BY <1>1, <1>2, <1>3, PTL DEF MCSpec

============================================================================
