--------------------------- MODULE DocumentRecords ---------------------------
(***************************************************************************)
(* What the document storage keeps beside files: one signing envelope with *)
(* its signers, audit events, tokens and sealed PDF, and one comment,      *)
(* reply and suggestion.                                                   *)
(*                                                                         *)
(* LocalStorage has a JSON file for each; an update reads it, empties it   *)
(* and writes it, in three steps.  PostgresStorage updates a row in one    *)
(* statement, but has the signers inside the envelope's row, which is read *)
(* and written back.                                                       *)
(***************************************************************************)
EXTENDS DocumentRequests

CONSTANTS
  Signer,  \* signers of the envelope
  Event,   \* ids of audit events; a caller that retries reuses its id
  Token    \* tokens of signing links

ASSUME SignerAssumption == Signer # {} /\ Event # {}

VARIABLES
  envelope,  \* what is stored of the envelope but its signers
  signer,    \* signer[s]: the upsert that stored s, or what is left of one
  audit,     \* audit[v]: the request that appended v, or what is left of it
  token,     \* token[t]: the signer that t stands for, or Never
  sealed,    \* the request that stored the sealed PDF, or Never
  note,      \* note[k]: what is stored of the comment, the reply, the suggestion
  draft      \* draft[r]: an update under way

recordVars == <<envelope, signer, audit, token, sealed, note, draft>>
allVars == <<store, pending, envelope, signer, audit, token, sealed, note, draft>>

Kind == {"comment", "reply", "suggestion"}

Lost == {Torn, Garbled}

NoDraft == [of |-> "nothing", stage |-> "read", raced |-> FALSE, kind |-> "comment",
            signers |-> [s \in Signer |-> Never],
            about |-> CHOOSE s \in Signer : TRUE, event |-> CHOOSE v \in Event : TRUE,
            stale |-> {}, deleted |-> FALSE]

\* of: what is updated.  stage: the record is read; UpdateEnvelope has found it once more;
\* its file is emptied.  raced: another writer of the file has finished since.  about, kind,
\* event: which signer, note or event.  signers: those read with the envelope.  stale,
\* deleted: history, signers stored and whether the record was deleted since the read.
Draft ==
  [of : {"nothing", "envelope", "signer", "event", "note"}, stage : {"read", "found", "writing"},
   raced : BOOLEAN, kind : Kind, signers : [Signer -> Revision \cup {Never} \cup Lost],
   about : Signer, event : Event, stale : SUBSET Signer, deleted : BOOLEAN]

RecordsTypeOK ==
  /\ store \in Store
  /\ pending \subseteq Request
  /\ envelope \in Revision \cup {Never, Gone} \cup Lost
  /\ signer \in [Signer -> Revision \cup {Never} \cup Lost]
  /\ audit \in [Event -> Request \cup {Never, Torn}]
  /\ token \in [Token -> Signer \cup {Never, Torn}]
  /\ sealed \in Request \cup {Never, Torn}
  /\ note \in [Kind -> Revision \cup {Never, Gone} \cup Lost]
  /\ draft \in [Request -> Draft]

\* A file, decodable or not, or a row.
Present(x) == x \notin {Never, Gone}

\* An envelope with or without signers, and notes, are there already or not.
RecordsInit ==
  /\ store \in {"sqlite", "postgres"}
  /\ pending = Request
  /\ envelope \in {Never, Original}
  /\ \E v \in {Never, Original} :
       signer = [s \in Signer |-> IF envelope = Never THEN Never ELSE v]
  /\ audit = [v \in Event |-> Never]
  /\ token = [t \in Token |-> Never]
  /\ sealed = Never
  /\ \E v \in {Never, Original} : note = [k \in Kind |-> v]
  /\ draft = [r \in Request |-> NoDraft]

\* Whoever has read signers that change now is going to write back what is out of date.
Stale(signers, d) == [q \in Request |->
  IF d[q].of \in {"envelope", "signer"}
    THEN [d[q] EXCEPT !.stale = @ \cup {s \in Signer : signers[s] # signer[s]}] ELSE d[q]]

\* Drafts of what is deleted now: a write that has begun goes to no file any more.
Orphaned(of, k, d) == [q \in Request |->
  IF d[q].of # of \/ d[q].kind # k THEN d[q]
  ELSE IF d[q].stage = "writing" THEN NoDraft ELSE [d[q] EXCEPT !.deleted = TRUE]]

\* WriteFile in LocalStorage: it empties the file, and writes it; what others have written
\* in between may show through.
Opens(r, stage) ==
  draft[r].stage = stage /\ draft' = [draft EXCEPT ![r].stage = "writing"]

Written(r) == {r} \cup (IF draft[r].raced THEN {Garbled} ELSE {})

Writes(r) ==
  LET same(q) == draft[q].of = draft[r].of /\ draft[q].kind = draft[r].kind
                   /\ draft[q].about = draft[r].about
  IN  /\ draft[r].stage = "writing"
      /\ draft' = [q \in Request |->
           IF q = r THEN NoDraft
           ELSE IF same(q) /\ draft[q].stage = "writing" THEN [draft[q] EXCEPT !.raced = TRUE]
           ELSE draft[q]]

----------------------------------------------------------------------------
\* Envelopes and signers, LocalStorage

LocalCreateEnvelope(r) ==
  /\ Local /\ envelope = Never /\ Make(r)
  /\ envelope' = r
  /\ UNCHANGED <<store, signer, audit, token, sealed, note, draft>>

\* A caller reads the envelope that it is going to update.
LocalGetEnvelope(r) ==
  /\ Local /\ envelope \in Revision /\ Make(r)
  /\ draft' = [draft EXCEPT ![r] = [NoDraft EXCEPT !.of = "envelope"]]
  /\ UNCHANGED <<store, envelope, signer, audit, token, sealed, note>>

\* UpdateEnvelope: not without what can be read; then it is written, deleted meanwhile
\* or not.
LocalUpdateEnvelope(r) ==
  /\ Local /\ draft[r].of = "envelope"
  /\ \/ /\ draft[r].stage = "read" /\ envelope \in Revision
        /\ draft' = [draft EXCEPT ![r].stage = "found"]
        /\ UNCHANGED envelope
     \/ Opens(r, "found") /\ envelope' = Torn
     \/ Writes(r) /\ envelope' \in Written(r)
  /\ UNCHANGED <<store, pending, signer, audit, token, sealed, note>>

\* Signers, events, tokens and PDF stay.
LocalDeleteEnvelope(r) ==
  /\ Local /\ Present(envelope) /\ Make(r)
  /\ envelope' = Gone
  /\ draft' = Orphaned("envelope", "comment", draft)
  /\ UNCHANGED <<store, signer, audit, token, sealed, note>>

\* UpsertSigner reads the signer for its time of creation, if it can be read, and writes it.
LocalGetSigner(r, s) ==
  /\ Local /\ Make(r)
  /\ draft' = [draft EXCEPT ![r] = [NoDraft EXCEPT !.of = "signer", !.about = s]]
  /\ UNCHANGED <<store, envelope, signer, audit, token, sealed, note>>
LocalUpsertSigner(r) ==
  LET s == draft[r].about IN
  /\ Local /\ draft[r].of = "signer"
  /\ \/ Opens(r, "read") /\ signer' = [signer EXCEPT ![s] = Torn]
     \/ Writes(r) /\ \E left \in Written(r) : signer' = [signer EXCEPT ![s] = left]
  /\ UNCHANGED <<store, pending, envelope, audit, token, sealed, note>>

\* StoreSignerToken: the last one counts, unless its process stops while it writes.
LocalStoreSignerToken(r, t, s) ==
  /\ Local /\ Make(r)
  /\ \E left \in {s, Torn} : token' = [token EXCEPT ![t] = left]
  /\ UNCHANGED <<store, envelope, signer, audit, sealed, note, draft>>

\* AppendAuditEvent: an event that is there, decodable or not, is refused.
LocalStatEvent(r, v) ==
  /\ Local /\ audit[v] = Never /\ Make(r)
  /\ draft' = [draft EXCEPT ![r] = [NoDraft EXCEPT !.of = "event", !.event = v]]
  /\ UNCHANGED <<store, envelope, signer, audit, token, sealed, note>>

\* Mutant: the file is writable, and a second append of the id writes it again.
LocalAppendWritable(r) ==
  LET v == draft[r].event IN
  /\ Local /\ draft[r].of = "event"
  /\ \/ Opens(r, "read") /\ audit' = [audit EXCEPT ![v] = Torn]
     \/ Writes(r) /\ audit' = [audit EXCEPT ![v] = r]
  /\ UNCHANGED <<store, pending, envelope, signer, token, sealed, note>>

\* The file is created read-only: opening it again to write fails.
LocalAppendAuditEvent(r) ==
  LET v == draft[r].event IN
  /\ Local /\ draft[r].of = "event"
  /\ \/ audit[v] = Never /\ Opens(r, "read") /\ audit' = [audit EXCEPT ![v] = Torn]
     \/ /\ audit[v] # Never /\ draft[r].stage = "read"
        /\ draft' = [draft EXCEPT ![r] = NoDraft]
        /\ UNCHANGED audit
     \/ Writes(r) /\ audit' = [audit EXCEPT ![v] = r]
  /\ UNCHANGED <<store, pending, envelope, signer, token, sealed, note>>

LocalStoreSealedPDF(r) ==
  /\ Local /\ Make(r)
  /\ sealed' \in {r, Torn}
  /\ UNCHANGED <<store, envelope, signer, audit, token, note, draft>>

LocalSigning(r) ==
  \/ LocalCreateEnvelope(r) \/ LocalGetEnvelope(r) \/ LocalUpdateEnvelope(r)
  \/ LocalDeleteEnvelope(r) \/ LocalUpsertSigner(r) \/ LocalAppendAuditEvent(r)
  \/ LocalStoreSealedPDF(r)
  \/ \E s \in Signer : LocalGetSigner(r, s) \/ \E t \in Token : LocalStoreSignerToken(r, t, s)
  \/ \E v \in Event : LocalStatEvent(r, v)

----------------------------------------------------------------------------
\* Envelopes and signers, PostgresStorage

PgCreateEnvelope(r) ==
  /\ Pg /\ envelope = Never /\ Make(r)
  /\ envelope' = r
  /\ UNCHANGED <<store, signer, audit, token, sealed, note, draft>>

\* A caller, or UpsertSigner, reads the envelope and its signers.
PgGetEnvelope(r) ==
  /\ Pg /\ Present(envelope) /\ Make(r)
  /\ \/ draft' = [draft EXCEPT ![r] = [NoDraft EXCEPT !.of = "envelope", !.signers = signer]]
     \/ \E s \in Signer : draft' = [draft EXCEPT ![r] =
          [NoDraft EXCEPT !.of = "signer", !.signers = signer, !.about = s]]
  /\ UNCHANGED <<store, envelope, signer, audit, token, sealed, note>>

\* UpdateEnvelope, one statement, writes back all signers that were read.
PgUpdateEnvelope(r) ==
  /\ Pg /\ draft[r].of = "envelope"
  /\ IF Present(envelope) THEN envelope' = r /\ signer' = draft[r].signers
                         ELSE UNCHANGED <<envelope, signer>>
  /\ draft' = Stale(signer', [draft EXCEPT ![r] = NoDraft])
  /\ UNCHANGED <<store, pending, audit, token, sealed, note>>

\* Mutant: a signer that is not found is stored as the only one.
PgUpsertOnly(r) ==
  LET s == draft[r].about IN
  /\ Pg /\ draft[r].of = "signer"
  /\ signer' = IF ~ Present(envelope) THEN signer
               ELSE IF Present(draft[r].signers[s]) THEN [draft[r].signers EXCEPT ![s] = r]
               ELSE [q \in Signer |-> IF q = s THEN r ELSE Never]
  /\ draft' = Stale(signer', [draft EXCEPT ![r] = NoDraft])
  /\ UNCHANGED <<store, pending, envelope, audit, token, sealed, note>>

\* UpsertSigner replaces or appends the one signer among those it has read.
PgUpsertSigner(r) ==
  LET s == draft[r].about IN
  /\ Pg /\ draft[r].of = "signer"
  /\ signer' = IF Present(envelope) THEN [draft[r].signers EXCEPT ![s] = r] ELSE signer
  /\ draft' = Stale(signer', [draft EXCEPT ![r] = NoDraft])
  /\ UNCHANGED <<store, pending, envelope, audit, token, sealed, note>>

\* ON DELETE CASCADE of the audit log; tokens and PDF refer to no envelope.
AuditCascade == audit' = [v \in Event |-> Never]

\* The signers are in the row.
PgDeleteEnvelope(r) ==
  /\ Pg /\ Present(envelope) /\ Make(r)
  /\ envelope' = Gone
  /\ signer' = [s \in Signer |-> Never]
  /\ AuditCascade
  /\ draft' = Orphaned("envelope", "comment", draft)
  /\ UNCHANGED <<store, token, sealed, note>>

\* The primary key refuses a second event, the foreign key one without an envelope.
PgAppendAuditEvent(r, v) ==
  /\ Pg /\ Present(envelope) /\ audit[v] = Never /\ Make(r)
  /\ audit' = [audit EXCEPT ![v] = r]
  /\ UNCHANGED <<store, envelope, signer, token, sealed, note, draft>>

\* StoreSignerToken: the first one counts.
PgStoreSignerToken(r, t, s) ==
  /\ Pg /\ Make(r)
  /\ token' = IF token[t] = Never THEN [token EXCEPT ![t] = s] ELSE token
  /\ UNCHANGED <<store, envelope, signer, audit, sealed, note, draft>>

PgStoreSealedPDF(r) ==
  /\ Pg /\ Make(r)
  /\ sealed' = r
  /\ UNCHANGED <<store, envelope, signer, audit, token, note, draft>>

PgSigning(r) ==
  \/ PgCreateEnvelope(r) \/ PgGetEnvelope(r) \/ PgUpdateEnvelope(r) \/ PgUpsertSigner(r)
  \/ PgDeleteEnvelope(r) \/ PgStoreSealedPDF(r)
  \/ \E v \in Event : PgAppendAuditEvent(r, v)
  \/ \E t \in Token, s \in Signer : PgStoreSignerToken(r, t, s)

----------------------------------------------------------------------------
\* Comments, replies and suggestions, LocalStorage.  Callers create under an id of
\* their own, and update what they have read.

LocalCreate(r, k) ==
  /\ Local /\ note[k] = Never /\ Make(r)
  /\ note' = [note EXCEPT ![k] = r]
  /\ UNCHANGED <<store, envelope, signer, audit, token, sealed, draft>>

\* An update reads the record first, and fails without it.
LocalGet(r, k) ==
  /\ Local /\ note[k] \in Revision /\ Make(r)
  /\ draft' = [draft EXCEPT ![r] = [NoDraft EXCEPT !.of = "note", !.kind = k]]
  /\ UNCHANGED <<store, envelope, signer, audit, token, sealed, note>>

LocalUpdate(r, k) ==
  /\ Local /\ draft[r].of = "note" /\ draft[r].kind = k
  /\ \/ Opens(r, "read") /\ note' = [note EXCEPT ![k] = Torn]
     \/ Writes(r) /\ \E left \in Written(r) : note' = [note EXCEPT ![k] = left]
  /\ UNCHANGED <<store, pending, envelope, signer, audit, token, sealed>>

LocalDelete(r, k) ==
  /\ Local /\ Present(note[k]) /\ Make(r)
  /\ note' = [note EXCEPT ![k] = Gone]
  /\ draft' = Orphaned("note", k, draft)
  /\ UNCHANGED <<store, envelope, signer, audit, token, sealed>>

\* A reply is deleted by an update that marks it; the replies of a deleted comment stay.
LocalComments(r) ==
  LocalCreate(r, "comment") \/ LocalGet(r, "comment") \/ LocalUpdate(r, "comment")
    \/ LocalDelete(r, "comment")
LocalUpdateReply(r) == LocalUpdate(r, "reply")
LocalReplies(r) == LocalCreate(r, "reply") \/ LocalGet(r, "reply") \/ LocalUpdateReply(r)
LocalCreateSuggestion(r) == LocalCreate(r, "suggestion") \/ LocalGet(r, "suggestion")
LocalSuggestions(r) ==
  LocalCreateSuggestion(r) \/ LocalUpdate(r, "suggestion") \/ LocalDelete(r, "suggestion")

----------------------------------------------------------------------------
\* Comments, replies and suggestions, PostgresStorage: one statement each.

\* INSERT ... ON CONFLICT DO UPDATE, for a new comment as for a comment that a caller
\* has read at some time; the row may be gone since.
PgUpsert(r, k) ==
  /\ Pg /\ Make(r)
  /\ note' = [note EXCEPT ![k] = r]
  /\ UNCHANGED <<store, envelope, signer, audit, token, sealed, draft>>

PgDelete(r, k) ==
  /\ Pg /\ Present(note[k]) /\ Make(r)
  /\ note' = [note EXCEPT ![k] = Gone]
  /\ UNCHANGED <<store, envelope, signer, audit, token, sealed, draft>>

PgComments(r) == PgUpsert(r, "comment") \/ PgDelete(r, "comment")
PgReplies(r) == PgUpsert(r, "reply")

PgCreateSuggestion(r) ==
  /\ Pg /\ note["suggestion"] = Never /\ Make(r)
  /\ note' = [note EXCEPT !["suggestion"] = r]
  /\ UNCHANGED <<store, envelope, signer, audit, token, sealed, draft>>

\* Mutant: an upsert, as it is for comments.
PgUpsertSuggestion(r) == note["suggestion"] # Never /\ PgUpsert(r, "suggestion")

\* UPDATE: without the row nothing is written, and no error is returned.
PgUpdateSuggestion(r) == Present(note["suggestion"]) /\ PgUpsert(r, "suggestion")

PgSuggestions(r) ==
  PgCreateSuggestion(r) \/ PgUpdateSuggestion(r) \/ PgDelete(r, "suggestion")

----------------------------------------------------------------------------
RecordsNext == \E r \in Request :
  \/ LocalSigning(r) \/ LocalComments(r) \/ LocalReplies(r) \/ LocalSuggestions(r)
  \/ PgSigning(r) \/ PgComments(r) \/ PgReplies(r) \/ PgSuggestions(r)

RecordsSpec == RecordsInit /\ [][RecordsNext]_allVars

----------------------------------------------------------------------------
Finishes(r) == draft[r].of # "nothing" /\ draft'[r].of = "nothing"
Empties(r) == draft[r].stage # "writing" /\ draft'[r].stage = "writing"

\* What is stored of a signer changes by an upsert of that signer, and is otherwise put
\* back or dropped only in Postgres: by who has read the envelope before the signer
\* changed, or with the envelope.  Upserts that are done one after the other lose no
\* signature in either backend (UpsertSigner; signing_test.go:139-147); in the local one, an
\* upsert has emptied the file before it writes it, so that it loses the signature when its
\* process stops in between, and two at once may leave one that cannot be read.
SignersKept ==
  [][\A s \in Signer : signer'[s] # signer[s] =>
       \/ \E r \in Request :
            /\ draft[r].of = "signer" /\ draft[r].about = s
            /\ \/ Finishes(r) /\ signer'[s] \in Written(r)
               \/ Local /\ Empties(r) /\ signer'[s] = Torn
       \/ Pg /\ envelope' = Gone
       \/ Pg /\ \E r \in Request : Finishes(r) /\ s \in draft[r].stale]_allVars

\* An audit event is never rewritten, by retries that overlap or otherwise, and vanishes
\* only with its envelope in Postgres (AuditEvent: "No update or delete is ever permitted").
AuditOnlyGrows ==
  [][\A v \in Event : audit[v] \in Request =>
       audit'[v] = audit[v] \/ (Pg /\ envelope # Gone /\ envelope' = Gone)]_allVars

\* A deleted envelope or suggestion never comes back in Postgres; in the local backend
\* they and a comment come back only by an update that had read them before.
DeletedComesBackOnlyByOverlap ==
  [][LET late(of, k) == \E r \in Request : /\ Empties(r) /\ draft[r].of = of
                                           /\ draft[r].kind = k /\ draft[r].deleted
     IN  /\ envelope = Gone /\ envelope' # Gone => Local /\ late("envelope", "comment")
         /\ \A k \in {"comment", "suggestion"} : note[k] = Gone /\ note'[k] # Gone =>
              (Local /\ late("note", k)) \/ (Pg /\ k = "comment")]_allVars

============================================================================
