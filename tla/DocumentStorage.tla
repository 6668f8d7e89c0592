--------------------------- MODULE DocumentStorage ---------------------------
(***************************************************************************)
(* Files, their versions and their access lists, in the two backends of    *)
(* backend/storage.  UpdateFile reads the file, snapshots what it read,    *)
(* prunes the history and overwrites the file, one step after the other    *)
(* and under no lock; requests overlap, a snapshot may fail without the    *)
(* update failing, and a process may stop between any two steps.           *)
(*                                                                         *)
(* LocalStorage keeps every file and version in a file of its own, which   *)
(* WriteFile first empties; the access lists are in a separate store.      *)
(* PostgresStorage has tables, with foreign keys from versions and access  *)
(* lists to files.                                                         *)
(***************************************************************************)
EXTENDS FileACL

CONSTANTS
  VersionCap  \* DefaultVersionCap

ASSUME VersionCapAssumption == VersionCap \in Nat \ {0}

VARIABLES
  now,       \* the clock: it advances with every reading that a version is named by
  file,      \* file[f]: what is stored, and since when
  versions,  \* versions[f]: the snapshots, those that cannot be decoded included
  edit,      \* edit[r]: an update or a labelling under way
  created    \* history: the ids of all snapshots of f, since f exists

docVars == <<now, file, versions, edit, created>>
vars == <<store, pending, owner, shares, ask, now, file, versions, edit, created>>

Stamp == Nat

Stored == [rev : Revision \cup {Never, Gone, Torn, Garbled}, updated : Stamp]

\* A version's id is its time, in both backends.
Version == [id : Stamp, rev : Revision \cup {Torn, Garbled}, labelled : BOOLEAN]

NoEdit == [stage |-> "idle", file |-> CHOOSE f \in File : TRUE, read |-> Original,
           at |-> 0, id |-> 0, tail |-> {}, raced |-> FALSE, snapped |-> FALSE]

\* read, at: revision and time that the update has read; id, tail: the version that is
\* labelled, the versions to remove.  raced: another write came between; snapped: history,
\* the snapshot was stored.
EditState ==
  [stage : {"idle", "read", "snapped", "listed", "pruned", "writing", "label", "labelling"},
   file : File, read : Revision, at : Stamp, id : Stamp, tail : SUBSET Stamp,
   raced : BOOLEAN, snapped : BOOLEAN]

TypeOK ==
  /\ AclTypeOK
  /\ now \in Stamp
  /\ file \in [File -> Stored]
  /\ versions \in [File -> SUBSET Version]
  /\ edit \in [Request -> EditState]
  /\ created \in [File -> SUBSET Stamp]

Exists(f) == file[f].rev \notin {Never, Gone}
\* Some files exist, owned or not, shared or not.
Init ==
  /\ store \in Store
  /\ pending = Request
  /\ file \in [File -> {[rev |-> v, updated |-> 0] : v \in {Never, Original}}]
  /\ owner \in [File -> Account \cup {NoOwner}]
  /\ shares \in [File -> SUBSET Account]
  /\ \A f \in File : file[f].rev = Never => owner[f] = NoOwner /\ shares[f] = {}
  /\ ask = [r \in Request |-> NoAsk]
  /\ now = 0
  /\ versions = [f \in File |-> {}]
  /\ edit = [r \in Request |-> NoEdit]
  /\ created = [f \in File |-> {}]

Busy(r, f, stages) == edit[r].stage \in stages /\ edit[r].file = f

\* The steps of other requests that the write of f by r comes between.
Raced(f, r, stages) ==
  [q \in Request |-> IF q # r /\ Busy(q, f, stages)
                       THEN [edit[q] EXCEPT !.raced = TRUE] ELSE edit[q]]

Before == {"read", "snapped", "listed", "pruned"}

\* GetVersion, and ListVersions which passes over the others.
Readable(f) == {v \in versions[f] : v.rev \in Revision}

Newer(f, id) == {v \in Readable(f) : v.id > id}

----------------------------------------------------------------------------
\* LocalStorage

\* Callers create a file under an id of its own.
LocalCreateFile(r, f) ==
  /\ Local /\ Make(r)
  /\ file[f].rev = Never
  /\ now' = now + 1
  /\ file' = [file EXCEPT ![f] = [rev |-> r, updated |-> now']]
  /\ UNCHANGED <<store, owner, shares, ask, versions, edit, created>>

\* Mutant: what cannot be decoded is updated all the same.
LocalReadAnyFile(r, f) ==
  /\ Local /\ Exists(f) /\ Make(r)
  /\ edit' = [edit EXCEPT ![r] = [NoEdit EXCEPT !.stage = "read", !.file = f,
                                                !.read = file[f].rev]]
  /\ UNCHANGED <<store, owner, shares, ask, now, file, versions, created>>

\* UpdateFile reads the file; a missing or unreadable one ends it.
LocalReadFile(r, f) ==
  /\ Local /\ file[f].rev \in Revision /\ Make(r)
  /\ edit' = [edit EXCEPT ![r] = [NoEdit EXCEPT !.stage = "read", !.file = f,
                                                !.read = file[f].rev]]
  /\ UNCHANGED <<store, owner, shares, ask, now, file, versions, created>>

\* A version under its id: a second one with that id replaces it.
Put(f, v) == [versions EXCEPT ![f] = {w \in @ : w.id # v.id} \cup {v}]

\* CreateVersion: its error is ignored.  Cut short, it leaves what is no version to anybody.
LocalSnapshot(r) ==
  LET f == edit[r].file
      v == [id |-> now, rev |-> edit[r].read, labelled |-> FALSE] IN
  /\ Local /\ edit[r].stage = "read"
  /\ now' = now + 1
  /\ \E stored \in BOOLEAN :
       /\ versions' = IF stored THEN Put(f, v) ELSE versions
       /\ created' = IF stored THEN [created EXCEPT ![f] = @ \cup {now}] ELSE created
       /\ edit' = [edit EXCEPT ![r].stage = "snapped", ![r].snapped = stored, ![r].id = now]
  /\ UNCHANGED <<store, pending, owner, shares, ask, file>>

\* Mutant: the listing is oldest first.
BeyondOldest(f) ==
  {v.id : v \in {w \in Readable(f) : Cardinality({u \in Readable(f) : u.id < w.id}) >= VersionCap}}

\* Mutant: one version less is kept.
BeyondLess(f) ==
  {v.id : v \in {w \in Readable(f) : Cardinality(Newer(f, w.id)) + 1 >= VersionCap}}

\* ListVersions, newest first, beyond the cap.
Beyond(f) ==
  {v.id : v \in {w \in Readable(f) : Cardinality(Newer(f, w.id)) >= VersionCap}}

\* PruneVersions lists, and then removes one after the other what it has listed,
\* ignoring errors.  A write of one that has begun goes to no file any more.
LocalListVersions(r) ==
  /\ Local /\ edit[r].stage = "snapped"
  /\ edit' = [edit EXCEPT ![r].stage = "listed", ![r].tail = Beyond(edit[r].file)]
  /\ UNCHANGED <<store, pending, owner, shares, ask, now, file, versions, created>>
LocalPruneVersions(r) ==
  LET f == edit[r].file IN
  /\ Local /\ edit[r].stage = "listed"
  /\ \E gone \in SUBSET edit[r].tail :
       /\ versions' = [versions EXCEPT ![f] = {v \in @ : v.id \notin gone}]
       /\ edit' = [q \in Request |->
            IF q = r THEN [edit[r] EXCEPT !.stage = "pruned", !.tail = {}]
            ELSE IF Busy(q, f, {"labelling"}) /\ edit[q].id \in gone THEN NoEdit ELSE edit[q]]
  /\ UNCHANGED <<store, pending, owner, shares, ask, now, file, created>>

\* WriteFile empties the file, whether or not it was still there.
LocalTruncate(r) ==
  LET f == edit[r].file IN
  /\ Local /\ edit[r].stage = "pruned"
  /\ file' = [file EXCEPT ![f].rev = Torn]
  /\ edit' = [Raced(f, r, Before) EXCEPT ![r].stage = "writing", ![r].raced = FALSE]
  /\ UNCHANGED <<store, pending, owner, shares, ask, now, versions, created>>

\* WriteFile writes.  Over what another request wrote since, longer text may leave a
\* rest.
LocalUpdateFile(r) ==
  LET f == edit[r].file IN
  /\ Local /\ edit[r].stage = "writing"
  /\ \E rev \in {r} \cup (IF edit[r].raced THEN {Garbled} ELSE {}) :
       file' = [file EXCEPT ![f] = [rev |-> rev, updated |-> now]]
  /\ edit' = [Raced(f, r, Before \cup {"writing"}) EXCEPT ![r] = NoEdit]
  /\ UNCHANGED <<store, pending, owner, shares, ask, now, versions, created>>

\* The versions of the file stay; a write that has begun goes to no file any more.
LocalDeleteFile(r, f) ==
  /\ Local /\ Exists(f) /\ Make(r)
  /\ file' = [file EXCEPT ![f].rev = Gone]
  /\ edit' = [q \in Request |->
       IF Busy(q, f, {"writing"}) THEN NoEdit ELSE Raced(f, r, Before)[q]]
  /\ UNCHANGED <<store, owner, shares, ask, now, versions, created>>

\* LabelVersion reads the version and writes it back, pruned meanwhile or not.
LocalReadVersion(r, f) ==
  /\ Local /\ Make(r)
  /\ \E v \in Readable(f) :
       edit' = [edit EXCEPT ![r] = [NoEdit EXCEPT !.stage = "label", !.file = f,
                                      !.id = v.id, !.read = v.rev]]
  /\ UNCHANGED <<store, owner, shares, ask, now, file, versions, created>>
LocalTruncateVersion(r) ==
  LET q == edit[r] IN
  /\ Local /\ q.stage = "label"
  /\ versions' = Put(q.file, [id |-> q.id, rev |-> Torn, labelled |-> FALSE])
  /\ edit' = [edit EXCEPT ![r].stage = "labelling", ![r].raced = FALSE]
  /\ UNCHANGED <<store, pending, owner, shares, ask, now, file, created>>
LocalLabelVersion(r) ==
  LET q == edit[r] IN
  /\ Local /\ q.stage = "labelling"
  /\ \E rev \in {q.read} \cup (IF q.raced THEN {Garbled} ELSE {}) :
       versions' = Put(q.file, [id |-> q.id, rev |-> rev, labelled |-> TRUE])
  /\ edit' = [p \in Request |->
       IF p = r THEN NoEdit
       ELSE IF Busy(p, q.file, {"labelling"}) /\ edit[p].id = q.id
         THEN [edit[p] EXCEPT !.raced = TRUE] ELSE edit[p]]
  /\ UNCHANGED <<store, pending, owner, shares, ask, now, file, created>>

LocalDocument(r) ==
  \/ LocalSnapshot(r) \/ LocalListVersions(r) \/ LocalPruneVersions(r)
  \/ LocalTruncate(r) \/ LocalUpdateFile(r) \/ LocalTruncateVersion(r)
  \/ LocalLabelVersion(r)
  \/ \E f \in File : \/ LocalCreateFile(r, f) \/ LocalReadFile(r, f)
                     \/ LocalDeleteFile(r, f) \/ LocalReadVersion(r, f)

----------------------------------------------------------------------------
\* PostgresStorage

\* The primary key refuses a second file under an id.
PgCreateFile(r, f) ==
  /\ Pg /\ Make(r)
  /\ file[f].rev = Never
  /\ file' = [file EXCEPT ![f] = [rev |-> r, updated |-> now]]
  /\ UNCHANGED <<store, owner, shares, ask, now, versions, edit, created>>

\* Every update reads a time later than those of the updates before it.
PgReadFile(r, f) ==
  /\ Pg /\ Exists(f) /\ Make(r)
  /\ now' = now + 1
  /\ edit' = [edit EXCEPT ![r] = [NoEdit EXCEPT !.stage = "read", !.file = f,
                                    !.read = file[f].rev, !.at = file[f].updated]]
  /\ UNCHANGED <<store, owner, shares, ask, file, versions, created>>

\* CreateVersion inserts the version under the time of what was read, once; it fails
\* without the file, and its error is ignored.
PgSnapshot(r) ==
  LET f == edit[r].file
      v == [id |-> edit[r].at, rev |-> edit[r].read, labelled |-> FALSE] IN
  /\ Pg /\ edit[r].stage = "read"
  /\ \E stored \in BOOLEAN :
       /\ stored => Exists(f)
       /\ versions' = IF stored /\ \A w \in versions[f] : w.id # v.id
                         THEN Put(f, v) ELSE versions
       /\ created' = IF stored THEN [created EXCEPT ![f] = @ \cup {v.id}] ELSE created
       /\ edit' = [edit EXCEPT ![r].stage = "snapped", ![r].snapped = stored, ![r].id = v.id]
  /\ UNCHANGED <<store, pending, owner, shares, ask, now, file>>

\* PruneVersions is one statement; its error is ignored.
PgPruneVersions(r) ==
  LET f == edit[r].file IN
  /\ Pg /\ edit[r].stage = "snapped"
  /\ \E gone \in {{}, Beyond(f)} :
       versions' = [versions EXCEPT ![f] = {v \in @ : v.id \notin gone}]
  /\ edit' = [edit EXCEPT ![r].stage = "pruned"]
  /\ UNCHANGED <<store, pending, owner, shares, ask, now, file, created>>

\* UPDATE: without the row, nothing is written and the update fails.
PgUpdateFile(r) ==
  LET f == edit[r].file IN
  /\ Pg /\ edit[r].stage = "pruned"
  /\ file' = IF Exists(f) THEN [file EXCEPT ![f] = [rev |-> r, updated |-> now]] ELSE file
  /\ edit' = [Raced(f, r, Before) EXCEPT ![r] = NoEdit]
  /\ UNCHANGED <<store, pending, owner, shares, ask, now, versions, created>>

\* Mutant: versions are the only rows that refer to files.
CascadeVersions(f) ==
  /\ versions' = [versions EXCEPT ![f] = {}]
  /\ created' = [created EXCEPT ![f] = {}]
  /\ Tables(owner, shares, ask)

\* ON DELETE CASCADE of versions, owners and shares.
Cascade(f) ==
  /\ versions' = [versions EXCEPT ![f] = {}]
  /\ created' = [created EXCEPT ![f] = {}]
  /\ Tables([owner EXCEPT ![f] = NoOwner], [shares EXCEPT ![f] = {}], ask)

PgDeleteFile(r, f) ==
  /\ Pg /\ Exists(f) /\ Make(r)
  /\ file' = [file EXCEPT ![f].rev = Gone]
  /\ edit' = Raced(f, r, Before)
  /\ Cascade(f)
  /\ UNCHANGED <<store, now>>

\* UPDATE of the label alone.
PgLabelVersion(r, f) ==
  /\ Pg /\ Make(r)
  /\ \E v \in versions[f] :
       versions' = Put(f, [v EXCEPT !.labelled = TRUE])
  /\ UNCHANGED <<store, owner, shares, ask, now, file, edit, created>>

PgDocument(r) ==
  \/ PgSnapshot(r) \/ PgPruneVersions(r) \/ PgUpdateFile(r)
  \/ \E f \in File : \/ PgCreateFile(r, f) \/ PgReadFile(r, f)
                     \/ PgDeleteFile(r, f) \/ PgLabelVersion(r, f)

----------------------------------------------------------------------------
Access(r) == (SQLite(r) \/ Null(r) \/ Postgres(r, Exists)) /\ UNCHANGED <<store, docVars>>

Next == \E r \in Request : Access(r) \/ LocalDocument(r) \/ PgDocument(r)

Spec == Init /\ [][Next]_vars

----------------------------------------------------------------------------
\* Pruning forgets only what is old: the newest VersionCap snapshots ever stored of a
\* file are all there, however many updates list and remove at the same time
\* (PruneVersions "removes oldest versions so at most cap remain").  What a labelling has
\* emptied cannot be read until it is done, which is for good when its process stops
\* there, nor may what two labellings wrote at once: nothing else makes a recent snapshot
\* unreadable.
RecentHistoryKept ==
  \A f \in File : \A id \in created[f] :
    Cardinality({i \in created[f] : i > id}) < VersionCap
      => \E v \in versions[f] :
           /\ v.id = id
           /\ v.rev = Torn => \E r \in Request : Busy(r, f, {"labelling"}) /\ edit[r].id = id

\* An update destroys nothing: what it overwrites is in the history, or VersionCap
\* newer snapshots are, unless another write came between its steps or its snapshot
\* failed, which it ignores ("Snapshot the current content before overwriting"), or a
\* labelling has made that snapshot unreadable.
SnapshotBeforeOverwrite ==
  [][\A r \in Request :
       LET f == edit[r].file IN
       /\ edit[r].stage = "pruned" /\ edit'[r].stage # "pruned" /\ Exists(f)
       /\ edit[r].snapped /\ ~ edit[r].raced
       => \/ \E v \in versions'[f] :
               v.rev = file[f].rev \/ (v.id = edit[r].id /\ v.rev \in {Torn, Garbled})
          \/ Cardinality({v \in versions[f] : v.id > edit[r].id}) >= VersionCap]_vars

\* In Postgres nothing outlives its file, whatever was under way when it was deleted:
\* neither a snapshot nor an access list (fileacl_postgres.go: "deleting a file
\* atomically drops its ACL").
NothingOutlivesFile ==
  Pg => \A f \in File : ~ Exists(f) => versions[f] = {} /\ owner[f] = NoOwner /\ shares[f] = {}

============================================================================
