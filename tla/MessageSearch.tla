--------------------------- MODULE MessageSearch ---------------------------
(***************************************************************************)
(* SearchMessages of one channel beside the writes of its messages.  A     *)
(* write holds the store's lock while it goes through the message's row    *)
(* and, in SQLite, the full-text index, whose errors are ignored.  A       *)
(* search asks the index without that lock, and then looks every id up in  *)
(* memory, with the lock, one after the other.                             *)
(***************************************************************************)
EXTENDS FiniteSets

CONSTANTS
  Searched,  \* the messages that are written and searched
  Body,      \* their texts
  Query,     \* what is searched for, one or several words
  Says,      \* Says[q]: the texts that have every word of q in them
  Matched    \* Matched[p][q]: the texts that the query which p makes of q matches

VARIABLES
  persister,  \* what is behind the store
  index,      \* index[m]: the message in memory
  row,        \* row[m]: the message in the messages' table
  fts,        \* fts[m]: the texts of the entries of m in messages_fts
  write,      \* the write under way, and how far it is
  search,     \* the search under way or answered
  clean       \* history: the messages whose row and index entry are what memory has

searchVars == <<persister, index, row, fts, write, search, clean>>

Never == "never"
Deleted == "deleted"

\* No text looks like one of the marks.
ASSUME SearchAssumption ==
  Searched # {} /\ Body # {} /\ Never \notin Body /\ Deleted \notin Body

\* Any two relations: a query matches whole words and their beginnings, not parts of
\* words as a scan does, and what it is made from is reduced to some ASCII characters
\* first (sanitizeFTSToken, sanitizePGToken), so that it may match nothing or other texts.
ASSUME QueryAssumption ==
  /\ Query # {}
  /\ Says \in [Query -> SUBSET Body]
  /\ Matched \in [{"sqlite", "postgres"} -> [Query -> SUBSET Body]]

State == Body \cup {Never, Deleted}

NoWrite == [stage |-> "none", message |-> CHOOSE m \in Searched : TRUE,
            memory |-> Never, saved |-> Never, whole |-> FALSE]

\* memory, saved: what the write makes of the message in memory and in its row; whole:
\* history, nothing has failed so far.
Write == [stage : {"none", "save", "unindex", "index", "unlock"}, message : Searched,
          memory : State, saved : State, whole : BOOLEAN]

NoSearch == [stage |-> "none", query |-> CHOOSE q \in Query : TRUE, ids |-> {}, found |-> {},
             could |-> {}, steady |-> {}]

\* ids: still to be looked up; found: the answer so far.  could, steady: history, the
\* messages that had the words in memory at some moment since the search began, and those
\* with a text within reach of the search, in row and index as well, at every one and that
\* were not written meanwhile.
Search == [stage : {"none", "asked", "looking", "answered"}, query : Query,
           ids : SUBSET Searched, found : SUBSET Searched,
           could : SUBSET Searched, steady : SUBSET Searched]

SearchTypeOK ==
  /\ persister \in {"sqlite", "postgres", "memory"}
  /\ index \in [Searched -> State]
  /\ row \in [Searched -> State]
  /\ fts \in [Searched -> SUBSET Body]
  /\ write \in Write
  /\ search \in Search
  /\ clean \subseteq Searched

Unlocked == write.stage = "none"

SearchInit ==
  /\ persister \in {"sqlite", "postgres", "memory"}
  /\ index = [m \in Searched |-> Never]
  /\ row = [m \in Searched |-> Never]
  /\ fts = [m \in Searched |-> {}]
  /\ write = NoWrite
  /\ search = NoSearch
  /\ clean = Searched

----------------------------------------------------------------------------
\* Writes

\* matchMsg: a deleted message is passed over.
MatchMsg(state, q) == state # Deleted /\ state \in Says[q]

\* What memory has, at the next unlock or restart, is a moment of the search under way.
Watch(s, memory, touched) ==
  IF s.stage \notin {"asked", "looking"} THEN s
  ELSE [s EXCEPT !.could = @ \cup {m \in Searched : MatchMsg(memory[m], s.query)},
                 !.steady = @ \ touched]

\* Send, edit, delete, or the merge of an operation: it is saved as it is, also when
\* memory has passed it.
Begin(m) ==
  /\ Unlocked
  /\ \E saved \in Body \cup {Deleted}, memory \in State :
       /\ memory \in {saved, index[m]} \ {Never}
       /\ index[m] = Deleted => memory = Deleted
       /\ saved = Deleted => memory = Deleted
       /\ write' = [stage |-> "save", message |-> m, memory |-> memory, saved |-> saved,
                    whole |-> memory = saved]
  /\ search' = Watch(search, index, {m})
  /\ clean' = clean \ {m}
  /\ UNCHANGED <<persister, index, row, fts>>

Saved(stage) ==
  /\ row' = [row EXCEPT ![write.message] = write.saved]
  /\ write' = [write EXCEPT !.stage = stage]

NotSaved ==
  /\ write' = [write EXCEPT !.stage = "unlock", !.whole = FALSE]
  /\ UNCHANGED row

\* An upsert; when it fails, the index is left alone.
SaveMessageSQLite == persister = "sqlite" /\ (Saved("unindex") \/ NotSaved)
SaveMessagePostgres == persister = "postgres" /\ (Saved("unlock") \/ NotSaved)
SaveMessageInMemory == persister = "memory" /\ Saved("unlock")

SaveMessage ==
  /\ write.stage = "save"
  /\ SaveMessageSQLite \/ SaveMessagePostgres \/ SaveMessageInMemory
  /\ UNCHANGED <<persister, index, fts, search, clean>>

\* Mutant: the new entry is made before the old ones of the message are deleted.
IndexMessageFirst ==
  LET m == write.message IN
  /\ \/ /\ write.stage = "unindex"
        /\ write' = [write EXCEPT !.stage = "index"]
        /\ fts' = IF write.saved \in Body THEN [fts EXCEPT ![m] = @ \cup {write.saved}] ELSE fts
     \/ /\ write.stage = "index"
        /\ write' = [write EXCEPT !.stage = "unlock"]
        /\ fts' = [fts EXCEPT ![m] = {}]
     \/ /\ write.stage \in {"unindex", "index"}
        /\ write' = [write EXCEPT !.stage = IF @ = "unindex" THEN "index" ELSE "unlock",
                                  !.whole = FALSE]
        /\ UNCHANGED fts
  /\ UNCHANGED <<persister, index, row, search, clean>>

\* Mutant: a deleted message is entered as well.
IndexMessageDeleted ==
  LET m == write.message IN
  /\ \/ /\ write.stage = "unindex"
        /\ write' = [write EXCEPT !.stage = "index"]
        /\ fts' = [fts EXCEPT ![m] = {}]
     \/ /\ write.stage = "index"
        /\ write' = [write EXCEPT !.stage = "unlock"]
        /\ fts' = [fts EXCEPT ![m] = @ \cup {write.saved}]
  /\ UNCHANGED <<persister, index, row, search, clean>>

\* indexMessage: the entries of the message are deleted, then one is made unless it is
\* deleted; each statement may fail.
IndexMessage ==
  LET m == write.message IN
  /\ \/ /\ write.stage = "unindex"
        /\ write' = [write EXCEPT !.stage = "index"]
        /\ fts' = [fts EXCEPT ![m] = {}]
     \/ /\ write.stage = "index"
        /\ write' = [write EXCEPT !.stage = "unlock"]
        /\ fts' = IF write.saved \in Body THEN [fts EXCEPT ![m] = @ \cup {write.saved}] ELSE fts
     \/ /\ write.stage \in {"unindex", "index"}
        /\ write' = [write EXCEPT !.stage = IF @ = "unindex" THEN "index" ELSE "unlock",
                                  !.whole = FALSE]
        /\ UNCHANGED fts
  /\ UNCHANGED <<persister, index, row, search, clean>>

\* The lock is released: from now on, memory shows the write.
Unlock ==
  /\ write.stage = "unlock"
  /\ index' = [index EXCEPT ![write.message] = write.memory]
  /\ clean' = IF write.whole THEN clean \cup {write.message} ELSE clean
  /\ search' = Watch(search, index', {write.message})
  /\ write' = NoWrite
  /\ UNCHANGED <<persister, row, fts>>

\* The rows are loaded, and the index is cleared and filled again, from deleted
\* messages too, whose text is empty; a failure of that is ignored.
RestartSearch ==
  /\ row' = IF persister = "memory" THEN [m \in Searched |-> Never] ELSE row
  /\ index' = row'
  /\ \/ /\ fts' = [m \in Searched |-> IF persister = "sqlite" THEN {row[m]} \cap Body ELSE {}]
        /\ clean' = Searched
     \/ /\ persister = "sqlite"
        /\ fts' \in {fts, [m \in Searched |-> {}],
                     [m \in Searched |-> fts[m] \cup ({row[m]} \cap Body)]}
        /\ clean' = {}
  /\ write' = NoWrite
  /\ search' = NoSearch
  /\ UNCHANGED persister

----------------------------------------------------------------------------
\* SearchMessages

\* The texts that the search for q can find: all that have its words, of those only what
\* the query matches where there is an index.
Reach(q) == IF persister = "memory" THEN Says[q] ELSE Says[q] \cap Matched[persister][q]

Start(q) ==
  /\ search.stage \in {"none", "answered"}
  /\ search' = [NoSearch EXCEPT
       !.stage = "asked", !.query = q,
       !.could = {m \in Searched : MatchMsg(index[m], q)},
       !.steady = {m \in clean : index[m] \in Reach(q) /\ (Unlocked \/ write.message # m)}]
  /\ UNCHANGED <<persister, index, row, fts, write, clean>>

\* SQLite: ids with an entry that the query matches, and which have a row, of any state.
\* A query of which nothing is left is not asked and matches nothing.
MatchingSQLite(q) ==
  {m \in Searched : fts[m] \cap Matched["sqlite"][q] # {} /\ row[m] # Never}

\* Postgres: no index of its own, the rows themselves.
MatchingPostgres(q) == {m \in Searched : row[m] \in Matched["postgres"][q]}

SearchIndexed ==
  /\ search.stage = "asked" /\ persister # "memory"
  /\ search' = [search EXCEPT !.stage = "looking",
       !.ids = IF persister = "sqlite" THEN MatchingSQLite(search.query)
                                       ELSE MatchingPostgres(search.query)]
  /\ UNCHANGED <<persister, index, row, fts, write, clean>>

\* GetMessage of one of the ids, and matchMsg on what it says now.
LookUp ==
  /\ search.stage = "looking" /\ Unlocked
  /\ \E m \in search.ids :
       search' = [search EXCEPT !.ids = @ \ {m},
                    !.found = IF MatchMsg(index[m], search.query) THEN @ \cup {m} ELSE @]
  /\ UNCHANGED <<persister, index, row, fts, write, clean>>

\* Without an index, or when the query fails: a scan of what ListMessages returns.
Scan ==
  /\ search.stage = "asked" /\ Unlocked
  /\ search' = [search EXCEPT !.stage = "answered",
                              !.found = {m \in Searched : MatchMsg(index[m], search.query)}]
  /\ UNCHANGED <<persister, index, row, fts, write, clean>>

Answer ==
  /\ search.stage = "looking" /\ search.ids = {}
  /\ search' = [search EXCEPT !.stage = "answered"]
  /\ UNCHANGED <<persister, index, row, fts, write, clean>>

SearchNext ==
  \/ \E m \in Searched : Begin(m)
  \/ SaveMessage \/ IndexMessage \/ Unlock \/ RestartSearch
  \/ \E q \in Query : Start(q)
  \/ SearchIndexed \/ LookUp \/ Scan \/ Answer

SearchSpec == SearchInit /\ [][SearchNext]_searchVars

----------------------------------------------------------------------------
\* A search finds only what some moment of it showed, never a deleted or edited text
\* that the index still has; and it misses no message whose text has the words and is
\* matched by the query that is made of them, where there is an index, all the time and
\* was last written without a failure and not meanwhile (SearchMessages: the index
\* narrows what a scan of the messages would find; what the sanitizer took from the words
\* may leave it nothing, and then there is no scan either).
SearchExplained ==
  search.stage = "answered" =>
    /\ search.found \subseteq search.could
    /\ search.steady \subseteq search.found

============================================================================
