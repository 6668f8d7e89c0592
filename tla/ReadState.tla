----------------------------- MODULE ReadState -----------------------------
(***************************************************************************)
(* The read cursor of one account in one channel: SpacesStore.MarkRead and *)
(* the SaveReadState of its persisters (backend/spaces).  Every MarkRead   *)
(* is an HTTP request with a goroutine of its own and no store lock.  The  *)
(* in-memory persister compares and writes under its mutex; the SQL ones   *)
(* compare in one statement and write in another.                          *)
(***************************************************************************)
EXTENDS Naturals

CONSTANTS
  Request,    \* MarkRead requests of the account
  Clock,      \* SeqClocks of messages, by their rank
  Unread,     \* the cursor of an account without a row: before every clock
  Persisters  \* kinds of deployment: "memory" (NullPersister), "sql" (SQLite, Postgres)

ASSUME ClockAssumption == Clock \subseteq Nat
ASSUME UnreadAssumption == Unread \in Nat /\ \A c \in Clock : Unread < c
ASSUME PersistersAssumption == Persisters \subseteq {"memory", "sql"}

VARIABLES
  persister, \* the persister this process was opened with
  cursor,  \* last_read_clock in the table, or Unread
  pc,      \* pc[r]: "idle", "asked", "newer" (compared, must write), "done"
  mark,    \* mark[r]: the clock that r asks to mark
  acked,   \* history: the clocks whose request returned ok
  overlap  \* history: did a request ever start before an earlier one was done?

vars == <<persister, cursor, pc, mark, acked, overlap>>

TypeOK ==
  /\ persister \in Persisters
  /\ cursor \in Clock \cup {Unread}
  /\ pc \in [Request -> {"idle", "asked", "newer", "done"}]
  /\ mark \in [Request -> Clock \cup {Unread}]
  /\ acked \subseteq Clock
  /\ overlap \in BOOLEAN

Init ==
  /\ persister \in Persisters
  /\ cursor = Unread
  /\ pc = [r \in Request |-> "idle"]
  /\ mark = [r \in Request |-> Unread]
  /\ acked = {}
  /\ overlap = FALSE

InFlight(r) == pc[r] \in {"asked", "newer"}

MarkRead(r, clock) ==
  /\ pc[r] = "idle"
  /\ pc' = [pc EXCEPT ![r] = "asked"]
  /\ mark' = [mark EXCEPT ![r] = clock]
  /\ overlap' = (overlap \/ \E other \in Request : InFlight(other))
  /\ UNCHANGED <<persister, cursor, acked>>

\* The request returns ok.
Return(r) ==
  /\ pc' = [pc EXCEPT ![r] = "done"]
  /\ acked' = acked \cup {mark[r]}

\* The comparison of an incoming clock with the stored one.
Newer(clock, existing) == existing < clock

\* Mutant: the cursor is put after the last read message.
SaveInMemoryAfter(r) ==
  /\ persister = "memory"
  /\ pc[r] = "asked"
  /\ cursor' = IF Newer(mark[r], cursor) THEN mark[r] + 1 ELSE cursor
  /\ Return(r)
  /\ UNCHANGED <<persister, mark, overlap>>

\* NullPersister.SaveReadState: one step under its mutex.
SaveInMemory(r) ==
  /\ persister = "memory"
  /\ pc[r] = "asked"
  /\ cursor' = IF Newer(mark[r], cursor) THEN mark[r] ELSE cursor
  /\ Return(r)
  /\ UNCHANGED <<persister, mark, overlap>>

\* Mutant: the result of the comparison is ignored.
CompareIgnored(r) ==
  /\ persister = "sql"
  /\ pc[r] = "asked"
  /\ pc' = [pc EXCEPT ![r] = "newer"]
  /\ UNCHANGED <<persister, cursor, mark, acked, overlap>>

\* The SELECT of the SQL persisters: an older clock returns here.
Compare(r) ==
  /\ persister = "sql"
  /\ pc[r] = "asked"
  /\ IF Newer(mark[r], cursor)
       THEN pc' = [pc EXCEPT ![r] = "newer"] /\ UNCHANGED acked
       ELSE Return(r)
  /\ UNCHANGED <<persister, cursor, mark, overlap>>

\* Their upsert, which compares nothing.
Upsert(r) ==
  /\ persister = "sql"
  /\ pc[r] = "newer"
  /\ cursor' = mark[r]
  /\ Return(r)
  /\ UNCHANGED <<persister, mark, overlap>>

\* A statement fails, or the client gives up: the request changes nothing more.
Fail(r) ==
  /\ InFlight(r)
  /\ pc' = [pc EXCEPT ![r] = "done"]
  /\ UNCHANGED <<persister, cursor, mark, acked, overlap>>

Next ==
  \E r \in Request :
    \/ \E c \in Clock : MarkRead(r, c)
    \/ SaveInMemory(r)
    \/ Compare(r)
    \/ Upsert(r)
    \/ Fail(r)

Spec == Init /\ [][Next]_vars

----------------------------------------------------------------------------
\* The cursor only advances (SaveReadState: "only advance when the incoming
\* clock is strictly newer").
CursorOnlyAdvances == [][cursor <= cursor']_vars

\* What a client was told is read stays read (ReadState: "converges via LWW,
\* highest SeqClock wins"): always in memory; on the SQL persisters for an
\* account that waits for each answer, since only overlapping requests can come
\* between a comparison and its upsert.
AckedIsRead ==
  persister = "memory" \/ ~ overlap => \A c \in acked : c <= cursor

============================================================================
