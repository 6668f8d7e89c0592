-------------------------- MODULE DocumentRequests --------------------------
(***************************************************************************)
(* Requests to the document storage (backend/storage, backend/fileacl):    *)
(* each is one call in a goroutine of its own, made at most once.  A       *)
(* request that is never finished stands for one whose process stopped.    *)
(* One of three configurations is in use from start to end.                *)
(***************************************************************************)
EXTENDS Naturals, FiniteSets

CONSTANT Request

VARIABLES
  store,   \* what the configuration has chosen
  pending  \* requests not made yet

\* The JSON files with the SQLite or with the in-memory access lists, or Postgres.
Store == {"sqlite", "null", "postgres"}

Local == store \in {"sqlite", "null"}
Pg == store = "postgres"

\* A record was never there, or is deleted; otherwise it is the original one or what
\* a request wrote.  NewLocalStorage and the migrations start from any of them.
Never == "never"
Gone == "gone"
Original == "original"
Revision == Request \cup {Original}

\* os.WriteFile empties a file that is there and then writes it.  Between the two, and for
\* good when the process stops there, the file is torn; two writes at once may leave what
\* is whole of neither.  No reader can decode either.  A file that is new is under an id
\* that nobody has before it is written, so that its two steps are one.
Torn == "torn"
Garbled == "garbled"

ASSUME RequestAssumption == Request \cap {Never, Gone, Original, Torn, Garbled} = {}

Make(r) == r \in pending /\ pending' = pending \ {r}

============================================================================
