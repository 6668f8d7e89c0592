-------------------------- MODULE EngagementProofs --------------------------
(***************************************************************************)
(* Theorems about Engagement, for any messages, users, texts and statuses, *)
(* and about MessageSearch, for any messages, texts, queries and indexes.  *)
(*                                                                         *)
(* AnsweredIsKept is inductive together with the types: a store that skips *)
(* a repeated request relies on what it shows being what its table has.    *)
(* SearchExplained needs to know how far the row and the full-text index   *)
(* are behind memory at each stage of a write, and what a search that is   *)
(* under way has missed so far.                                            *)
(***************************************************************************)
EXTENDS MCEngagement, TLAPS

KeptInv == EngagementTypeOK /\ AnsweredIsKept

\* Values that the tables of the three kinds can have under k.
Allowed(k) ==
  CASE k[1] = "reaction" -> {None, Reacted}
    [] k[1] = "pin"      -> {None, Blank} \cup Text
    [] k[1] = "status"   -> {None} \cup Status

LEMMA KeyTyped ==
  /\ \A m \in Message, u \in User : <<"reaction", m, u>> \in Key
  /\ \A m \in Message : <<"pin", m>> \in Key
  /\ \A u \in User : <<"status", u>> \in Key
  /\ \A k \in ReactionKey : k[1] = "reaction"
  /\ \A k \in PinKey : k[1] = "pin"
  /\ \A k \in StatusKey : k[1] = "status"
  /\ \A k \in Key : /\ k[1] = "reaction" => k \in ReactionKey
                    /\ k[1] = "pin" => k \in PinKey
                    /\ k[1] = "status" => k \in StatusKey
BY DEF Key, ReactionKey, PinKey, StatusKey

\* The type invariant in one line per variable.
LEMMA TypeAsAllowed ==
  EngagementTypeOK <=>
    /\ opened \in BOOLEAN
    /\ shown \in [Key -> Value] /\ table \in [Key -> Value] /\ last \in [Key -> Value]
    /\ \A k \in Key : shown[k] \in Allowed(k) /\ table[k] \in Allowed(k)
    /\ blind \subseteq Kind /\ failed \subseteq Key
<1>1. \A k \in Key : /\ k \in ReactionKey \cup PinKey \cup StatusKey
                     /\ k \in ReactionKey => Allowed(k) = {None, Reacted}
                     /\ k \in PinKey => Allowed(k) = {None, Blank} \cup Text
                     /\ k \in StatusKey => Allowed(k) = {None} \cup Status
  BY KeyTyped DEF Allowed, Key
<1>2. ReactionKey \subseteq Key /\ PinKey \subseteq Key /\ StatusKey \subseteq Key
  BY DEF Key
<1> QED BY <1>1, <1>2 DEF EngagementTypeOK

LEMMA AllowedValues == \A k \in Key : Allowed(k) \subseteq Value /\ None \in Allowed(k)
BY KeyTyped DEF Allowed, Value, Key

\* A request about k that leaves alone a store which already shows something under k, or
\* puts v there and has its statement make new of the table, where new has v under k.
LEMMA RequestKept ==
  ASSUME KeptInv, NEW k \in Key, NEW v \in Allowed(k), NEW new \in [Key -> Value],
         new[k] = v, \A j \in Key \ {k} : new[j] = table[j],
         \/ shown[k] # None /\ UNCHANGED <<shown, table, failed>>
         \/ shown' = [shown EXCEPT ![k] = v] /\ Statement(k, new),
         Answered(k)
  PROVE  KeptInv'
<1> USE DEF KeptInv
<1>1. /\ shown \in [Key -> Value] /\ table \in [Key -> Value] /\ last \in [Key -> Value]
      /\ \A j \in Key : shown[j] \in Allowed(j) /\ table[j] \in Allowed(j)
      /\ blind \subseteq Kind /\ failed \subseteq Key /\ opened \in BOOLEAN
  BY TypeAsAllowed
<1>2. last' = [last EXCEPT ![k] = shown'[k]] /\ UNCHANGED <<opened, blind>>
  BY DEF Answered
<1>3. v \in Value
  BY AllowedValues
<1>4. CASE shown[k] # None /\ UNCHANGED <<shown, table, failed>>
  <2>1. k \notin failed => shown[k] = last[k]
    BY <1>4 DEF AnsweredIsKept
  <2>2. AnsweredIsKept'
    BY <1>1, <1>2, <1>4, <2>1 DEF AnsweredIsKept
  <2>3. EngagementTypeOK'
    BY <1>1, <1>2, <1>4, TypeAsAllowed DEF EngagementTypeOK
  <2> QED BY <2>2, <2>3
<1>5. CASE shown' = [shown EXCEPT ![k] = v] /\ Statement(k, new)
  <2>1. \/ table' = new /\ failed' = failed \ {k}
        \/ table' = table /\ failed' = failed \cup {k}
    BY <1>5 DEF Statement, NullStatement
  <2>2. AnsweredIsKept'
    BY <1>1, <1>2, <1>5, <2>1 DEF AnsweredIsKept
  <2>3. /\ opened' \in BOOLEAN
        /\ shown' \in [Key -> Value] /\ table' \in [Key -> Value] /\ last' \in [Key -> Value]
        /\ \A j \in Key : shown'[j] \in Allowed(j) /\ table'[j] \in Allowed(j)
        /\ blind' \subseteq Kind /\ failed' \subseteq Key
    BY <1>1, <1>2, <1>3, <1>5, <2>1
  <2>4. EngagementTypeOK'
    BY <2>3, KeyTyped, AllowedValues DEF EngagementTypeOK, Allowed, Key
  <2> QED BY <2>2, <2>4
<1> QED BY <1>4, <1>5

----------------------------------------------------------------------------
\* The steps

LEMMA StepTypes ==
  ASSUME KeptInv
  PROVE  /\ table \in [Key -> Value]
         /\ \A k \in Key : shown[k] \in Allowed(k) /\ table[k] \in Allowed(k)
BY TypeAsAllowed DEF KeptInv

LEMMA AddKept ==
  ASSUME KeptInv, NEW m \in Message, NEW u \in User,
         Add(<<"reaction", m, u>>), Answered(<<"reaction", m, u>>)
  PROVE  KeptInv'
<1> DEFINE k == <<"reaction", m, u>>
<1>1. k \in Key /\ Allowed(k) = {None, Reacted}
  BY KeyTyped DEF Allowed
<1>2. SaveReaction(k) = [table EXCEPT ![k] = Reacted]
  <2>1. table[k] \in {None, Reacted} /\ table \in [Key -> Value]
    BY <1>1, StepTypes
  <2> QED BY <1>1, <2>1 DEF SaveReaction
<1>3. /\ SaveReaction(k) \in [Key -> Value] /\ SaveReaction(k)[k] = Reacted
      /\ \A j \in Key \ {k} : SaveReaction(k)[j] = table[j]
  BY <1>1, <1>2, StepTypes DEF Value
<1>4. \/ shown[k] # None /\ UNCHANGED <<shown, table, failed>>
      \/ shown' = [shown EXCEPT ![k] = Reacted] /\ Statement(k, SaveReaction(k))
  BY DEF Add
<1> HIDE DEF k
<1> QED BY <1>1, <1>3, <1>4, RequestKept DEF k

LEMMA RemoveKept ==
  ASSUME KeptInv, NEW m \in Message, NEW u \in User,
         Remove(<<"reaction", m, u>>), Answered(<<"reaction", m, u>>)
  PROVE  KeptInv'
<1> DEFINE k == <<"reaction", m, u>>
<1>1. k \in Key /\ None \in Allowed(k)
  BY KeyTyped, AllowedValues
<1>2. /\ DeleteReaction(k) \in [Key -> Value] /\ DeleteReaction(k)[k] = None
      /\ \A j \in Key \ {k} : DeleteReaction(k)[j] = table[j]
  BY <1>1, StepTypes DEF DeleteReaction, Value
<1>3. shown' = [shown EXCEPT ![k] = None] /\ Statement(k, DeleteReaction(k))
  BY DEF Remove
<1> HIDE DEF k
<1> QED BY <1>1, <1>2, <1>3, RequestKept DEF k

LEMMA PinKept ==
  ASSUME KeptInv, NEW m \in Message, NEW text \in Text \cup {Blank}, PinMessage(m, text)
  PROVE  KeptInv'
<1> DEFINE k == <<"pin", m>>
<1>1. k \in Key /\ text \in Allowed(k) /\ text \in Value
  BY KeyTyped DEF Allowed, Value
<1>2. /\ SavePin(k, text) \in [Key -> Value] /\ SavePin(k, text)[k] = text
      /\ \A j \in Key \ {k} : SavePin(k, text)[j] = table[j]
  BY <1>1, StepTypes DEF SavePin
<1>3. /\ \/ shown[k] # None /\ UNCHANGED <<shown, table, failed>>
         \/ shown' = [shown EXCEPT ![k] = text] /\ Statement(k, SavePin(k, text))
      /\ Answered(k)
  BY DEF PinMessage, Pin
<1> HIDE DEF k
<1> QED BY <1>1, <1>2, <1>3, RequestKept

LEMMA UnpinKept ==
  ASSUME KeptInv, NEW m \in Message, UnpinMessage(m)
  PROVE  KeptInv'
<1> DEFINE k == <<"pin", m>>
<1>1. k \in Key /\ None \in Allowed(k)
  BY KeyTyped, AllowedValues
<1>2. /\ DeletePin(k) \in [Key -> Value] /\ DeletePin(k)[k] = None
      /\ \A j \in Key \ {k} : DeletePin(k)[j] = table[j]
  BY <1>1, StepTypes DEF DeletePin, Value
<1>3. shown' = [shown EXCEPT ![k] = None] /\ Statement(k, DeletePin(k)) /\ Answered(k)
  BY DEF UnpinMessage, Unpin
<1> HIDE DEF k
<1> QED BY <1>1, <1>2, <1>3, RequestKept

LEMMA StatusKept ==
  ASSUME KeptInv, NEW u \in User, NEW s \in Status, SetStatus(u, s)
  PROVE  KeptInv'
<1> DEFINE k == <<"status", u>>
<1>1. k \in Key /\ s \in Allowed(k) /\ s \in Value
  BY KeyTyped DEF Allowed, Value
<1>2. /\ SaveStatus(k, s) \in [Key -> Value] /\ SaveStatus(k, s)[k] = s
      /\ \A j \in Key \ {k} : SaveStatus(k, s)[j] = table[j]
  BY <1>1, StepTypes DEF SaveStatus
<1>3. shown' = [shown EXCEPT ![k] = s] /\ Statement(k, SaveStatus(k, s)) /\ Answered(k)
  BY DEF SetStatus, Set
<1> HIDE DEF k
<1> QED BY <1>1, <1>2, <1>3, RequestKept

\* What a start shows: the table, or nothing of a kind whose listing failed.
LEMMA RebuiltFromTable ==
  ASSUME NEW dark \in SUBSET Kind, NEW k \in Key
  PROVE  Rebuilt(dark, k) = IF k[1] \in dark THEN None ELSE table[k]
<1>1. CASE k \in ReactionKey
  <2>1. k[1] = "reaction" /\ k \notin PinKey /\ k \notin StatusKey
    BY <1>1, KeyTyped
  <2>2. NewReactionsStore(dark)[k] = IF "reaction" \in dark THEN None ELSE table[k]
    BY <1>1 DEF NewReactionsStore, ListReactions
  <2> QED BY <1>1, <2>1, <2>2 DEF Rebuilt
<1>2. CASE k \in PinKey
  <2>1. k[1] = "pin" /\ k \notin ReactionKey /\ k \notin StatusKey
    BY <1>2, KeyTyped
  <2>2. NewPinsStore(dark)[k] = IF "pin" \in dark THEN None ELSE table[k]
    BY <1>2 DEF NewPinsStore, ListPins
  <2> QED BY <1>2, <2>1, <2>2 DEF Rebuilt
<1>3. CASE k \in StatusKey
  <2>1. k[1] = "status" /\ k \notin ReactionKey /\ k \notin PinKey
    BY <1>3, KeyTyped
  <2>2. NewStatusStore(dark)[k] = IF "status" \in dark THEN None ELSE table[k]
    BY <1>3 DEF NewStatusStore, ListStatuses
  <2> QED BY <1>3, <2>1, <2>2 DEF Rebuilt
<1> QED BY <1>1, <1>2, <1>3 DEF Key

LEMMA RestartKept == KeptInv /\ Restart => KeptInv'
<1> SUFFICES ASSUME KeptInv, Restart PROVE KeptInv' OBVIOUS
<1>1. PICK dark \in SUBSET Kind :
        /\ blind' = dark
        /\ shown' = [k \in Key |-> Rebuilt(dark, k)]
  <2>1. Kind \in SUBSET Kind
    OBVIOUS
  <2> QED BY <2>1 DEF Restart
<1>2. UNCHANGED <<table, last, failed>> /\ opened' \in BOOLEAN
  BY DEF Restart
<1>3. shown' = [k \in Key |-> IF k[1] \in dark THEN None ELSE table[k]]
  BY <1>1, RebuiltFromTable
<1>4. /\ table \in [Key -> Value] /\ last \in [Key -> Value] /\ failed \subseteq Key
      /\ \A k \in Key : table[k] \in Allowed(k)
  BY TypeAsAllowed DEF KeptInv
<1>5. AnsweredIsKept'
  BY <1>1, <1>2, <1>3 DEF KeptInv, AnsweredIsKept
<1>6. \A k \in Key : shown'[k] \in Allowed(k) /\ shown'[k] \in Value
  BY <1>3, <1>4, AllowedValues
<1>7. shown' \in [Key -> Value]
  BY <1>3, <1>6
<1>8. EngagementTypeOK'
  BY <1>1, <1>2, <1>4, <1>6, <1>7, KeyTyped DEF EngagementTypeOK, Allowed, Key
<1> QED BY <1>5, <1>8 DEF KeptInv

----------------------------------------------------------------------------
\* The theorems

LEMMA InitKept == EngagementInit => KeptInv
BY DEF EngagementInit, KeptInv, EngagementTypeOK, AnsweredIsKept, Key, Value, Kind

LEMMA NextKept == KeptInv /\ [EngagementNext]_engagementVars => KeptInv'
<1> SUFFICES ASSUME KeptInv, [EngagementNext]_engagementVars PROVE KeptInv' OBVIOUS
<1>1. ASSUME NEW m \in Message, NEW u \in User, React(m, u) PROVE KeptInv'
  BY <1>1, AddKept DEF React
<1>2. ASSUME NEW m \in Message, NEW u \in User, Unreact(m, u) PROVE KeptInv'
  BY <1>2, RemoveKept DEF Unreact
<1>3. ASSUME NEW m \in Message, NEW u \in User, NEW add \in BOOLEAN, BotReaction(m, u, add)
      PROVE  KeptInv'
  BY <1>3, AddKept, RemoveKept DEF BotReaction
<1>4. ASSUME NEW m \in Message, NEW text \in Text \cup {Blank}, PinMessage(m, text) PROVE KeptInv'
  BY <1>4, PinKept
<1>5. ASSUME NEW m \in Message, UnpinMessage(m) PROVE KeptInv'
  BY <1>5, UnpinKept
<1>6. ASSUME NEW u \in User, NEW s \in Status, SetStatus(u, s) PROVE KeptInv'
  BY <1>6, StatusKept
<1>7. CASE Restart
  BY <1>7, RestartKept
<1>8. CASE UNCHANGED engagementVars
  BY <1>8 DEF engagementVars, KeptInv, EngagementTypeOK, AnsweredIsKept
<1> QED BY <1>1, <1>2, <1>3, <1>4, <1>5, <1>6, <1>7, <1>8 DEF EngagementNext

LEMMA KeptInvariance == EngagementSpec => []KeptInv
BY InitKept, NextKept, PTL DEF EngagementSpec

\* Every variable keeps to its type: a store and its table have under a key only what its
\* kind can have.
THEOREM StoresTyped == EngagementSpec => []EngagementTypeOK
<1>1. KeptInv => EngagementTypeOK
  BY DEF KeptInv
<1> QED BY <1>1, KeptInvariance, PTL

\* What the last request left is in the table and shown, across failing listings, crashes
\* and processes without a database, unless its statement failed (write-through and rebuild
\* of the stores in spaces_ext.go).
THEOREM EngagementKept == EngagementSpec => []AnsweredIsKept
<1>1. KeptInv => AnsweredIsKept
  BY DEF KeptInv
<1> QED BY <1>1, KeptInvariance, PTL

----------------------------------------------------------------------------
\* The search

\* What a search relies on: row and index entry of the message are as in memory.
InStep(m) ==
  /\ persister # "memory" => row[m] = index[m]
  /\ persister = "sqlite" => fts[m] = {index[m]} \cap Body

\* How far a write is that has not failed so far.
Underway ==
  write.stage # "none" =>
    /\ write.message \notin clean
    /\ write.stage \in {"unindex", "index"} => persister = "sqlite"
    /\ write.whole =>
         /\ write.saved = write.memory
         /\ write.stage # "save" /\ persister # "memory" => row[write.message] = write.saved
         /\ write.stage = "index" => fts[write.message] = {}
         /\ write.stage = "unlock" /\ persister = "sqlite" =>
              fts[write.message] = {write.saved} \cap Body

\* What a search that is under way may answer, and what it must not miss.
Watched ==
  /\ search.found \subseteq search.could
  /\ search.stage \in {"asked", "looking"} =>
       /\ \A m \in Searched : MatchMsg(index[m], search.query) => m \in search.could
       /\ \A m \in search.steady : m \in clean /\ index[m] \in Reach(search.query)
  /\ search.stage = "looking" => search.steady \subseteq search.ids \cup search.found

SearchInv ==
  /\ SearchTypeOK
  /\ \A m \in clean : InStep(m)
  /\ Underway
  /\ Watched
  /\ SearchExplained

LEMMA MarksAreNoText == {Never} \cap Body = {} /\ {Deleted} \cap Body = {}
BY SearchAssumption

LEMMA QueryType ==
  ASSUME NEW q \in Query
  PROVE  /\ Says[q] \subseteq Body
         /\ Matched["sqlite"][q] \subseteq Body /\ Matched["postgres"][q] \subseteq Body
BY QueryAssumption

\* Whatever is within reach has the words.
LEMMA ReachMatches ==
  ASSUME NEW q \in Query, NEW state \in Reach(q)
  PROVE  MatchMsg(state, q)
BY QueryType, SearchAssumption DEF Reach, MatchMsg

LEMMA NoWriteType == NoWrite \in Write /\ NoWrite.stage = "none"
BY SearchAssumption DEF NoWrite, Write, State

LEMMA NoSearchType ==
  /\ NoSearch \in Search /\ NoSearch.stage = "none"
  /\ NoSearch.found = {} /\ NoSearch.could = {} /\ NoSearch.ids = {} /\ NoSearch.steady = {}
BY QueryAssumption DEF NoSearch, Search

LEMMA SearchInitInv == SearchInit => SearchInv
BY MarksAreNoText, NoWriteType, NoSearchType
   DEF SearchInit, SearchInv, SearchTypeOK, State, InStep, Underway, Watched, SearchExplained

\* What a moment of memory does to a search that is under way.
LEMMA WatchEffect ==
  ASSUME NEW s \in Search, NEW memory \in [Searched -> State], NEW touched \in SUBSET Searched
  PROVE  LET w == Watch(s, memory, touched) IN
         /\ w \in Search
         /\ w.stage = s.stage /\ w.query = s.query /\ w.ids = s.ids /\ w.found = s.found
         /\ s.stage \notin {"asked", "looking"} => w = s
         /\ s.stage \in {"asked", "looking"} =>
              /\ w.could = s.could \cup {m \in Searched : MatchMsg(memory[m], s.query)}
              /\ w.steady = s.steady \ touched
BY DEF Watch, Search

LEMMA BeginInv ==
  ASSUME SearchInv, NEW m \in Searched, Begin(m)
  PROVE  SearchInv'
<1>1. PICK saved \in Body \cup {Deleted}, memory \in State :
        write' = [stage |-> "save", message |-> m, memory |-> memory, saved |-> saved,
                  whole |-> memory = saved]
  BY DEF Begin
<1>2. search' = Watch(search, index, {m}) /\ clean' = clean \ {m}
      /\ UNCHANGED <<persister, index, row, fts>>
  BY DEF Begin
<1>3. search \in Search /\ index \in [Searched -> State] /\ clean \subseteq Searched
  BY DEF SearchInv, SearchTypeOK
<1>4. search' \in Search /\ Watched' /\ SearchExplained'
  BY <1>2, <1>3, WatchEffect DEF SearchInv, Watched, SearchExplained, Reach, MatchMsg
<1>5. SearchTypeOK'
  BY <1>1, <1>2, <1>4 DEF SearchInv, SearchTypeOK, Write, State
<1>6. (\A x \in clean : InStep(x))'
  BY <1>2 DEF SearchInv, InStep
<1>7. Underway'
  BY <1>1, <1>2 DEF Underway
<1> QED BY <1>4, <1>5, <1>6, <1>7 DEF SearchInv

LEMMA SaveMessageSearchInv ==
  ASSUME SearchInv, SaveMessage
  PROVE  SearchInv'
<1>1. UNCHANGED <<persister, index, fts, search, clean>> /\ write.stage = "save"
  BY DEF SaveMessage
<1>2. write \in Write /\ row \in [Searched -> State] /\ persister \in {"sqlite", "postgres", "memory"}
  BY DEF SearchInv, SearchTypeOK
<1>3. write.message \in Searched /\ write.message \notin clean
  BY <1>1, <1>2 DEF SearchInv, Underway, Write
<1>4. \/ /\ row' = [row EXCEPT ![write.message] = write.saved]
         /\ \/ persister = "sqlite" /\ write' = [write EXCEPT !.stage = "unindex"]
            \/ persister # "sqlite" /\ write' = [write EXCEPT !.stage = "unlock"]
      \/ row' = row /\ write' = [write EXCEPT !.stage = "unlock", !.whole = FALSE]
  BY DEF SaveMessage, SaveMessageSQLite, SaveMessagePostgres, SaveMessageInMemory, Saved, NotSaved
<1>5. SearchTypeOK'
  <2>1. row' \in [Searched -> State]
    BY <1>2, <1>4 DEF Write
  <2>2. write' \in Write
    BY <1>2, <1>4 DEF Write
  <2> QED BY <1>1, <2>1, <2>2 DEF SearchInv, SearchTypeOK
<1>6. (\A x \in clean : InStep(x))'
  BY <1>1, <1>2, <1>3, <1>4 DEF SearchInv, SearchTypeOK, InStep
<1>7. Underway'
  BY <1>1, <1>2, <1>3, <1>4 DEF SearchInv, Underway, Write
<1>8. Watched' /\ SearchExplained'
  BY <1>1 DEF SearchInv, Watched, SearchExplained, Reach, MatchMsg
<1> QED BY <1>5, <1>6, <1>7, <1>8 DEF SearchInv

LEMMA IndexMessageSearchInv ==
  ASSUME SearchInv, IndexMessage
  PROVE  SearchInv'
<1> DEFINE m == write.message
<1>1. /\ UNCHANGED <<persister, index, row, search, clean>>
      /\ write.stage \in {"unindex", "index"}
  BY DEF IndexMessage
<1>2. write \in Write /\ fts \in [Searched -> SUBSET Body] /\ persister = "sqlite"
  BY <1>1 DEF SearchInv, SearchTypeOK, Underway
<1>3. m \in Searched /\ m \notin clean
  BY <1>1, <1>2 DEF SearchInv, Underway, Write
<1>4. \/ /\ write.stage = "unindex" /\ write' = [write EXCEPT !.stage = "index"]
         /\ fts' = [fts EXCEPT ![m] = {}]
      \/ /\ write.stage = "index" /\ write' = [write EXCEPT !.stage = "unlock"]
         /\ fts' = [fts EXCEPT ![m] = @ \cup ({write.saved} \cap Body)]
      \/ /\ \E stage \in {"index", "unlock"} :
              write' = [write EXCEPT !.stage = stage, !.whole = FALSE]
         /\ fts' = fts
  <2>1. write.saved \notin Body => fts = [fts EXCEPT ![m] = @ \cup ({write.saved} \cap Body)]
    BY <1>2
  <2>2. write.saved \in Body => {write.saved} \cap Body = {write.saved}
    OBVIOUS
  <2> QED BY <2>1, <2>2 DEF IndexMessage
<1>5. SearchTypeOK'
  <2>1. fts' \in [Searched -> SUBSET Body]
    BY <1>2, <1>4
  <2>2. write' \in Write
    BY <1>2, <1>4 DEF Write
  <2> QED BY <1>1, <2>1, <2>2 DEF SearchInv, SearchTypeOK
<1>6. (\A x \in clean : InStep(x))'
  BY <1>1, <1>2, <1>3, <1>4 DEF SearchInv, SearchTypeOK, InStep
<1>7. Underway'
  <2>1. fts[m] \subseteq Body /\ write' \in Write /\ m \in DOMAIN fts
    BY <1>2, <1>3, <1>5 DEF SearchInv, SearchTypeOK
  <2>2. write'.message = m /\ write'.saved = write.saved /\ write'.memory = write.memory
    BY <1>2, <1>4 DEF Write
  <2>3. write'.whole => write.whole /\ write.saved = write.memory /\ row[m] = write.saved
    BY <1>1, <1>2, <1>4 DEF SearchInv, Underway, Write
  <2>4. write'.whole /\ write'.stage = "index" => fts'[m] = {}
    BY <1>1, <1>2, <1>4, <2>1 DEF Write
  <2>5. write'.whole /\ write'.stage = "unlock" => fts'[m] = {write.saved} \cap Body
    <3>1. write'.whole /\ write'.stage = "unlock" =>
            fts[m] = {} /\ fts' = [fts EXCEPT ![m] = @ \cup ({write.saved} \cap Body)]
      BY <1>1, <1>2, <1>4 DEF SearchInv, Underway, Write
    <3> QED BY <2>1, <3>1
  <2>6. write'.stage \in {"index", "unlock"}
    BY <1>2, <1>4 DEF Write
  <2> QED BY <1>1, <1>2, <1>3, <2>2, <2>3, <2>4, <2>5, <2>6 DEF Underway
<1>8. Watched' /\ SearchExplained'
  BY <1>1 DEF SearchInv, Watched, SearchExplained, Reach, MatchMsg
<1> QED BY <1>5, <1>6, <1>7, <1>8 DEF SearchInv

LEMMA UnlockSearchInv ==
  ASSUME SearchInv, Unlock
  PROVE  SearchInv'
<1>a. PICK m : m = write.message
  OBVIOUS
<1>1. /\ write.stage = "unlock"
      /\ index' = [index EXCEPT ![m] = write.memory]
      /\ clean' = IF write.whole THEN clean \cup {m} ELSE clean
      /\ search' = Watch(search, index', {m})
      /\ write' = NoWrite
      /\ UNCHANGED <<persister, row, fts>>
  BY <1>a DEF Unlock
<1>2. write \in Write /\ index \in [Searched -> State] /\ search \in Search /\ clean \subseteq Searched
  BY DEF SearchInv, SearchTypeOK
<1>3. m \in Searched /\ m \notin clean
  BY <1>a, <1>1, <1>2 DEF SearchInv, Underway, Write
<1>4. index' \in [Searched -> State]
  BY <1>1, <1>2 DEF Write
<1>5. search' \in Search /\ Watched' /\ SearchExplained'
  <2>1. /\ search' \in Search
        /\ search'.stage = search.stage /\ search'.query = search.query
        /\ search'.ids = search.ids /\ search'.found = search.found
        /\ search.stage \notin {"asked", "looking"} => search' = search
        /\ search.stage \in {"asked", "looking"} =>
             /\ search'.could = search.could \cup {x \in Searched : MatchMsg(index'[x], search.query)}
             /\ search'.steady = search.steady \ {m}
    <3>1. PICK after : after = index'
      OBVIOUS
    <3>2. after \in [Searched -> State] /\ search' = Watch(search, after, {m})
      BY <1>1, <1>4, <3>1
    <3> QED BY <1>2, <1>3, <3>1, <3>2, WatchEffect
  <2>2. \A x \in Searched \ {m} : index'[x] = index[x]
    BY <1>1, <1>2
  <2>3. clean \subseteq clean' /\ persister' = persister
    BY <1>1
  <2>4. CASE search.stage \in {"asked", "looking"}
    BY <1>2, <2>1, <2>2, <2>3, <2>4 DEF SearchInv, Watched, SearchExplained, Reach, MatchMsg, Search
  <2>5. CASE search.stage \notin {"asked", "looking"}
    BY <2>1, <2>5 DEF SearchInv, Watched, SearchExplained
  <2> QED BY <2>1, <2>4, <2>5
<1>6. SearchTypeOK'
  BY <1>1, <1>2, <1>3, <1>4, <1>5, NoWriteType DEF SearchInv, SearchTypeOK
<1>7. (\A x \in clean : InStep(x))'
  <2>1. write.whole => InStep(m)'
    BY <1>a, <1>1, <1>2, <1>3 DEF SearchInv, Underway, InStep
  <2>2. \A x \in clean : InStep(x)'
    BY <1>1, <1>2, <1>3 DEF SearchInv, InStep
  <2> QED BY <1>1, <2>1, <2>2
<1>8. Underway'
  BY <1>1, NoWriteType DEF Underway
<1> QED BY <1>5, <1>6, <1>7, <1>8 DEF SearchInv

LEMMA RestartSearchInv ==
  ASSUME SearchInv, RestartSearch
  PROVE  SearchInv'
<1>1. /\ row' = IF persister = "memory" THEN [m \in Searched |-> Never] ELSE row
      /\ index' = row' /\ persister' = persister
      /\ write' = NoWrite /\ search' = NoSearch
  BY DEF RestartSearch
<1>2. /\ row \in [Searched -> State] /\ fts \in [Searched -> SUBSET Body]
      /\ persister \in {"sqlite", "postgres", "memory"}
  BY DEF SearchInv, SearchTypeOK
<1>3. row' \in [Searched -> State]
  BY <1>1, <1>2 DEF State
<1>4. \/ clean' = {} /\ fts' \in [Searched -> SUBSET Body]
      \/ /\ clean' = Searched
         /\ fts' = [m \in Searched |-> IF persister = "sqlite" THEN {row[m]} \cap Body ELSE {}]
  BY <1>2 DEF RestartSearch
<1>5. SearchTypeOK'
  BY <1>1, <1>2, <1>3, <1>4, NoWriteType, NoSearchType DEF SearchTypeOK
<1>6. (\A x \in clean : InStep(x))'
  <2>1. ASSUME NEW x \in clean' PROVE InStep(x)'
    BY <1>1, <1>2, <1>4, <2>1 DEF InStep
  <2> QED BY <2>1
<1>7. Underway' /\ Watched' /\ SearchExplained'
  BY <1>1, NoWriteType, NoSearchType DEF Underway, Watched, SearchExplained
<1> QED BY <1>5, <1>6, <1>7 DEF SearchInv

\* Steps of a search change nothing else.
LEMMA SearchStepInv ==
  ASSUME SearchInv, UNCHANGED <<persister, index, row, fts, write, clean>>,
         search' \in Search, Watched', SearchExplained'
  PROVE  SearchInv'
BY DEF SearchInv, SearchTypeOK, InStep, Underway

LEMMA StartInv ==
  ASSUME SearchInv, NEW q \in Query, Start(q)
  PROVE  SearchInv'
<1>1. /\ UNCHANGED <<persister, index, row, fts, write, clean>>
      /\ clean \subseteq Searched
  BY DEF Start, SearchInv, SearchTypeOK
<1>2. search' \in Search
  BY <1>1, NoSearchType DEF Start, Search
<1>3. /\ search'.stage = "asked" /\ search'.query = q /\ search'.found = {}
      /\ search'.could = {m \in Searched : MatchMsg(index[m], q)}
      /\ search'.steady \subseteq {m \in clean : index[m] \in Reach(q)}
  BY NoSearchType DEF Start, Search
<1>4. Watched' /\ SearchExplained'
  BY <1>1, <1>3 DEF Watched, SearchExplained, Reach, MatchMsg
<1> QED BY <1>1, <1>2, <1>4, SearchStepInv

\* What matches on either database has the messages that must not be missed.
LEMMA SearchIndexedInv ==
  ASSUME SearchInv, SearchIndexed
  PROVE  SearchInv'
<1> DEFINE ids == IF persister = "sqlite" THEN MatchingSQLite(search.query)
                                          ELSE MatchingPostgres(search.query)
<1>1. /\ UNCHANGED <<persister, index, row, fts, write, clean>>
      /\ search.stage = "asked" /\ persister # "memory"
      /\ search' = [search EXCEPT !.stage = "looking", !.ids = ids]
  BY DEF SearchIndexed
<1>2. search \in Search /\ clean \subseteq Searched
  BY DEF SearchInv, SearchTypeOK
<1>3. ids \subseteq Searched
  BY DEF MatchingSQLite, MatchingPostgres
<1>4. search.steady \subseteq ids
  <2>1. ASSUME NEW m \in search.steady PROVE m \in ids
    <3>1. /\ m \in Searched /\ index[m] \in Reach(search.query) /\ search.query \in Query
          /\ row[m] = index[m]
          /\ persister = "sqlite" => fts[m] = {index[m]} \cap Body
      BY <1>1, <1>2, <2>1 DEF SearchInv, Watched, InStep, Search
    <3>2. /\ index[m] \in Matched[persister][search.query] /\ index[m] \in Body
          /\ persister \in {"sqlite", "postgres"}
      BY <1>1, <3>1, QueryType DEF SearchInv, SearchTypeOK, Reach
    <3>3. CASE persister = "sqlite"
      BY <3>1, <3>2, <3>3, SearchAssumption DEF MatchingSQLite
    <3>4. CASE persister = "postgres"
      BY <3>1, <3>2, <3>4 DEF MatchingPostgres
    <3> QED BY <3>2, <3>3, <3>4
  <2> QED BY <2>1
<1> HIDE DEF ids
<1>5. search' \in Search
  BY <1>1, <1>2, <1>3 DEF Search
<1>6. Watched' /\ SearchExplained'
  BY <1>1, <1>2, <1>4 DEF SearchInv, Watched, SearchExplained, Reach, MatchMsg, Search
<1> QED BY <1>1, <1>5, <1>6, SearchStepInv

LEMMA LookUpInv ==
  ASSUME SearchInv, LookUp
  PROVE  SearchInv'
<1>1. /\ UNCHANGED <<persister, index, row, fts, write, clean>>
      /\ search.stage = "looking" /\ search \in Search
  BY DEF LookUp, SearchInv, SearchTypeOK
<1>2. PICK m \in search.ids :
        search' = [search EXCEPT !.ids = @ \ {m},
                     !.found = IF MatchMsg(index[m], search.query) THEN @ \cup {m} ELSE @]
  BY DEF LookUp
<1>3. m \in Searched /\ search.query \in Query
  BY <1>1, <1>2 DEF Search
<1>4. /\ search' \in Search
      /\ search'.stage = "looking" /\ search'.query = search.query
      /\ search'.could = search.could /\ search'.steady = search.steady
      /\ search'.ids = search.ids \ {m}
      /\ search'.found = IF MatchMsg(index[m], search.query) THEN search.found \cup {m} ELSE search.found
  BY <1>1, <1>2, <1>3 DEF Search
<1>5. \A x \in search.steady : MatchMsg(index[x], search.query)
  BY <1>1, <1>3, ReachMatches DEF SearchInv, Watched
<1>6. Watched' /\ SearchExplained'
  BY <1>1, <1>3, <1>4, <1>5 DEF SearchInv, Watched, SearchExplained, Reach, MatchMsg
<1> QED BY <1>1, <1>4, <1>6, SearchStepInv

LEMMA ScanInv ==
  ASSUME SearchInv, Scan
  PROVE  SearchInv'
<1>1. /\ UNCHANGED <<persister, index, row, fts, write, clean>>
      /\ search.stage = "asked" /\ search \in Search /\ clean \subseteq Searched
  BY DEF Scan, SearchInv, SearchTypeOK
<1>2. \A x \in search.steady : MatchMsg(index[x], search.query)
  BY <1>1, ReachMatches DEF SearchInv, Watched, Search
<1>3. /\ search' \in Search
      /\ search'.stage = "answered" /\ search'.could = search.could
      /\ search'.steady = search.steady
      /\ search'.found = {m \in Searched : MatchMsg(index[m], search.query)}
  BY <1>1 DEF Scan, Search
<1>4. Watched' /\ SearchExplained'
  BY <1>1, <1>2, <1>3 DEF SearchInv, Watched, SearchExplained, Reach, MatchMsg, Search
<1> QED BY <1>1, <1>3, <1>4, SearchStepInv

LEMMA AnswerInv ==
  ASSUME SearchInv, Answer
  PROVE  SearchInv'
<1>1. /\ UNCHANGED <<persister, index, row, fts, write, clean>>
      /\ search.stage = "looking" /\ search.ids = {} /\ search \in Search
  BY DEF Answer, SearchInv, SearchTypeOK
<1>2. /\ search' \in Search
      /\ search'.stage = "answered" /\ search'.could = search.could
      /\ search'.steady = search.steady /\ search'.found = search.found
  BY <1>1 DEF Answer, Search
<1>3. Watched' /\ SearchExplained'
  BY <1>1, <1>2 DEF SearchInv, Watched, SearchExplained
<1> QED BY <1>1, <1>2, <1>3, SearchStepInv

\* The invariant of the search holds in every reachable state.
THEOREM SearchInvariant == SearchSpec => []SearchInv
<1>1. SearchInv /\ [SearchNext]_searchVars => SearchInv'
  <2> SUFFICES ASSUME SearchInv, [SearchNext]_searchVars PROVE SearchInv'
    OBVIOUS
  <2>1. CASE UNCHANGED searchVars
    BY <2>1 DEF searchVars, SearchInv, SearchTypeOK, InStep, Underway, Watched, SearchExplained, Reach, MatchMsg
  <2>2. CASE SearchNext
    BY <2>2, BeginInv, SaveMessageSearchInv, IndexMessageSearchInv, UnlockSearchInv,
       RestartSearchInv, StartInv, SearchIndexedInv, LookUpInv, ScanInv, AnswerInv DEF SearchNext
  <2> QED BY <2>1, <2>2
<1> QED BY <1>1, SearchInitInv, PTL DEF SearchSpec

\* The search and its index have the values their columns allow, after every
\* failed statement, race and restart (SearchMessages, indexMessage, load).
THEOREM SearchTyped == SearchSpec => []SearchTypeOK
<1>1. SearchInv => SearchTypeOK
  BY DEF SearchInv
<1> QED BY <1>1, SearchInvariant, PTL

\* An answer has only messages that said the text at some moment of the search,
\* and all within its reach that said it throughout, in spite of index entries
\* that failed statements left behind (SearchMessages, indexMessage).
THEOREM SearchesAreExplained == SearchSpec => []SearchExplained
<1>1. SearchInv => SearchExplained
  BY DEF SearchInv
<1> QED BY <1>1, SearchInvariant, PTL

----------------------------------------------------------------------------
\* Both, as the run composes them: stores and search keep to their types, whichever of
\* the two moves (NewSpacesHandler, SearchMessages).
THEOREM HalvesTyped == Spec => []TypeOK
<1>1. Spec => EngagementSpec /\ SearchSpec
  <2>1. Init => EngagementInit /\ SearchInit
    BY DEF Init
  <2>2. [Next]_mcVars => [EngagementNext]_engagementVars /\ [SearchNext]_searchVars
    BY DEF Next, mcVars
  <2> QED BY <2>1, <2>2, PTL DEF Spec, EngagementSpec, SearchSpec
<1>2. SearchTypeOK /\ EngagementTypeOK => TypeOK
  BY DEF TypeOK
<1> QED BY <1>1, <1>2, StoresTyped, SearchTyped, PTL

=============================================================================
