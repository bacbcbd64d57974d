----------------------------- MODULE Dictionary -----------------------------
(***************************************************************************)
(* The keyword dictionary: POST, PATCH and DELETE of                       *)
(* lambdas/dictionary_api/handler.py, the start of a cycle that reads the  *)
(* current version (lambdas/cycle_api/handler.py), and KeywordMatcher,     *)
(* which judges by the snapshot of that version.                           *)
(*                                                                         *)
(* An edit is three writes to two tables: the counter in the META row, the *)
(* keyword's row, the rows of the snapshot.  Each may fail, and other      *)
(* edits run between them: the counter is an optimistic lock on the first  *)
(* write only.                                                             *)
(*                                                                         *)
(* Versions are counted from a settled dictionary; the table scan reads    *)
(* all rows at one instant, and sees every write that came before it.      *)
(***************************************************************************)
EXTENDS Naturals, FiniteSets

CONSTANTS
  Handlers,    \* DictionaryApi invocations that may run at the same time
  Keywords,    \* "category#keyword"
  CategoryOf,  \* the category of each
  Cycles,
  MaxVersion   \* bound: how far the counter goes

ASSUME MaxVersionAssumption == MaxVersion \in Nat

VARIABLES
  currentVersion,  \* META.currentVersion
  keywords,        \* the rows of KeywordDictionary
  history,         \* per version: the rows of KeywordDictionaryHistory
  pc,              \* per handler: where it stands
  edit,            \* per handler: the operation, its keyword and expectedVersion
  new,             \* per handler: the version it was given, or none
  todo,            \* per handler: the rows its snapshot has still to write
  alone,           \* the handlers nobody wrote beside since their increment
  whole,           \* the versions whose edit succeeded, and had been alone
  start,           \* per cycle: how far its start is
  found,           \* the cycles that found a keyword so far
  dictionaryVersion,  \* per cycle: the version in its row
  settled,         \* the cycles whose version was finished when they took it
  judgedBy         \* per cycle: the snapshots its transcripts were judged by

editVars == <<pc, edit, new, todo, alone, whole>>
cycleVars == <<start, found, dictionaryVersion, settled, judgedBy>>
dictVars == <<currentVersion, keywords, history, editVars, cycleVars>>

Versions == 0..MaxVersion
NoVersion == MaxVersion + 1

Operation == {"POST", "PATCH", "DELETE"}
Edit == [op : Operation, word : Keywords, expected : Versions]
NoEdit == [op |-> "none"]
EditState == {"idle", "get", "increment", "mutate", "scan", "batch"}

(* The handlers that have a version and have not answered yet.               *)
Writing == {h \in Handlers : pc[h] \in {"mutate", "scan", "batch"}}

VALID_CATEGORIES == {"SAFE", "INJURED", "UNAVAILABLE"}
CycleStartState == VALID_CATEGORIES \cup {"version", "running", "rejected"}

-----------------------------------------------------------------------------

Init ==
  /\ currentVersion = 0
  /\ keywords \in SUBSET Keywords
  /\ history = [v \in Versions |-> IF v = 0 THEN keywords ELSE {}]
  /\ pc = [h \in Handlers |-> "idle"]
  /\ edit = [h \in Handlers |-> NoEdit]
  /\ new = [h \in Handlers |-> NoVersion]
  /\ todo = [h \in Handlers |-> {}]
  /\ alone = {}
  /\ whole = {0}
  /\ start = [c \in Cycles |-> "SAFE"]
  /\ found = {}
  /\ dictionaryVersion = [c \in Cycles |-> 0]
  /\ settled = {}
  /\ judgedBy = [c \in Cycles |-> {}]

Proceed(h, state) == pc' = [pc EXCEPT ![h] = state]

(* The end of an invocation, whatever it answers.                            *)
Return(h) ==
  /\ Proceed(h, "idle")
  /\ edit' = [edit EXCEPT ![h] = NoEdit]
  /\ new' = [new EXCEPT ![h] = NoVersion]
  /\ todo' = [todo EXCEPT ![h] = {}]
  /\ alone' = alone \ {h}

(* The client has just read the version; PATCH looks at the row first.       *)
Arrive(h) ==
  /\ pc[h] = "idle"
  /\ \E op \in Operation, word \in Keywords :
       /\ edit' = [edit EXCEPT ![h] = [op |-> op, word |-> word, expected |-> currentVersion]]
       /\ Proceed(h, IF op = "PATCH" THEN "get" ELSE "increment")
  /\ UNCHANGED <<currentVersion, keywords, history, new, todo, alone, whole, cycleVars>>

GetKeyword(h) ==
  /\ pc[h] = "get"
  /\ IF edit[h].word \in keywords
     THEN Proceed(h, "increment") /\ UNCHANGED <<edit, new, todo, alone>>
     ELSE Return(h)
  /\ UNCHANGED <<currentVersion, keywords, history, whole, cycleVars>>

(* A handler that starts to write ends the solitude of those that do.        *)
Take(h, v) ==
  /\ v \in Versions
  /\ currentVersion' = v
  /\ new' = [new EXCEPT ![h] = v]
  /\ alone' = IF Writing = {} THEN alone \cup {h} ELSE alone \ Writing
  /\ Proceed(h, "mutate")
  /\ UNCHANGED <<edit, todo>>

(* Mutant: the counter is written without its condition.                     *)
IncrementVersionBlindly(h) ==
  /\ pc[h] = "increment"
  /\ Take(h, edit[h].expected + 1)
  /\ UNCHANGED <<keywords, history, whole, cycleVars>>

(* update_item on condition that currentVersion is still the expected one.   *)
IncrementVersion(h) ==
  /\ pc[h] = "increment"
  /\ IF currentVersion = edit[h].expected
     THEN Take(h, currentVersion + 1)
     ELSE Return(h) /\ UNCHANGED currentVersion
  /\ UNCHANGED <<keywords, history, whole, cycleVars>>

(* The row: POST puts it if it is absent, DELETE removes it if it is there,  *)
(* PATCH writes it in any case.  A failed condition is answered with 409,    *)
(* and the counter stays raised.                                             *)
MutateKeyword(h) ==
  LET word == edit[h].word
      refused == \/ edit[h].op = "POST" /\ word \in keywords
                 \/ edit[h].op = "DELETE" /\ word \notin keywords
  IN /\ pc[h] = "mutate"
     /\ IF refused THEN Return(h) /\ UNCHANGED keywords
        ELSE /\ Proceed(h, "scan")
             /\ keywords' = IF edit[h].op = "DELETE" THEN keywords \ {word}
                                                     ELSE keywords \cup {word}
             /\ UNCHANGED <<edit, new, todo, alone>>
     /\ UNCHANGED <<currentVersion, history, whole, cycleVars>>

(* Mutant: the snapshot adds its own word to the one before.                 *)
ScanOwnWord(h) ==
  /\ pc[h] = "scan"
  /\ todo' = [todo EXCEPT ![h] = history[new[h] - 1] \cup {edit[h].word}]
  /\ Proceed(h, "batch")
  /\ UNCHANGED <<currentVersion, keywords, history, edit, new, alone, whole, cycleVars>>

(* Mutant: the META row is not left out.                                     *)
ScanAll(h) ==
  /\ pc[h] = "scan"
  /\ todo' = [todo EXCEPT ![h] = keywords \cup {"META#META"}]
  /\ Proceed(h, "batch")
  /\ UNCHANGED <<currentVersion, keywords, history, edit, new, alone, whole, cycleVars>>

(* Every row but META.                                                       *)
ScanAllActive(h) ==
  /\ pc[h] = "scan"
  /\ todo' = [todo EXCEPT ![h] = keywords]
  /\ Proceed(h, "batch")
  /\ UNCHANGED <<currentVersion, keywords, history, edit, new, alone, whole, cycleVars>>

(* A call of BatchWriteItem writes some of the rows; the rest is sent again. *)
WriteHistorySnapshot(h) ==
  /\ pc[h] = "batch"
  /\ \E rows \in SUBSET todo[h] :
       /\ history' = [history EXCEPT ![new[h]] = @ \cup rows]
       /\ IF rows = todo[h]
          THEN /\ Return(h)
               /\ whole' = IF h \in alone THEN whole \cup {new[h]} ELSE whole
          ELSE /\ rows # {}
               /\ todo' = [todo EXCEPT ![h] = @ \ rows]
               /\ UNCHANGED <<pc, edit, new, alone, whole>>
  /\ UNCHANGED <<currentVersion, keywords, cycleVars>>

(* An access fails with another error, or the Lambda ends.                   *)
HandlerBreaks(h) ==
  /\ pc[h] # "idle"
  /\ Return(h)
  /\ UNCHANGED <<currentVersion, keywords, history, whole, cycleVars>>

-----------------------------------------------------------------------------
(* A cycle.                                                                  *)

(* One query per category, in this order; the cycle starts if there was a    *)
(* keyword in any of them.                                                   *)
QueryCategory(c) ==
  /\ start[c] \in VALID_CATEGORIES
  /\ found' = IF \E k \in keywords : CategoryOf[k] = start[c] THEN found \cup {c} ELSE found
  /\ start' = [start EXCEPT ![c] = CASE @ = "SAFE"        -> "INJURED"
                                     [] @ = "INJURED"     -> "UNAVAILABLE"
                                     [] @ = "UNAVAILABLE" ->
                                          IF c \in found' THEN "version" ELSE "rejected"]
  /\ UNCHANGED <<currentVersion, keywords, history, editVars, dictionaryVersion,
                 settled, judgedBy>>

(* The version goes into the cycle's row.                                    *)
GetDictVersion(c) ==
  /\ start[c] = "version"
  /\ start' = [start EXCEPT ![c] = "running"]
  /\ dictionaryVersion' = [dictionaryVersion EXCEPT ![c] = currentVersion]
  /\ settled' = IF \A h \in Writing : new[h] # currentVersion
                THEN settled \cup {c} ELSE settled
  /\ UNCHANGED <<currentVersion, keywords, history, editVars, found, judgedBy>>

Judge(c, version) ==
  /\ start[c] = "running"
  /\ judgedBy' = [judgedBy EXCEPT ![c] = @ \cup {history[version]}]
  /\ UNCHANGED <<currentVersion, keywords, history, editVars, start, found,
                 dictionaryVersion, settled>>

(* Mutant: the matcher takes the version of the day.                         *)
ClassifyByCurrent(c) == Judge(c, currentVersion)

(* KeywordMatcher judges a transcript by the rows of the cycle's version.    *)
Classify(c) == Judge(c, dictionaryVersion[c])

-----------------------------------------------------------------------------

EditStep(h) ==
  \/ Arrive(h) \/ GetKeyword(h) \/ IncrementVersion(h) \/ MutateKeyword(h)
  \/ ScanAllActive(h) \/ WriteHistorySnapshot(h) \/ HandlerBreaks(h)

Next ==
  \/ \E h \in Handlers : EditStep(h)
  \/ \E c \in Cycles : QueryCategory(c) \/ GetDictVersion(c) \/ Classify(c)

DictionarySpec == Init /\ [][Next]_dictVars

-----------------------------------------------------------------------------

(* Every variable has its type.                                              *)
DictionaryTypeOK ==
  /\ currentVersion \in Versions
  /\ keywords \subseteq Keywords
  /\ history \in [Versions -> SUBSET Keywords]
  /\ pc \in [Handlers -> EditState]
  /\ edit \in [Handlers -> Edit \cup {NoEdit}]
  /\ \A h \in Handlers : pc[h] # "idle" => edit[h] \in Edit
  /\ new \in [Handlers -> Versions \cup {NoVersion}]
  /\ todo \in [Handlers -> SUBSET Keywords]
  /\ alone \subseteq Writing
  /\ whole \subseteq Versions
  /\ start \in [Cycles -> CycleStartState]
  /\ found \subseteq Cycles
  /\ dictionaryVersion \in [Cycles -> Versions]
  /\ settled \subseteq Cycles
  /\ judgedBy \in [Cycles -> SUBSET (SUBSET Keywords)]

EditOver(v) == v <= currentVersion /\ \A h \in Writing : new[h] # v

(* A version whose edit is over - answered, refused or broken off - is never *)
(* given to another one, and has got the snapshot it will always have        *)
(* (_increment_version).                                                     *)
SnapshotFrozen ==
  [][\A v \in Versions :
       EditOver(v) => EditOver(v)' /\ history'[v] = history[v]]_dictVars

(* All transcripts of a cycle are judged by the same keywords, whatever      *)
(* becomes of the dictionary meanwhile, if the cycle did not start between   *)
(* the counter and the snapshot of an edit (Requirement 8.5, Property 19).   *)
CycleJudgedAlike ==
  \A c \in settled : Cardinality(judgedBy[c]) <= 1

(* The current snapshot is the dictionary as soon as one edit had it for     *)
(* itself from the counter to the last row, whatever refused, broken or      *)
(* overlapping edits left before (_write_history_snapshot copies every row). *)
LoneEditHeals ==
  currentVersion \in whole => history[currentVersion] = keywords

=============================================================================
