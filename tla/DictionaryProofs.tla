-------------------------- MODULE DictionaryProofs --------------------------
(***************************************************************************)
(* The optimistic lock of DictionaryApi gives each version to one edit;    *)
(* hence a snapshot never changes once its edit is over, a cycle is judged *)
(* by one set of keywords, and an edit that runs alone repairs what others *)
(* left.                                                                   *)
(***************************************************************************)
EXTENDS Dictionary, FiniteSetTheorems, TLAPS

(* No two writers share a version, and a version nobody has scanned for yet  *)
(* has no rows.                                                              *)
VersionsOwned ==
  /\ \A h \in Writing : new[h] \in Versions /\ new[h] <= currentVersion
  /\ \A h, g \in Writing : new[h] = new[g] => h = g
  /\ \A v \in Versions : v > currentVersion => history[v] = {}
  /\ \A h \in Handlers : pc[h] \in {"mutate", "scan"} => history[new[h]] = {}

(* A handler that writes alone holds the current version, and what it has    *)
(* written and has still to write is the dictionary.                         *)
SolitudeKept ==
  /\ \A h \in alone : Writing = {h} /\ new[h] = currentVersion
  /\ \A h \in alone : pc[h] = "batch" => history[new[h]] \cup todo[h] = keywords
  /\ \A v \in whole : v <= currentVersion
  /\ currentVersion \in whole => Writing = {} /\ history[currentVersion] = keywords

(* The version of a cycle that started on a finished snapshot has no writer. *)
CyclesFixed ==
  /\ \A c \in Cycles :
       /\ dictionaryVersion[c] <= currentVersion
       /\ start[c] # "running" => c \notin settled /\ judgedBy[c] = {}
  /\ \A c \in settled :
       /\ \A h \in Writing : new[h] # dictionaryVersion[c]
       /\ judgedBy[c] \subseteq {history[dictionaryVersion[c]]}

DictInv == DictionaryTypeOK /\ VersionsOwned /\ SolitudeKept /\ CyclesFixed

LEMMA DictInvInit == Init => DictInv
<1> SUFFICES ASSUME Init PROVE DictInv
  OBVIOUS
<1>1. Writing = {} /\ 0 \in Versions
  BY MaxVersionAssumption DEF Init, Writing, Versions
<1>2. DictionaryTypeOK
  BY <1>1 DEF Init, DictionaryTypeOK, NoVersion, EditState, CycleStartState, VALID_CATEGORIES
<1> QED BY <1>1, <1>2, MaxVersionAssumption
        DEF Init, DictInv, VersionsOwned, SolitudeKept, CyclesFixed, Versions

-----------------------------------------------------------------------------
(* The four ways in which a step can touch the handlers.                     *)

(* h returns: it leaves the writers, and the rest stays.                     *)
LEMMA ReturnKeepsInv ==
  ASSUME DictInv, NEW h \in Handlers, Return(h),
         UNCHANGED <<currentVersion, keywords, history, whole, cycleVars>>
  PROVE  DictInv'
<1> USE DEF DictInv, cycleVars
<1>1. /\ Writing' = Writing \ {h}
      /\ \A g \in Handlers : g # h => pc'[g] = pc[g] /\ new'[g] = new[g] /\ todo'[g] = todo[g]
      /\ pc'[h] = "idle"
      /\ alone' = alone \ {h}
  BY DEF Return, Proceed, Writing, DictionaryTypeOK
<1>2. DictionaryTypeOK'
  <2>1. pc' \in [Handlers -> EditState]
    BY DEF Return, Proceed, DictionaryTypeOK, EditState
  <2>2. edit' \in [Handlers -> Edit \cup {NoEdit}]
    BY DEF Return, DictionaryTypeOK
  <2>3. new' \in [Handlers -> Versions \cup {NoVersion}] /\ todo' \in [Handlers -> SUBSET Keywords]
    BY DEF Return, DictionaryTypeOK
  <2>4. \A g \in Handlers : pc'[g] # "idle" => pc[g] # "idle" /\ edit'[g] = edit[g]
    BY <1>1 DEF Return, DictionaryTypeOK
  <2> QED BY <1>1, <2>1, <2>2, <2>3, <2>4 DEF DictionaryTypeOK
<1>3. VersionsOwned'
  BY <1>1 DEF VersionsOwned, Writing
<1>4. SolitudeKept'
  BY <1>1 DEF SolitudeKept, Writing
<1>5. CyclesFixed'
  BY <1>1 DEF CyclesFixed, Writing
<1> QED BY <1>2, <1>3, <1>4, <1>5

(* h moves on among the states before its version, and nothing else moves.   *)
LEMMA ApproachKeepsInv ==
  ASSUME DictInv, NEW h \in Handlers, NEW state \in {"get", "increment"},
         h \notin Writing, Proceed(h, state),
         edit' \in [Handlers -> Edit \cup {NoEdit}], edit'[h] \in Edit,
         \A g \in Handlers : g # h => edit'[g] = edit[g],
         UNCHANGED <<currentVersion, keywords, history, new, todo, alone, whole, cycleVars>>
  PROVE  DictInv'
<1> USE DEF DictInv, cycleVars
<1>1. /\ Writing' = Writing
      /\ \A g \in Handlers : g # h => pc'[g] = pc[g]
      /\ pc'[h] = state
  BY DEF Proceed, Writing, DictionaryTypeOK
<1>2. DictionaryTypeOK'
  <2>1. pc' \in [Handlers -> EditState]
    BY DEF Proceed, DictionaryTypeOK, EditState
  <2> QED BY <1>1, <2>1 DEF DictionaryTypeOK
<1>3. VersionsOwned'
  BY <1>1 DEF VersionsOwned, Writing
<1>4. SolitudeKept'
  BY <1>1 DEF SolitudeKept, DictionaryTypeOK, Writing
<1>5. CyclesFixed'
  BY <1>1 DEF CyclesFixed
<1> QED BY <1>2, <1>3, <1>4, <1>5

LEMMA TakeKeepsInv ==
  ASSUME DictInv, NEW h \in Handlers, pc[h] = "increment", h \notin Writing,
         Take(h, currentVersion + 1), UNCHANGED <<keywords, history, whole, cycleVars>>
  PROVE  DictInv'
<1> USE DEF DictInv, cycleVars
<1> DEFINE v == currentVersion + 1
<1>1. v \in Versions /\ currentVersion \in Nat /\ currentVersion' = v
  BY DEF Take, DictionaryTypeOK, Versions
<1>2. /\ Writing' = Writing \cup {h}
      /\ \A g \in Handlers : g # h => pc'[g] = pc[g] /\ new'[g] = new[g]
      /\ pc'[h] = "mutate" /\ new'[h] = v
      /\ todo' = todo
      /\ alone' = IF Writing = {} THEN alone \cup {h} ELSE alone \ Writing
  BY DEF Take, Proceed, Writing, DictionaryTypeOK
<1>3. DictionaryTypeOK'
  <2>1. pc' \in [Handlers -> EditState]
    BY DEF Take, Proceed, DictionaryTypeOK, EditState
  <2>2. new' \in [Handlers -> Versions \cup {NoVersion}]
    BY <1>1 DEF Take, DictionaryTypeOK
  <2>3. edit' = edit
    BY DEF Take
  <2>4. alone' \subseteq Writing'
    BY <1>2 DEF DictionaryTypeOK
  <2>5. edit[h] \in Edit
    BY DEF DictionaryTypeOK
  <2>6. \A g \in Handlers : pc'[g] # "idle" => edit'[g] \in Edit
    BY <1>2, <2>3, <2>5 DEF DictionaryTypeOK
  <2> QED BY <1>1, <1>2, <2>1, <2>2, <2>3, <2>4, <2>6 DEF DictionaryTypeOK
<1>4. \A g \in Writing : new[g] \in Nat /\ new[g] < v
  BY <1>1 DEF VersionsOwned, Versions
<1>5. VersionsOwned'
  <2>1. \A g \in Writing' : new'[g] \in Versions /\ new'[g] <= currentVersion'
    BY <1>1, <1>2, <1>4 DEF VersionsOwned, Writing
  <2>2. \A g, f \in Writing' : new'[g] = new'[f] => g = f
    BY <1>1, <1>2, <1>4 DEF VersionsOwned, Writing
  <2>3. \A u \in Versions : u > currentVersion' => history'[u] = {}
    BY <1>1 DEF VersionsOwned, Versions
  <2>4. history[v] = {}
    BY <1>1 DEF VersionsOwned, Versions
  <2> QED BY <1>2, <2>1, <2>2, <2>3, <2>4 DEF VersionsOwned
<1>6. SolitudeKept'
  <2>1. alone' \subseteq {h}
    BY <1>2 DEF DictionaryTypeOK
  <2>2. \A g \in alone' : Writing' = {g} /\ new'[g] = currentVersion'
    <3> SUFFICES ASSUME NEW g \in alone' PROVE Writing' = {h} /\ g = h
      BY <1>1, <1>2
    <3>1. Writing = {}
      BY <1>2, <2>1 DEF DictionaryTypeOK
    <3> QED BY <1>2, <2>1, <3>1
  <2>3. \A u \in whole : u <= currentVersion' /\ u # currentVersion'
    BY <1>1 DEF SolitudeKept, DictionaryTypeOK, Versions
  <2> QED BY <1>2, <2>1, <2>2, <2>3 DEF SolitudeKept
<1>7. CyclesFixed'
  <2> SUFFICES ASSUME NEW c \in Cycles
               PROVE  /\ dictionaryVersion[c] <= v /\ dictionaryVersion[c] # v
                      /\ c \in settled => \A g \in Writing' : new'[g] # dictionaryVersion[c]
    BY <1>1 DEF CyclesFixed, DictionaryTypeOK
  <2>1. dictionaryVersion[c] \in Nat
    BY DEF DictionaryTypeOK, Versions
  <2>2. dictionaryVersion[c] <= v /\ dictionaryVersion[c] # v
    BY <1>1, <2>1 DEF CyclesFixed
  <2> QED BY <1>2, <2>2 DEF CyclesFixed, Writing
<1> QED BY <1>3, <1>5, <1>6, <1>7

-----------------------------------------------------------------------------
(* The steps of a writer.                                                    *)

LEMMA MutateKeepsInv ==
  ASSUME DictInv, NEW h \in Handlers, pc[h] = "mutate", Proceed(h, "scan"),
         keywords' \subseteq Keywords,
         UNCHANGED <<currentVersion, history, edit, new, todo, alone, whole, cycleVars>>
  PROVE  DictInv'
<1> USE DEF DictInv, cycleVars
<1>1. /\ Writing' = Writing /\ h \in Writing
      /\ \A g \in Handlers : g # h => pc'[g] = pc[g]
      /\ pc'[h] = "scan"
  BY DEF Proceed, Writing, DictionaryTypeOK
<1>2. DictionaryTypeOK'
  <2>1. pc' \in [Handlers -> EditState]
    BY DEF Proceed, DictionaryTypeOK, EditState
  <2> QED BY <1>1, <2>1 DEF DictionaryTypeOK
<1>3. VersionsOwned'
  BY <1>1 DEF VersionsOwned, Writing
<1>4. SolitudeKept'
  <2>1. \A g \in alone : g = h
    BY <1>1 DEF SolitudeKept
  <2>2. currentVersion \notin whole
    BY <1>1 DEF SolitudeKept
  <2> QED BY <1>1, <2>1, <2>2 DEF SolitudeKept
<1>5. CyclesFixed'
  BY <1>1 DEF CyclesFixed
<1> QED BY <1>2, <1>3, <1>4, <1>5

LEMMA ScanKeepsInv ==
  ASSUME DictInv, NEW h \in Handlers, ScanAllActive(h)
  PROVE  DictInv'
<1> USE DEF DictInv, ScanAllActive, cycleVars
<1>1. /\ Writing' = Writing /\ h \in Writing
      /\ \A g \in Handlers : g # h => pc'[g] = pc[g] /\ todo'[g] = todo[g]
      /\ pc'[h] = "batch" /\ todo'[h] = keywords
  BY DEF Proceed, Writing, DictionaryTypeOK
<1>2. DictionaryTypeOK'
  <2>1. pc' \in [Handlers -> EditState] /\ todo' \in [Handlers -> SUBSET Keywords]
    BY DEF Proceed, DictionaryTypeOK, EditState
  <2> QED BY <1>1, <2>1 DEF DictionaryTypeOK
<1>3. VersionsOwned'
  BY <1>1 DEF VersionsOwned, Writing
<1>4. SolitudeKept'
  <2>1. \A g \in alone : g = h
    BY <1>1 DEF SolitudeKept
  <2>2. history[new[h]] = {}
    BY DEF VersionsOwned
  <2> QED BY <1>1, <2>1, <2>2 DEF SolitudeKept
<1>5. CyclesFixed'
  BY <1>1 DEF CyclesFixed
<1> QED BY <1>2, <1>3, <1>4, <1>5

(* Rows are only ever added to the version of the writer, and whole grows    *)
(* only by the current version, when all rows are there.                     *)
LEMMA BatchKeepsInv ==
  ASSUME DictInv, NEW h \in Handlers, WriteHistorySnapshot(h)
  PROVE  DictInv'
<1> USE DEF DictInv, cycleVars
<1>1. PICK rows \in SUBSET todo[h] :
        /\ history' = [history EXCEPT ![new[h]] = @ \cup rows]
        /\ IF rows = todo[h]
           THEN /\ Return(h)
                /\ whole' = IF h \in alone THEN whole \cup {new[h]} ELSE whole
           ELSE /\ rows # {}
                /\ todo' = [todo EXCEPT ![h] = @ \ rows]
                /\ UNCHANGED <<pc, edit, new, alone, whole>>
  BY DEF WriteHistorySnapshot
<1>2. pc[h] = "batch" /\ h \in Writing /\ UNCHANGED <<currentVersion, keywords, cycleVars>>
  BY DEF WriteHistorySnapshot, Writing
<1>3. /\ new[h] \in Versions /\ new[h] <= currentVersion
      /\ \A g \in Writing : g # h => new[g] # new[h]
  BY <1>2 DEF VersionsOwned
<1>4. /\ history' \in [Versions -> SUBSET Keywords]
      /\ history'[new[h]] = history[new[h]] \cup rows
      /\ \A v \in Versions : v # new[h] => history'[v] = history[v]
  BY <1>1, <1>3 DEF DictionaryTypeOK
<1>5. currentVersion \notin whole
  BY <1>2 DEF SolitudeKept
<1>6. \A c \in Cycles : c \in settled => dictionaryVersion[c] # new[h]
  BY <1>2 DEF CyclesFixed
<1>7. \A c \in Cycles : dictionaryVersion[c] \in Versions
  BY DEF DictionaryTypeOK
<1>8. \A v \in Versions : v > currentVersion => v # new[h]
  BY <1>3 DEF Versions, DictionaryTypeOK
<1>9. CASE rows = todo[h]
  <2>1. /\ Writing' = Writing \ {h}
        /\ \A g \in Handlers : g # h => pc'[g] = pc[g] /\ new'[g] = new[g] /\ todo'[g] = todo[g]
        /\ pc'[h] = "idle"
        /\ alone' = alone \ {h}
        /\ whole' = IF h \in alone THEN whole \cup {new[h]} ELSE whole
    BY <1>1, <1>9 DEF Return, Proceed, Writing, DictionaryTypeOK
  <2>2. DictionaryTypeOK'
    <3>1. pc' \in [Handlers -> EditState]
      BY <1>1, <1>9 DEF Return, Proceed, DictionaryTypeOK, EditState
    <3>2. edit' \in [Handlers -> Edit \cup {NoEdit}]
      BY <1>1, <1>9 DEF Return, DictionaryTypeOK
    <3>3. new' \in [Handlers -> Versions \cup {NoVersion}] /\ todo' \in [Handlers -> SUBSET Keywords]
      BY <1>1, <1>9 DEF Return, DictionaryTypeOK
    <3>4. \A g \in Handlers : pc'[g] # "idle" => pc[g] # "idle" /\ edit'[g] = edit[g]
      BY <1>1, <1>9, <2>1 DEF Return, DictionaryTypeOK
    <3> QED BY <1>2, <1>3, <1>4, <2>1, <3>1, <3>2, <3>3, <3>4 DEF DictionaryTypeOK
  <2>3. VersionsOwned'
    <3>1. \A g \in Handlers : pc'[g] \in {"mutate", "scan"} =>
            g # h /\ g \in Writing /\ new'[g] = new[g] /\ history[new[g]] = {}
      BY <2>1 DEF VersionsOwned, Writing
    <3>2. \A g \in Writing' : new'[g] = new[g] /\ g \in Writing
      BY <2>1 DEF Writing
    <3> QED BY <1>2, <1>3, <1>4, <1>8, <3>1, <3>2 DEF VersionsOwned
  <2>4. SolitudeKept'
    <3>1. CASE h \in alone
      <4>1. alone' = {} /\ Writing' = {} /\ new[h] = currentVersion
        BY <2>1, <3>1 DEF SolitudeKept, DictionaryTypeOK
      <4>2. history'[currentVersion] = keywords
        BY <1>2, <1>4, <1>9, <3>1, <4>1 DEF SolitudeKept
      <4> QED BY <1>2, <1>3, <2>1, <3>1, <4>1, <4>2 DEF SolitudeKept
    <3>2. CASE h \notin alone
      <4>1. alone' = {}
        BY <1>2, <2>1, <3>2 DEF SolitudeKept
      <4> QED BY <1>2, <1>5, <2>1, <3>2, <4>1 DEF SolitudeKept
    <3> QED BY <3>1, <3>2
  <2>5. CyclesFixed'
    BY <1>2, <1>4, <1>6, <1>7, <2>1 DEF CyclesFixed, DictionaryTypeOK, Writing
  <2> QED BY <2>2, <2>3, <2>4, <2>5
<1>10. CASE rows # todo[h]
  <2>1. /\ UNCHANGED <<pc, edit, new, alone, whole>> /\ Writing' = Writing
        /\ todo' = [todo EXCEPT ![h] = @ \ rows]
    BY <1>1, <1>10 DEF Writing
  <2>2. /\ todo' \in [Handlers -> SUBSET Keywords]
        /\ todo'[h] = todo[h] \ rows
    BY <2>1 DEF DictionaryTypeOK
  <2>3. DictionaryTypeOK'
    BY <1>2, <1>4, <2>1, <2>2 DEF DictionaryTypeOK
  <2>4. VersionsOwned'
    <3>1. \A g \in Handlers : pc[g] \in {"mutate", "scan"} =>
            g # h /\ g \in Writing /\ new[g] \in Versions /\ history[new[g]] = {}
      BY <1>2 DEF VersionsOwned, Writing
    <3> QED BY <1>2, <1>3, <1>4, <1>8, <2>1, <3>1 DEF VersionsOwned
  <2>5. SolitudeKept'
    <3>1. \A g \in alone : g = h
      BY <1>2 DEF SolitudeKept
    <3>2. history'[new[h]] \cup todo'[h] = history[new[h]] \cup todo[h]
      BY <1>4, <2>2
    <3> QED BY <1>2, <1>5, <2>1, <3>1, <3>2 DEF SolitudeKept
  <2>6. CyclesFixed'
    BY <1>2, <1>4, <1>6, <1>7, <2>1 DEF CyclesFixed, DictionaryTypeOK
  <2> QED BY <2>3, <2>4, <2>5, <2>6
<1> QED BY <1>9, <1>10

-----------------------------------------------------------------------------

LEMMA EditStepKeepsInv ==
  ASSUME DictInv, NEW h \in Handlers, EditStep(h)
  PROVE  DictInv'
<1>1. CASE Arrive(h)
  <2>1. PICK op \in Operation, word \in Keywords :
          /\ edit' = [edit EXCEPT ![h] = [op |-> op, word |-> word, expected |-> currentVersion]]
          /\ Proceed(h, IF op = "PATCH" THEN "get" ELSE "increment")
    BY <1>1 DEF Arrive
  <2>2. [op |-> op, word |-> word, expected |-> currentVersion] \in Edit
    BY DEF Edit, DictInv, DictionaryTypeOK
  <2>3. /\ edit' \in [Handlers -> Edit \cup {NoEdit}] /\ edit'[h] \in Edit
        /\ \A g \in Handlers : g # h => edit'[g] = edit[g]
    BY <2>1, <2>2 DEF DictInv, DictionaryTypeOK
  <2>4. h \notin Writing
    BY <1>1 DEF Arrive, Writing
  <2>5. \E state \in {"get", "increment"} : Proceed(h, state)
    BY <2>1
  <2> QED BY <1>1, <2>3, <2>4, <2>5, ApproachKeepsInv DEF Arrive
<1>2. CASE GetKeyword(h)
  <2>1. h \notin Writing /\ edit \in [Handlers -> Edit \cup {NoEdit}] /\ edit[h] \in Edit
    BY <1>2 DEF GetKeyword, Writing, DictInv, DictionaryTypeOK
  <2> QED BY <1>2, <2>1, ApproachKeepsInv, ReturnKeepsInv DEF GetKeyword
<1>3. CASE IncrementVersion(h)
  <2>1. h \notin Writing /\ pc[h] = "increment"
    BY <1>3 DEF IncrementVersion, Writing
  <2> QED BY <1>3, <2>1, TakeKeepsInv, ReturnKeepsInv DEF IncrementVersion
<1>4. CASE MutateKeyword(h)
  <2>1. CASE Return(h) /\ UNCHANGED keywords
    BY <1>4, <2>1, ReturnKeepsInv DEF MutateKeyword
  <2>2. CASE ~(Return(h) /\ UNCHANGED keywords)
    <3>1. /\ pc[h] = "mutate" /\ Proceed(h, "scan")
          /\ keywords' = IF edit[h].op = "DELETE" THEN keywords \ {edit[h].word}
                                                  ELSE keywords \cup {edit[h].word}
          /\ UNCHANGED <<currentVersion, history, edit, new, todo, alone, whole, cycleVars>>
      BY <1>4, <2>2 DEF MutateKeyword
    <3>2. edit[h] \in Edit
      BY <3>1 DEF DictInv, DictionaryTypeOK
    <3>3. keywords' \subseteq Keywords
      BY <3>1, <3>2 DEF DictInv, DictionaryTypeOK, Edit
    <3> QED BY <3>1, <3>3, MutateKeepsInv
  <2> QED BY <2>1, <2>2
<1>5. CASE ScanAllActive(h)
  BY <1>5, ScanKeepsInv
<1>6. CASE WriteHistorySnapshot(h)
  BY <1>6, BatchKeepsInv
<1>7. CASE HandlerBreaks(h)
  BY <1>7, ReturnKeepsInv DEF HandlerBreaks
<1> QED BY <1>1, <1>2, <1>3, <1>4, <1>5, <1>6, <1>7 DEF EditStep

LEMMA CycleStepKeepsInv ==
  ASSUME DictInv, NEW c \in Cycles,
         QueryCategory(c) \/ GetDictVersion(c) \/ Classify(c)
  PROVE  DictInv'
<1> USE DEF DictInv, cycleVars
<1>1. UNCHANGED <<currentVersion, keywords, history, editVars>> /\ Writing' = Writing
  BY DEF QueryCategory, GetDictVersion, Classify, Judge, Writing, editVars
<1>2. VersionsOwned' /\ SolitudeKept'
  BY <1>1 DEF VersionsOwned, SolitudeKept, editVars
<1>3. CASE QueryCategory(c)
  <2>0. PICK s \in CycleStartState : start' = [start EXCEPT ![c] = s]
    <3> USE <1>3 DEF QueryCategory, CycleStartState, VALID_CATEGORIES
    <3>1. CASE start[c] = "SAFE"
      BY <3>1, start' = [start EXCEPT ![c] = "INJURED"] DEF DictionaryTypeOK
    <3>2. CASE start[c] = "INJURED"
      BY <3>2, start' = [start EXCEPT ![c] = "UNAVAILABLE"] DEF DictionaryTypeOK
    <3>3. CASE start[c] = "UNAVAILABLE"
      BY <3>3, start' = [start EXCEPT ![c] = IF c \in found' THEN "version" ELSE "rejected"]
         DEF DictionaryTypeOK
    <3> QED BY <3>1, <3>2, <3>3
  <2>1. \A d \in Cycles : start'[d] = IF d = c THEN start'[c] ELSE start[d]
    BY <2>0 DEF DictionaryTypeOK
  <2>2. start' \in [Cycles -> CycleStartState] /\ found' \subseteq Cycles
    BY <1>3, <2>0 DEF QueryCategory, DictionaryTypeOK
  <2>3. start[c] # "running"
    BY <1>3 DEF QueryCategory, VALID_CATEGORIES
  <2>4. UNCHANGED <<dictionaryVersion, settled, judgedBy>>
    BY <1>3 DEF QueryCategory
  <2>5. DictionaryTypeOK'
    BY <1>1, <2>2, <2>4 DEF DictionaryTypeOK, editVars
  <2>6. CyclesFixed'
    BY <1>1, <2>1, <2>3, <2>4 DEF CyclesFixed, editVars
  <2> QED BY <1>2, <2>5, <2>6
<1>4. CASE GetDictVersion(c)
  <2>1. /\ start' \in [Cycles -> CycleStartState]
        /\ dictionaryVersion' \in [Cycles -> Versions]
        /\ settled' \subseteq Cycles
    BY <1>4 DEF GetDictVersion, DictionaryTypeOK, CycleStartState
  <2>2. \A d \in Cycles :
          /\ start'[d] = IF d = c THEN "running" ELSE start[d]
          /\ dictionaryVersion'[d] = IF d = c THEN currentVersion ELSE dictionaryVersion[d]
    BY <1>4 DEF GetDictVersion, DictionaryTypeOK
  <2>3. DictionaryTypeOK'
    BY <1>1, <1>4, <2>1 DEF GetDictVersion, DictionaryTypeOK, editVars
  <2>4. judgedBy[c] = {} /\ judgedBy' = judgedBy
    BY <1>4 DEF GetDictVersion, CyclesFixed
  <2>5. currentVersion <= currentVersion
    BY DEF DictionaryTypeOK, Versions
  <2>6. \A d \in settled' : d # c => d \in settled
    BY <1>4 DEF GetDictVersion
  <2>7. c \in settled' => \A h \in Writing : new[h] # currentVersion
    BY <1>4 DEF GetDictVersion, CyclesFixed
  <2>8. CyclesFixed'
    BY <1>1, <2>1, <2>2, <2>4, <2>5, <2>6, <2>7 DEF CyclesFixed, editVars
  <2> QED BY <1>2, <2>3, <2>8
<1>5. CASE Classify(c)
  <2>1. /\ judgedBy' \in [Cycles -> SUBSET (SUBSET Keywords)]
        /\ \A d \in Cycles :
             judgedBy'[d] = IF d = c THEN judgedBy[c] \cup {history[dictionaryVersion[c]]}
                                     ELSE judgedBy[d]
    BY <1>5 DEF Classify, Judge, DictionaryTypeOK
  <2>2. UNCHANGED <<start, found, dictionaryVersion, settled>> /\ start[c] = "running"
    BY <1>5 DEF Classify, Judge
  <2>3. DictionaryTypeOK'
    BY <1>1, <2>1, <2>2 DEF DictionaryTypeOK, editVars
  <2>4. CyclesFixed'
    BY <1>1, <2>1, <2>2 DEF CyclesFixed, DictionaryTypeOK, editVars
  <2> QED BY <1>2, <2>3, <2>4
<1> QED BY <1>3, <1>4, <1>5

LEMMA DictInvStep == DictInv /\ [Next]_dictVars => DictInv'
<1> SUFFICES ASSUME DictInv, [Next]_dictVars PROVE DictInv'
  OBVIOUS
<1>1. CASE UNCHANGED dictVars
  BY <1>1 DEF dictVars, editVars, cycleVars, DictInv, DictionaryTypeOK, VersionsOwned,
              SolitudeKept, CyclesFixed, Writing
<1> QED BY <1>1, EditStepKeepsInv, CycleStepKeepsInv DEF Next

(* What every edit and every cycle may count on, for any number of           *)
(* concurrent handlers, keywords and cycles (_increment_version).            *)
THEOREM VersionsAreOwned == DictionarySpec => []DictInv
BY DictInvInit, DictInvStep, PTL DEF DictionarySpec

(* Each variable keeps its type.                                             *)
THEOREM DictionaryTypeCorrect == DictionarySpec => []DictionaryTypeOK
<1>1. DictInv => DictionaryTypeOK
  BY DEF DictInv
<1> QED BY <1>1, VersionsAreOwned, PTL

(* A handler that has a version after a step had it before, or has been      *)
(* given a new one.                                                          *)
LEMMA VersionsAreGivenOnce ==
  ASSUME DictInv, [Next]_dictVars
  PROVE  /\ currentVersion' \in Nat /\ currentVersion' >= currentVersion
         /\ \A g \in Writing' : (g \in Writing /\ new'[g] = new[g]) \/ new'[g] > currentVersion
<1>0. currentVersion \in Nat
  BY DEF DictInv, DictionaryTypeOK, Versions
<1>1. CASE UNCHANGED <<currentVersion, pc, new>>
  BY <1>0, <1>1 DEF Writing
<1>2. ASSUME NEW h \in Handlers, IncrementVersion(h), currentVersion = edit[h].expected
      PROVE  /\ currentVersion' = currentVersion + 1
             /\ new'[h] = currentVersion + 1
             /\ \A g \in Handlers : g # h => pc'[g] = pc[g] /\ new'[g] = new[g]
  BY <1>2 DEF IncrementVersion, Take, Proceed, DictInv, DictionaryTypeOK
<1>3. ASSUME NEW h \in Handlers, EditStep(h),
             ~ (IncrementVersion(h) /\ currentVersion = edit[h].expected)
      PROVE  /\ currentVersion' = currentVersion
             /\ pc'[h] \in {"mutate", "scan", "batch"} => h \in Writing /\ new'[h] = new[h]
             /\ \A g \in Handlers : g # h => pc'[g] = pc[g] /\ new'[g] = new[g]
  BY <1>3 DEF EditStep, Arrive, GetKeyword, IncrementVersion, MutateKeyword, ScanAllActive,
              WriteHistorySnapshot, HandlerBreaks, Return, Proceed, Writing, DictInv,
              DictionaryTypeOK
<1>4. ASSUME NEW c \in Cycles, QueryCategory(c) \/ GetDictVersion(c) \/ Classify(c)
      PROVE  UNCHANGED <<currentVersion, pc, new>>
  BY <1>4 DEF QueryCategory, GetDictVersion, Classify, Judge, editVars
<1>5. ASSUME NEW h \in Handlers, EditStep(h)
      PROVE  /\ currentVersion' \in Nat /\ currentVersion' >= currentVersion
             /\ \A g \in Writing' : (g \in Writing /\ new'[g] = new[g]) \/ new'[g] > currentVersion
  <2>1. CASE IncrementVersion(h) /\ currentVersion = edit[h].expected
    BY <1>0, <1>2, <2>1 DEF Writing
  <2>2. CASE ~ (IncrementVersion(h) /\ currentVersion = edit[h].expected)
    BY <1>0, <1>3, <1>5, <2>2 DEF Writing
  <2> QED BY <2>1, <2>2
<1> QED BY <1>1, <1>4, <1>5 DEF Next, dictVars, editVars

(* No step changes the snapshot of a version whose edit is over, and none    *)
(* gives the version away again (_increment_version).                        *)
THEOREM SnapshotsAreFrozen == DictionarySpec => SnapshotFrozen
<1> DEFINE Frozen == \A v \in Versions :
                       EditOver(v) => EditOver(v)' /\ history'[v] = history[v]
<1>1. ASSUME DictInv, [Next]_dictVars PROVE Frozen
  <2>1. ASSUME NEW v \in Versions, EditOver(v) PROVE EditOver(v)'
    <3>1. v \in Nat /\ v <= currentVersion /\ currentVersion \in Nat
      BY <1>1, <2>1 DEF EditOver, Versions, DictInv, DictionaryTypeOK
    <3>2. v <= currentVersion'
      BY <1>1, <3>1, VersionsAreGivenOnce
    <3>3. ASSUME NEW g \in Writing' PROVE new'[g] # v
      BY <1>1, <2>1, <3>1, VersionsAreGivenOnce DEF EditOver
    <3> QED BY <3>2, <3>3 DEF EditOver
  <2>2. CASE history' = history
    BY <2>1, <2>2
  <2>3. ASSUME NEW h \in Handlers, WriteHistorySnapshot(h)
        PROVE  Frozen
    <3>1. h \in Writing
      BY <2>3 DEF WriteHistorySnapshot, Writing
    <3>2. \A v \in Versions : v # new[h] => history'[v] = history[v]
      BY <1>1, <2>3 DEF WriteHistorySnapshot, DictInv, DictionaryTypeOK
    <3>3. \A v \in Versions : EditOver(v) => v # new[h]
      BY <3>1 DEF EditOver
    <3> QED BY <2>1, <3>2, <3>3
  <2>4. ASSUME NEW h \in Handlers, EditStep(h), ~WriteHistorySnapshot(h)
        PROVE  history' = history
    BY <2>4 DEF EditStep, Arrive, GetKeyword, IncrementVersion, MutateKeyword,
                ScanAllActive, HandlerBreaks
  <2>5. ASSUME NEW c \in Cycles, QueryCategory(c) \/ GetDictVersion(c) \/ Classify(c)
        PROVE  history' = history
    BY <2>5 DEF QueryCategory, GetDictVersion, Classify, Judge
  <2>6. CASE UNCHANGED dictVars
    BY <2>2, <2>6 DEF dictVars
  <2> HIDE DEF Frozen
  <2> QED BY <1>1, <2>2, <2>3, <2>4, <2>5, <2>6 DEF Next
<1>2. ASSUME DictInv, [Next]_dictVars PROVE [Frozen]_dictVars
  BY <1>1, <1>2
<1>3. SnapshotFrozen <=> [][Frozen]_dictVars
  BY DEF SnapshotFrozen
<1> HIDE DEF Frozen
<1> QED BY <1>2, <1>3, VersionsAreOwned, PTL DEF DictionarySpec

(* Property 19 holds of every cycle that did not start inside an edit.       *)
THEOREM CyclesAreJudgedAlike == DictionarySpec => []CycleJudgedAlike
<1>1. ASSUME DictInv, NEW c \in settled
      PROVE  Cardinality(judgedBy[c]) <= 1
  <2> DEFINE snapshot == history[dictionaryVersion[c]]
  <2>1. judgedBy[c] \subseteq {snapshot}
    BY <1>1 DEF DictInv, CyclesFixed
  <2>2. IsFiniteSet({snapshot}) /\ Cardinality({snapshot}) = 1
    BY FS_Singleton
  <2> QED BY <2>1, <2>2, FS_Subset
<1>2. DictInv => CycleJudgedAlike
  BY <1>1 DEF CycleJudgedAlike
<1> QED BY <1>2, VersionsAreOwned, PTL

(* One successful edit that ran alone makes the current snapshot the         *)
(* dictionary again.                                                         *)
THEOREM LoneEditsHeal == DictionarySpec => []LoneEditHeals
<1>1. DictInv => LoneEditHeals
  BY DEF DictInv, SolitudeKept, LoneEditHeals
<1> QED BY <1>1, VersionsAreOwned, PTL

=============================================================================
