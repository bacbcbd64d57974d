# Verification of EmergencyContact

EmergencyContact rings every employee after a disaster, records what they say,
transcribes it and shows who is safe. One round of calls is a *cycle*. This
directory holds TLA+ models of the program, the TLC runs that check them and
TLAPS proofs about them. Paths below are relative to `src/`.

## 1. The system

The back end is Lambdas around DynamoDB tables, one Step Functions state
machine per cycle, Amazon Connect for the calls, and S3 events that pass a
recording from Lambda to Lambda. There is no lock and no transaction. Order
between components comes from conditional writes, from the state machine and
from time-outs.

| Component | State | Operations | Talks to | Correct when |
|---|---|---|---|---|
| CycleApi (`backend/lambdas/cycle_api`) | Cycle row | POST /cycles; reads | reads the index and the dictionary, starts the execution | one cycle at a time; a started cycle runs |
| State machine (`infrastructure/state-machines`) | execution, one iteration per employee | LoadTargets, InitAttempt, Dispatch, ReadResponse, EvaluateRetry, WaitInterval, FinalizeOne(Error), Finalize | invokes dispatcher, evaluator, finalizer; writes Response | ends; keeps the call budget; leaves an outcome per target |
| ConnectDispatcher | Response row | place a call, count it, give up | Connect, task token | each call counted once |
| CallEndHandler | Response row | write RECORDED, return the token | invoked by the Outbound flow | only its own attempt is released |
| RetryEvaluator (`shared/retry`) | none | should_retry, derive_final_status | | budget |
| RecordingRelocator, TranscribeStarter, KeywordMatcher | recording's place, transcription job, Response row | one step each, per S3 event | S3, Transcribe, Response | no recording replaces another; answers reach the row |
| CycleFinalizer (`shared/cycle`) | Cycle and Response rows, timer rules | MAP_COMPLETED, TIMER_30MIN, TIMER_60MIN | StopExecution, CloudWatch, SNS, EventBridge | every cycle closes once; time-outs are announced; answers survive |
| InboundHandler (`shared/inbound`) | Inbound_Contact, Response rows | identify, finalize | reads index and employees | the caller meets the right cycle; a recorded call is counted |
| LoadTargets | none | select employees | reads Employee, Response | no deleted employee is rung |
| DictionaryApi | version counter, keywords, snapshots | add, change, remove | read by CycleApi, KeywordMatcher | a version's snapshot is what it was; a cycle is judged by one set of words |
| EmployeeApi | Employee rows, Cognito users | create, update, delete, import, roll back, delete a user, anonymise | Cognito, Response, Inbound_Contact | phone numbers unique; no import leaves half its rows or takes another's; a retired employee's name goes and the answers stay |
| RecordingMetadataWriter, RecordingApi | RecordingMeta rows | write once; sign links | S3 events, dead-letter queue | every recording described; links open recordings |
| Sign-in triggers (`shared/auth`) | failure counter | count, lock, reset | Cognito | locked after five failures, for thirty minutes |
| ResponseApi, admin console | none | reads, polling | | shows what is stored |

Hard behaviours: a call that outlives the time-out of the task that placed it;
reads acted on a minute or an hour later; the two timers racing the end of the
execution and each other; late, repeated and overtaking transcripts; Lambdas
that end between two writes and are retried; more targets than Map slots, where
a target without a slot has no row yet; an eventually consistent index used as a
mutual-exclusion guard, and another one that names recordings; scans before
writes that have no condition; edits, imports and anonymisations of several
writes that break off anywhere and overlap. `PROJECT.json` lists each hazard with its line and the
properties that address it.

## 2. The modules

| Module | Models |
|---|---|
| `VoiceStatus` | the pure functions of `shared/retry/evaluator.py` and `shared/cycle/finalize.py` |
| `CycleData` | constants, their assumptions, the variables and types of one cycle |
| `CycleStateMachine` | `cycle-state-machine.asl.json` |
| `CallHandling` | ConnectDispatcher, the outbound flow's two outcomes, CallEndHandler |
| `RecordingPipeline` | Relocator, TranscribeStarter, KeywordMatcher |
| `CycleFinalizer` | the three triggers of CycleFinalizer |
| `CycleLifecycle` | abstract: what the Cycle row, the metric and the notice promise |
| `CycleExecution` | composes the above with inbound calls; fairness; properties; the refinement mapping |
| `CycleStart` | POST /cycles and the identify step of inbound calls, over the table and its index |
| `Dictionary` | the three routes that edit the dictionary; CycleApi's probe and version; the snapshot KeywordMatcher judges by |
| `EmployeeMaster` | every writing route of EmployeeApi but anonymise, CSV import and its rollback included |
| `InboundContact` | both steps of an inbound call and the rows they write |
| `Anonymization` | extends `InboundContact` with POST /employees/{id}/anonymize at work on the same rows |
| `RecordingStore` | the recordings of one employee from the dispatcher's counter to RecordingMeta and TranscriptMeta, mock mode included |
| `MC...` | instances for TLC; statements of the documents that do not hold |
| `...Proofs` | proofs: `CycleExecution`, `CycleLifecycle`, `CycleOutcome` about `CycleExecution`; `CycleStart`; `Dictionary`; `EmployeeMaster`; `Anonymization`, with `InboundContact`; `Recording` |

`CycleExecution` is the composition of `CycleStateMachine`, `CallHandling`,
`RecordingPipeline` and `CycleFinalizer` over the variables of `CycleData`. The other
five are specifications of their own: what they share with it is a table read
once (the cycle's row, the dictionary's version, the employees), which each
represents by the values it may have.

**State.** In `CycleExecution`, `cycle` and `row` are the DynamoDB items (a row
whose voiceStatus is ABSENT does not exist); `exec` and `iter` are the
execution and its Map iterations, `iter[e].seen` the copy of the status that
ReadResponse took; `dispatcher`, `call` and `rec` are a ConnectDispatcher
invocation, an outbound call and its recording; `fin` is one CycleFinalizer
invocation each, with the access it makes next and the rows still to relabel;
`sent` counts metrics and notices; `rules` says whether the timer rules exist.

**Actions.** A Lambda is one action per access to shared state, since everything
between two accesses is local, and it may stop between any two. A Step Functions
state is one action; Pass states are folded into the step that enters them.
Conditional writes test the row as it is when they happen. Action names are
those of the source's functions or states.

**Choices a reader should know.**
- *Time* is not modelled except as order. Dispatch waits 90 s and the dispatcher
  Lambda is cut off at 60 s, so DispatchTimeout waits until the dispatcher is
  idle. A call may outlive both.
- *StopExecution* takes effect at once. What the execution started goes on: a
  dispatcher may still place a call after the cycle's TIMEOUT.
- *The loop of `_force_response_unreachable`* takes the rows in any order.
- *Callees, Connect, S3 events and Transcribe* may do nothing at all.
- *The text of transcripts* is what it classifies to (`Heard`). Repeating a
  Transcribe job is a no-op, as ConflictException is taken for success.
- *`Disturbances`* names what the environment may do beyond the ordinary:
  `"empty"` no targets, `"table"` a DynamoDB task fails for good, `"connect"`
  Connect refuses, `"pipeline"` a pipeline Lambda gives up, `"crash"` a Lambda
  ends early, `"redelivery"` S3 or Connect delivers twice, `"inbound"` employees
  ring in. Each run switches on those its question is about; the proofs hold for
  all.
- *Deadlock* is not looked for where things really come to rest: a cycle, a set of
  requests, the recordings of an employee, a dictionary whose counter is at its
  bound. `employees` and `inbound` check it.
- *`CycleStart`.* A request stands for the cycle it creates. The dictionary may
  be empty whenever it is asked. The window of thirty days closes when nobody is
  being identified, as an identification takes milliseconds. `startedAt` orders
  cycles (in the source it has whole seconds, so two cycles may tie). The index
  always lags and accesses always may fail; `orderly` records whether POSTs have
  overlapped or a guard has met a lagging index.
- *`Dictionary`.* Versions are counted from a settled dictionary. A scan is one
  step that sees every write before it. The source does not ask for
  ConsistentRead and may read several pages: `LoneEditHeals` rests on this choice,
  the other properties do not.
  CycleApi's three category queries are three steps. PATCH writes its row whether or not it is
  still there, and so brings a removed keyword back. `alone` and `whole` are histories.
- *`EmployeeMaster`.* Field encryption is on, as `template.yaml` sets it, so numbers
  are compared by their blind index through a scan. The table fits one page. Names
  and audit records are left out. A PUT without a number behaves as one with the
  number it finds. `rowsShared` and `phonesShared` record what two invocations had in
  hand at once.
- *`InboundContact`.* All calls come from one employee. identify may decide anything
  (`CycleStart` says what it decides), and decide otherwise when it is invoked again.
- *`Anonymization`.* The rows are read first and moved afterwards, in transactions
  of `RowsPerBatch`. `touched` and `torn` record which rows others wrote meanwhile and
  which were replaced by an older copy.
- *`RecordingStore`.* Mock mode is chosen at the start. Counts of retries are
  abstracted to "again or given up". An inbound recording has no Response row, so
  its rename always gives up; it is not represented. The relocator has no
  dead-letter queue (`template.yaml`, comment at its event rule). Expiry of objects is
  not modelled; `can_issue_url` fixes ninety days although the retention is a
  parameter of the stack.

## 3. The runs

| Run | Instance | Shows |
|---|---|---|
| `calls` | 1 employee, budget 2, all failures, fairness | `TypeOK`; `DialBudget`; `RecordingKeyUnique`: no lost, doubled or late step makes two recordings share a key; `ReadAnswersEndDialing`: only an answer that comes after ReadResponse is followed by a call; `ExecutionEnds` |
| `timeout` | 2 employees, 1 slot, Map end and two deliveries of the sixty-minute event, inbound calls | `CompletedMeansSettled`; `TimeoutLeavesNoPending`; `TimeoutKeepsAnswers` |
| `lifecycle` | all three triggers, failing anywhere, one retry each | `ImplementsLifecycle`: `CycleExecution` implements `CycleLifecycle` |
| `closes` | rules in place, failing tasks, inbound calls, no finalizer failure | `CycleCloses`, `TimeoutAnnounced` |
| `identify` | 3 POSTs with a key or none, 1 inbound call, failures, a lagging index | `AtMostOneRunning`: only an overlap or a lagging index starts a second cycle; `OpenCycleIsFound`; `OnlyFailedStartsRaise`: no closing cycle makes identify raise |
| `dictionary` | 2 editors, 2 keywords of 2 categories, 2 versions, 1 cycle | `SnapshotFrozen`; `CycleJudgedAlike`; `LoneEditHeals` |
| `employees` | 2 invocations, 3 rows, 2 numbers, 1 address, transactions of one row | `PhonesUnique`, `RetiredRowsHaveNoPhone`, `RollbackTakesItsOwn`, `RollbackMissesNothing`: what goes wrong takes two invocations with the same row or number in hand; `OneRowPerUser` without any such condition |
| `inbound` | 2 calls, 2 cycles, one repetition per step, transactions of one row | `RecordedCallsAreCounted`, `RecordedAsActive`, `AnswersSurvive`, `AnonymizationComplete` |
| `recordings` | 2 dispatches, 2 deliveries per event | `RecordingNeverLost`, `KeyNeverChangesHands`, `EveryRecordingDescribed`, `TranscriptIsOfTheRecording` |

Each of the runs of a specification also checks its type invariant.

**Bounds.** One employee suffices where the question is about one row (rows of
different employees meet only in Map slots and in the finalizer's query); two,
with one slot, give a queue. A budget of two gives a first and a later call, and
overtaking transcripts; `Attempts` has one number beyond the budget, so that
exceeding it is a state TLC can reach. Two deliveries of one timer event and one
retry of an invocation are the least that repeat something. Two requests
overlap; the third gives a serial history a successful, a failed and a rejected
start. Two edits overlap in every way two edits can; the third version an edit
would need is only reached by a third edit, and the theorems hold for any number.
Three rows and two numbers let an import of two rows in two transactions meet an
employee who is there already and another request; a transaction of one row is
the smallest that leaves a file half imported. Two recordings can collide on one
key; two deliveries of one event race each other, and each is repeated as often
as it breaks off.

**Fairness** (`Fairness` in `CycleExecution`). Step Functions takes its steps and
time-outs; a started dispatcher or finalizer invocation takes its next step or
fails; a rule that exists fires. These are services' promises. Nothing is
assumed about callees answering, Connect invoking CallEndHandler, S3 events or
the pipeline.

**Statements that do not hold.** Three runs each check one sentence of the
repository and TLC shows a history that breaks it; `PROJECT.json` quotes the
sentence.

| Run | What happens |
|---|---|
| `answer_clobbered` | an answer between ReadResponse and FinalizeOne becomes UNREACHABLE |
| `retired_admin` | deleting an administrator removes `cognitoSub`, so the route that should delete the Cognito user afterwards always answers 404 |
| `recording_link` | links are signed for keys under `cycles/`, recordings are under `recordings/` (and inbound ones under `inbound/{yyyymm}/...`, not `inbound/{contactId}.wav`) |

Other statements of the documents that the models break in the same way are
formulas of the MC modules without a run of their own; to see the history, put
the formula in the place of the properties of the run named.

| Formula | Take the run | What happens |
|---|---|---|
| `SameKeyStartsOnce` (design.md, Idempotency: 同一キーでの重複起動は 200 を返す) | `identify` | a POST and its overlapping repetition both pass the guard (`cycle_api/handler.py:225`) and start two executions |
| `IdentifyAlwaysDecides` (design.md Property 11; `cycle_selection.py:25`) | `identify` | a START_FAILED row has no `completedAt` (`cycle_api/handler.py:299`), and `_validate_cycle` raises for it whatever other cycle is open |
| `RunningIsStarted` (requirements.md 4.11) | `identify` | a request that ends between row and execution leaves a RUNNING cycle for good |
| `AtMostOneRunning` without `orderly` (requirements.md 4.8) | `identify` | two POSTs overlap, or the index does not show the first cycle yet |
| `CycleHasItsWords` (design.md, the dictionary at the start of a cycle can be reproduced) | `dictionary` | the version of an edit that broke off or was refused has an empty snapshot |
| `ErrorRowsCountAsCompleted` (comment in the state machine, FinalizeOneError) | `answer_clobbered`, with "table" | OTHER is not among the terminal statuses (`finalize.py:73`): RUNNING after success |
| `TimeoutAnnounced` (cycle_finalizer, comment at the metric) | `closes`, with "crash" | a failure after the write of TIMEOUT loses metric, notice and clean-up |
| `CycleCloses` (design.md, StartTimers) | `closes`, TimersConfigured FALSE | StartTimers is a Pass state; without hand-made rules nothing closes the cycle |
| `NoCallAfterAnswer` (requirements.md 9.3) | `answer_clobbered`, RetryCount 2 | an answer during the retry interval does not stop the next call |
| `LatestTranscriptWins` (keyword_matcher `_record_response`) | the same, `Heard` with OTHER | an earlier call's transcript replaces a later one's |
| `ExhaustionIsCounted` (connect_dispatcher docstring) | the same, with "connect" | the second exhausted dispatch is not counted |
| `CallEndMeetsNoError` (call_end_handler docstring) | the same, with "connect" | ERROR of one attempt hides RECORDED of the next |
| `ResponseFixedAfterTimeout` (design.md Property 17) | `closes` | a transcript after TIMEOUT changes the Response |
| `TimeoutSettlesEveryTarget` (requirements.md 14.4) | `timeout` | a target without a Map slot has no row to relabel |
| `NoWarningMeansAllDispatched` (requirements.md 14.6) | `lifecycle`, two employees | a target without a Map slot is not missed by the thirty-minute check |
| `NoTargetsNoRunningCycle` (requirements.md 4.5) | `closes` | LoadTargets fails and the cycle stays RUNNING; the console sends UNREACHABLE_ONLY without a referencedCycleId, so it then always fails |

`CycleCloses` and `TimeoutAnnounced` pass in `closes` because there the rules exist and
no finalizer invocation fails for good.

The conditions in the properties of `employees`, `inbound` and `dictionary` are there
because without them the property fails; each names a weakness of the code:

- two requests with one number that overlap give two employees that number, and
  an update that overlaps a deletion writes a number into the deleted row
  (`phonesShared`, `rowsShared`); one that overlaps a rollback writes a row anew
  without `deleted`, which no scan then shows;
- an import whose Lambda ends, instead of catching an error, is not rolled back;
- Requirement 2.3 counts deleted employees among those whose number is taken; the
  scan leaves them out;
- a finalize that is invoked again appends INBOUND twice, so the property of
  `inbound` is an inequality; identify may decide REFUSED first and ACTIVE when
  repeated, and the call is then never recorded as RECORDED;
- a write between anonymise's read and its transaction is lost (`torn`), and a late
  transcript creates the employee's row again (`touched`), which a second run puts over
  the anonymous one;
- a copy of a recording, an end of the Lambda, an ERROR that raises the counter and
  a repetition store one recording under two keys.

One reading is not in a model: with field encryption on (`template.yaml:1669`, `:1860`)
EmployeeApi stores `phoneNumber` encrypted, and `_lookup_employee_by_phone`
(`inbound_handler/handler.py:289`) queries PhoneNumberIndex for the plain number;
`InboundContact` takes the look-up to succeed, as its tests do.

## 4. The proofs

All are for arbitrary constants satisfying the named assumptions: any set of
employees and invocations, any budget, any disturbances. Every safety property
that a run checks is stated by a theorem.

- **`TypeCorrect`, `DialBudgetHolds`** (`CycleExecutionProofs`). `TypeOK` alone is
  not inductive: `Redial` adds one to an attempt, which stays in `Attempts` only
  because EvaluateRetry compared it with the budget. `TypeInv` is `TypeOK` with
  `DialInv`, which bounds the attempt of each iteration, more strictly while it
  waits to redial, and ties each call to the attempts made so far.
- **`RecordingKeysAreUnique`** (`CycleExecutionProofs`). The key of a recording is
  read from the row when the event arrives, so it depends on what happened in
  between. `KeyInv`: a key is the counter as it was while the row showed the
  recording's own contact, and is below the counter once the row shows another.
- **`ReadAnswersAreTheEnd`** (`CycleExecutionProofs`). `SeenInv`: an iteration that has
  read an answer is past every state that starts a dispatcher, and none is running,
  since each wait before a read outlives it.
- **`LifecycleImplemented`** (`CycleLifecycleProofs`). The metric is sent by an
  invocation that wrote TIMEOUT, and the write is conditional on RUNNING.
  `AnnounceInv` says that at most one invocation is past the write and has yet to
  send, and that what has been sent is what its `pc` says. Each finalizer action
  is then a lifecycle step or a stutter, and no other action touches the mapped
  state.
- **`CompletedCyclesAreSettled`** (`CycleOutcomeProofs`). Finalize runs after every
  iteration is Done (`EndedInv`), a Done iteration never starts again and leaves a
  row that no later writer turns to PENDING (`DoneInv`), so COMPLETED is written
  over settled targets. The finalizer's query contributes nothing to this
  argument: the order of the state machine does.
- **`TimeoutsLeaveNoPending`, `TimeoutsKeepAnswers`** (`CycleOutcomeProofs`). A row has
  lost its PENDING for good only if nothing can make a new row afterwards: TIMEOUT
  follows StopExecution, and rows are made by iterations (`StopInv`, `DialledInv`).
  What is still PENDING is on the list of every invocation that relabels
  (`SweepInv`), a repeated one included. The first theorem assumes
  `TimersNameTheExecution`: a timer event without `executionArn` skips the stop
  (`_handle_timer_60min`), so that the execution may go on dialling; whoever
  creates the rules (`StartTimers` is a Pass state) must pass it.
- **`OneRunningCycle`** (`CycleStartProofs`). As long as the history is `orderly`, the
  request that has passed the guard met no RUNNING cycle, and none can appear
  before its own (`Exclusive`). Whatever happens afterwards the property says
  nothing, and the table above shows that both conditions are needed.
- **`StartTypeCorrect`, `OpenCyclesAreFound`** (`CycleStartProofs`). The answer 409 or
  200 names the newest RUNNING cycle, a CHOOSE that is typed only if a finite set
  of cycles has a newest one (`NewestIsThere`, by well-founded induction on what is
  left to the number of requests). `Rows` ties each row to its request and says that
  the index is behind only while the row still moves; then a row an identification
  has not met shows a status it has still to ask for (`Search`).
- **`OnlyFailedStartsAreRaised`** (`CycleStartProofs`). `ValidInv` follows completedAt from
  the row to its copy in the index and to the copies an identification keeps; a
  START_FAILED row stays one (`RowMoves`).
- **`DictionaryTypeCorrect`, `SnapshotsAreFrozen`, `CyclesAreJudgedAlike`,
  `LoneEditsHeal`** (`DictionaryProofs`). `DictInv`: the counter's condition gives a
  version to one writer (`VersionsOwned`); a writer that is alone has between its
  history rows and its queue exactly the dictionary (`SolitudeKept`); a settled
  cycle's version has no writer (`CyclesFixed`).
- **`RecordingTypeCorrect`, `RecordingsNeverLost`, `KeysNeverChangeHands`,
  `RecordingsDescribed`, `TranscriptsOfTheRecording`** (`RecordingProofs`). The heart is
  `OneOwner`: wherever a seq can be read - in the row, in an index that lags, in a
  rename under way, in the bucket - it is read for one contact only, and it is not
  beyond the counter. So a copy never replaces another recording (`StoreKept`), and
  what events, rows and jobs say of a key stays true.

- **`EmployeeTypeCorrect`, `UsersHaveOneRow`** (`EmployeeMasterProofs`). `MasterInv` adds to
  the types the stage of its route each invocation can be at (`RouteAt`) and that
  a Cognito user made for a row still to be put is linked from no other row
  (`UserInv`): Cognito refuses an address that has a user, and a row that loses
  its link never gets one again.
- **`NumbersAreUnique`, `RetiredNumbersAreGone`, `RollbacksMissNothing`,
  `RollbacksTakeTheirOwn`** (`EmployeeMasterProofs`). Each is about rows and numbers that
  no two invocations had in hand at once, so the proof is one of non-interference:
  what two hold is in the history (`HeldInv`), hence another invocation's step
  changes nothing (`OthersKeep`), and one invocation by itself is sequential.
  `RowInv`, `PhoneInv` and `ImportInv` say what it then knows: the row of a PUT is still
  there, a number it found free still is, a rollback finds what its import put and
  nothing else. `StepEffects` reduces the routes to what a step can do to the table: put a
  fresh row, and remove, retire or update one it holds.
- **`InboundTypeCorrect`, `RecordedCallsAreActive`, `CallsAreCounted`,
  `AnonymizationsComplete`, `AnswersAreKept`** (`AnonymizationProofs`). `RecordedCallsAreCounted`
  is not inductive: the row is written before the call's own row says so.
  `CountInv` counts a call from the append on (`Counted`), over the row and its
  anonymous copy. `RunInv`: a run that has been through the rows holds a copy of
  each, but for those that others have `touched`.

Model-checked only: `ExecutionEnds`, `CycleCloses`, `TimeoutAnnounced`. They rest on fairness
and ENABLED, which are out of the prover's reach.

## 5. Not modelled

- *Sign-in triggers*: nothing in the repository calls POST /auth/record-failure, so
  the failure counter never moves. (The pool signs in by e-mail, and the
  trigger's user name need not be the address a reporter would send.)
- *ResponseApi, the GET routes, the admin console*: reads. *Encryption, audit
  records, masking, field validation, CORS*: functions of one value.
- *LoadTargets' selection*, *compute_next_wait_seconds*, *expiry of recordings*: pure
  functions over dates and filters.
- *KeywordMatcher's update of TranscriptMeta*, the contact flows' prompts.
- *Infrastructure and scripts*: only the settings the models name.

What is left to do: abstract specifications for the dictionary (versions as
immutable values) and for the recordings (an append-only store), shown to be
implemented as `CycleLifecycle` is; LoadTargets by mode against a master that
changes during the scan; TranscriptMeta as KeywordMatcher leaves it.
