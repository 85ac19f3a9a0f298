# A TLA+ verification of laya-mcp

laya-mcp is an MCP server that answers typed questions about texts with local
checkpoints ("Laya").  This directory holds TLA+ models of the parts of
`src/laya_mcp/` where threads, callbacks, timeouts, retries and restarts meet and
of the algorithms that decide what a user may rely on, the TLC configurations that check them, and TLAPS proofs of their most important
properties.  Paths below are relative to `src/laya_mcp/`.

## 1. The system

| Component | State | Operations | Talks to |
|---|---|---|---|
| `jobs/service.py` JobService | `_stopping`, hooks by kind; the rows are in Repo | `submit`, `cancel`, `_process_items`, `_maybe_complete`, `_run_hooks`, `start`, `_recover`, `stop` | Repo, Huey, the engine's `predict_blocking`, hooks |
| `db/repo.py`, `db/models.py` | SQLite tables: schemas, versions, datasets, reports, jobs, items, usage | one transaction (`BEGIN IMMEDIATE`) per method | everybody |
| `jobs/queue.py` | Huey's queue and schedule in `jobs.db` | enqueue, dequeue, retry after a delay, flush | worker threads of the in-process consumer |
| `engine/runtime.py` InferenceEngine, scheduler | `_running`, `_waiting`, `_queued_rows`, `_closed` under one `threading.Condition`; an `asyncio.Lock`; tickets | `predict`, `predict_all_models`, `predict_blocking`, `stop` | tools (event loop), executor threads, job workers |
| `engine/runtime.py`, checkpoints | the router's resident checkpoints, which agents were prepared, `_ms_per_row` | `load`, `unload`, `tokenizer`, `validate`, `_forward`, `_compare` | laya's Router, the slot |
| `app.py` lifespan | order of start-up and shut-down | start engine, start jobs, serve, stop jobs, stop engine | engine, jobs |
| `tools/library.py` | schema versions: status, thresholds, temperatures, latest report | `laya_save_schema`, `laya_promote_schema`, readers | Repo |
| `tools/workbench.py`, `workbench/hooks.py` | datasets, reports | `laya_save_dataset`, `laya_evaluate`, `laya_calibrate`, the completion hook of evaluate jobs | Repo, JobService |
| `workbench/evaluation.py`, `calibration.py` | none | metrics, threshold recommendation, temperature fit | |
| `engine/chunking.py`, `budget.py`, `answers.py` | none | windows over a text, question budgets, answer normalisation | the engine |
| `tools/decide.py`, `batch.py`, `guard.py`, `ops.py` | none of their own | request shaping, paging, load/unload | engine, JobService |
| `middleware.py`, `server.py`, `config.py`, ... | usage rows, settings | accounting, configuration, text | |

**What is hard.**

* *Jobs.* A job is finished by whoever notices that it is: the worker of the last
  item, or the submitter that finalizes it.  Submitters append while workers
  finish.  A cancel may arrive while a prediction is under way or hooks run.
  Tasks raise and are retried with items that are already processed.  The
  process dies between any two transactions and recovery rebuilds the queue.
* *Engine.* One slot is shared by two classes of callers with different
  synchronisation (coroutines with a lock, an executor thread and a timeout at
  every await; plain threads).  A coroutine that times out leaves a thread
  behind.  Everyone sleeps on one condition, so a forgotten notify is a hang.
* *Checkpoints.* Tools load and unload checkpoints beside the thread that holds
  the slot, the router evicts by itself, and a comparison of all checkpoints is
  to leave no trace although it may be cancelled or fail at every one.
* *Texts.* A long text is cut by characters, then by tokens with an overlap, then by
  the row budget, and a client continues where it is told to.
* *Questions and decisions.* A question set is checked by four pieces of code, with
  or without a tokenizer; thresholds, temperatures, promotion and statuses are
  computed in different modules and must fit; results are read while they change.
* *Library.* Hooks and calibrations read a version, compute for a while and write
  it back in a later transaction; promotions do the same on the event loop.
  Datasets are edited while their evaluation is under way.

The full list of such places, with their lines and the properties aimed at them,
is `hazards` in `PROJECT.json`.

**What makes the components correct.** *Jobs:* counters agree with rows; a final
status is justified and final; exactly one thread completes a job; no pending
item is forgotten or predicted by two threads; a finalized job ends. *Engine:*
one pass at a time; exact waiting count; bounded admission; priority and order;
no lost wake-up; abandoned work stops; every call ends. *Library:* a report
compares answers with their own labels; what a version carries was measured on
it; trust rests on a passing report. *Checkpoints:* a pass runs on an agent that
was prepared once; a comparison leaves nothing behind and what was preloaded
warm; cold passes are not averaged. *Texts:* complete means that everything
visible was scanned; windows fit the model and overlap; continuing ends.
*Questions:* valid means usable; nothing is cut without a word. *Decisions:* the
threshold is the lowest that reaches the target; what is decided reaches it; pages
are complete; samples can be labelled and read back.

## 2. Modules

    JobLifecycle <--(implements)-- Jobs <-- MCJobs                       (TLC)
                                     ^-- JobsProofs <-- JobsRowsProofs
                                              <-- JobsQueueProofs      (TLAPS)
    Engine    <-- MCEngine    (TLC),  EngineProofs    (TLAPS)
    Library   <-- MCLibrary   (TLC),  LibraryProofs   (TLAPS)
    Residency <-- MCResidency (TLC),  ResidencyProofs (TLAPS)
    Scan                      (TLC),  ScanProofs      (TLAPS)
    Questions, Evaluation <-- Decisions <-- MCDecisions (TLC), DecisionsProofs (TLAPS)

`PROJECT.json` (`map`) gives the source lines of every definition.

### Jobs

`job` and `item` are the tables, `queue` and `schedule` Huey's, `thread` what
each worker and each submitting tool call is doing, `phase` the lifespan.  Each
Repo transaction is one action; between two of them any other thread may act.

| Action | Code |
|---|---|
| `CreateJob`, `AppendItems` | the row transaction of `submit` (`create_job`, `append_job_items`) |
| `EnqueueChunk` | one message of `_enqueue`; the last one leads to `_maybe_complete` when the call finalized |
| `Cancel` | `cancel_job` |
| `Dequeue`, `CheckJob`, `NextItem`, `Skip`, `StartItem`, `PredictReturns`, `PredictRaises`, `FinishItem` | the consumer and `_process_items` |
| `Claim`, `HooksReturn`, `HooksRaise`, `Complete` | `_maybe_complete`: `claim_job_completion`, `_run_hooks`, `complete_job` |
| `Fault`, `Reschedule` | an exception out of a transaction or an enqueue; Huey's retry |
| `Start`, `RecoverJob`, `StartConsumer`, `Stop`, `StopEngine`, `Exit`, `Crash` | `start`, `_recover`, `stop` and the lifespan's shut-down; the process dying |

Abstractions: payloads, questions and results are dropped (an item has a status);
timestamps are dropped except whether `finished_at` is set, because the claim is
made with it; the kind of a job is kept because evaluate jobs have a hook.  An
item row that failed because the engine was stopped is told apart
("interrupted") although the code stores 'failed', so that the promise about it
can be stated.  `stranded` is a history variable: jobs for which a fault lost a
message or a completer that nothing in the code replaces before the next start: a task
that failed with no retry left, an enqueue that failed in `submit`, and a `complete_job`
that failed after the claim, retried or not (`jobs_stuck`).

`JobLifecycle` is the contract a caller sees: items answered one by one, each
once; a job ends when closed and answered; cancel ends it at once; ended jobs
do not change.  `Jobs` maps an active row (queued, running, claimed) to
"active"; that it implements the contract is checked (`jobs_append`) and proved.

### Engine

`call` is the coroutine of each interactive call, `thr` its executor thread,
`bat` each batch thread, `lockq` the `asyncio.Lock`; the remaining variables are
the engine's fields.  A block under `with self._cv` is one step.  `wait()` is
modelled as sleeping until a step that calls `notify_all` (`Woken`), so a missing
notification shows as a sleeper that nobody wakes.

| Action | Code |
|---|---|
| `Admit`, `Refuse` | `_admit` |
| `GetLock`, `Return`, `Expire`, `Unwind` | `_interactive`: lock, end of the thread, timeout at the lock or at the executor, cleanup |
| `StartThread`, `SleepInteractive`, `AcquireInteractive`, `NextState`, `PassReturns`, `PassRaises`, `ReleaseInteractive` | `_with_slot`, `_acquire_interactive`, the loop over states, `_forward`, `_release` |
| `BatchCall`, `SleepBatch`, `AcquireBatch`, `BatchPassEnds`, `ReleaseBatch` | `predict_blocking` |
| `Close`, `Unload` | `stop`, `_drain` and its timeout |

Durations, token counts and answers are dropped.  `_batch_waiting` only feeds the
status page and is left out.  A timeout is an action that may happen at every
await it can interrupt.

### Library

Versions of one schema (questions, status, temperatures, thresholds, latest
report), one dataset, the reports and the evaluate jobs.  Completion hooks run in
worker threads (`HookSchema`, `HookExamples`, `HookSave`, `HookApply`, `HookRef`,
and `HookFails`/`HookRaised` when a transaction raises), the second half of
`laya_calibrate` in its own thread (`CalibrateTemps`, `CalibrateSave`,
`CalibrateApply`, `CalibrateFails`).  `laya_promote_schema` runs on the event loop
without an await: `PromoteRead` and `PromoteWrite` exclude other tools
(`LoopFree`), not the threads.  Numbers are dropped: whether a report passes is
a choice; a set of temperatures is the number of the fit that made it; thresholds
are represented by the temperatures they were measured with.

### Residency

The other half of the engine: `loaded` is the router's LRU list of agents,
`quantized` how often `_after_load` prepared each, `slot` the thread that holds the
inference slot (Engine shows there is one at most), `caller` the threads that load or
unload beside it.  Every call of the router is one step, the hook after it another,
so that another thread comes between the two.

| Action | Code |
|---|---|
| `Predict`, `SlotLoads`, `SlotHook`, `PassEnds`, `PassRaises`, `LoadRaises`, `PrepareRaises` | `predict`, `predict_blocking`, `_forward` with `_record`, the hooked `router.load` |
| `Compare`, `NextModel`, `Clean`, `BeginReload`, `Reload`, `GiveUp` | `predict_all_models`, `_compare`: the loop, its `finally`, the reloading of preloaded checkpoints, cancellation |
| `Load`, `Unload`, `Validate`, `CallerLoads`, `CallerHook`, `CallerLoadRaises`, `CallerPrepareRaises`, `CallerUnloads` | `load`, `unload`, `tokenizer`, the load in `validate` |

laya's Router is external: `load` returns the resident agent and makes it the most
recent one, or builds one and drops the least recent over `max_loaded`; a failing
load may have dropped one already.  `PrepareRaises` and `CallerPrepareRaises` are a
`_after_load` that raises: the router keeps the agent, which is not marked as seen.  `calm` and `still` remember whether another
thread changed the router during a comparison or a pass.

### Scan

`laya_scan_untrusted` and the client that calls it again with `text[resume_from:]`.  A
text is a sequence over a blank, a character that starts a token and one that
continues it, so one text stands for every tokenisation with these boundaries.
`Chunks` is `chunk_text` with a tokenizer that gives offsets (with or without the blank
before a word), one that only counts, or none.  `Call` is the whole tool call with
its budget check (`WithinBudget`); `CallRaises` one that fails and is repeated.  What
the model says of a chunk is left out.  Every text is an input, also one with a blank
run as long as a whole window: such a call answers for the whole text although it saw
the window only, so `AllVisibleScanned` speaks of what was looked at, and
`CompleteMeansScanned`, what the answer says of itself, is violated (`scan_blank`).

### Questions, Evaluation, Decisions

`Questions` has the operators of `engine/budget.py` and its callers: structure of a
question, the layout of its options in the input, warnings, `validate`,
`laya_validate_questions`, `laya_save_schema`.  A question is its type, the kind of its
criteria, its labels and how many tokens each part takes; tokenizing is an input.
There is one checkpoint, english, because that is the one the code validates
(`library.py:137`, `workbench.py:229`, and `decide.py:124` unless the caller names another).  Predictions
without a model are routed by the item (`decide.py:124,208`), possibly to another
checkpoint with other limits: what the properties say about valid sets and silent cuts
does not reach that far.

`Evaluation` has those of `workbench/evaluation.py` and `calibration.py` and of the answers
they use: reading an expected value, predictions and their canonical form, the
threshold loop, the report, promotion's objections, and when a temperature is fitted at
all.  Thresholds are counted in steps of the grid and confidences in half steps: an odd
one is a confidence that falls short of a grid point by less than `_TOL`, which the report
counts at that point (`Clears`) and `laya_decide` does not (`to_item_result`).  A fitted
temperature is any that keeps the order of the probabilities, here a step down.
`lower()` and `strip()` are modelled on the strings there are (`Lower`, `Strip`): labels
differ in case only or have a blank around them, which `check_structure` accepts.

`Decisions` is the state machine over both:

| Action | Code |
|---|---|
| `Validate`, `Classify`, `Save`, `LoadOrUnload` | `laya_validate_questions`, `laya_classify` / `laya_apply_preset`, `laya_save_schema`, while the checkpoint comes and goes |
| `EvaluateReads`, `EvaluateEnds` | the hook of an evaluate job: it reads the version and builds its report, and applies it later or fails |
| `CalibrateTemps`, `CalibrateEnds` | `laya_calibrate`: the temperatures are committed, the report is applied later or never |
| `PromoteReads`, `PromoteEnds` | `laya_promote_schema`: its check, and its write in a later transaction |
| `DecideReads`, `DecideReturns`, `DecideRaises` | `laya_decide`, which reads the version before it waits for the engine |
| `SubmitBatch`, `ItemEnds`, `CancelBatch` | `laya_classify_batch` and its job |
| `ReadVersion`, `ReadPage` | `laya_job_results` for a client that follows `next_offset` |
| `Sample` | `laya_sample_for_labeling` |

One hook, one calibration and one promotion may be under way at a time and overlap in
every order; several of each, crashes and the tables are Library's subject, and what
happens inside a batch job Jobs'.

## 3. Runs

Passing runs (all properties hold):

| Run | Question | Bounds |
|---|---|---|
| `jobs_faults` | Are counters, claim, hooks and messages consistent, is no work forgotten, and does every finalized job end, when transactions and enqueues fail anywhere? | 1 job, 2 items, 2 workers, 1 submitter, 2 faults, 1 restart, chunk 1 |
| `jobs_append` | Do two submitters that append and finalize keep final statuses sound and the contract implemented, and is shut-down never recorded as a failure? | 1 job, 3 items, 2 workers, 2 submitters, 1 restart, chunk 2 |
| `engine_slot` | Slot, counters, wake-ups, priority, order, abandoned threads, stop. | 3 calls of up to 2 states, 2 batch threads, limit 2 |
| `engine_liveness` | Does every call end and every batch thread get its turn? | 2 calls, 1 batch thread of 2 states |
| `library_reports` | Do answers meet their labels while the dataset is edited? | 2 states, datasets of up to 2 examples, 2 edits, 2 jobs, 2 reports, 1 calibration |
| `library_versions` | Do versions and jobs carry their own evidence? | 2 versions, 2 question sets, 2 jobs, 2 reports, 1 calibration, 1 crash |
| `residency` | Which agents do passes run on, and what do comparisons leave in memory, beside loads and unloads? | 3 checkpoints, 2 fit, 2 preloaded, 1 other thread with 2 calls, 2 agents per checkpoint; failures to prepare an agent count as calls |
| `scan` | Is everything visible scanned that a complete call looked at, and does the continuation move on? | texts of up to 8 characters over 3 kinds, windows of 3 tokens overlapping by 1, budgets below and above one chunk |
| `decisions` | Are valid sets usable and cuts told; do thresholds, promotion and decisions fit the report a version has, whatever overlaps; are pages complete and samples usable while job and version change? | about 1000 question sets of up to 9 options and 3 questions; 3 examples from pools of up to 9, 3 reports by hooks and calibrations; 3 items per job, pages of 1, 4 filters |

Why the bounds are enough to meet the interesting cases: a race needs two
threads, and there are always two that can do the conflicting steps (two workers,
worker and submitter, two submitters, two hooks, hook and calibration); chunk
size 1 and 2 against 2 and 3 items give several messages and a short last one; two
faults with one retry give a retried and an exhausted task; one restart after any
step gives every crash point.  Three calls are the holder of the slot, the holder
of the lock and one queued behind; two states make a call that is abandoned
between passes.  Three checkpoints of which two fit make every comparison evict.
Eight characters are several windows and several calls.  The question sets meet
each cut (cap, common cut, end of the input) alone and together; three
examples with two required at a threshold and three for promotion give reports that
fail in each way, and labels that differ in case only or carry a blank.  After its
first report, and while a decision or a job uses it, a version is evaluated on few
evidences (`FewEvidences`), which make its report pass or fail, and a version in use has
at most `FewReports` reports: thresholds do not depend on jobs, nor pages on how the
thresholds came about.  Deadlock checking is off because the bounded systems really
stop: all jobs ended, all calls returned, the bounds used up.  That nobody is
left waiting is what `Dispatched`, `NoLostWakeup` and the liveness properties say.
Symmetry is used only over interchangeable model values and only in runs
without liveness.

Runs that show a disagreement between the code and what it says (each is a
finding in `PROJECT.json`):

| Run | Shows |
|---|---|
| `jobs_stuck` | `complete_job` fails once: the retry cannot claim the job again, it stays active until the next start, and cannot be cancelled. |
| `library_promotion` | A failing report may become the latest one between the check and the write of a promotion. |
| `scan_blank` | A window of blanks is answered as a complete scan of the whole text (`guard.py:80,85,179-184`). |

Further configurations, not among the runs of `PROJECT.json`, state what the code says
of itself and are refuted by TLC as well:

| Configuration | Shows |
|---|---|
| `library_trust` (MCLibrary, `TrustIsKept`) | A hook that read the version before a promotion takes the trust away again, although its report passes (`hooks.py:96-97`: "a trusted version stays trusted while its new report still passes"). |
| `library_temperatures` (MCLibrary, `ThresholdsStayCalibrated`) | A hook that read the version before a calibration leaves calibrated temperatures with thresholds measured without them (`workbench.py:398-400`: calibration "refreshes the recommended thresholds"). |
| `decisions_promotion` (MCDecisions, `DecidedRestsOnReport`) | After a failing report overtook a promotion, `laya_decide` returns 'decided' by the default threshold (`decide.py:213,240-244`; `decide.py:170`: "at or above the threshold measured for that question"). |
| `decisions_tolerance` (MCDecisions, `MeasuredAsDecided`) | A confidence within `_TOL` below a grid point (1 - 0.34 is 0.6599999999999999) supports a threshold (`evaluation.py:151`) that does not decide it (`answers.py:118`), and what is decided misses the target (`evaluation.py:6-8`: the confidence is "what `laya_decide` compares against a threshold"). |
| `decisions_labels` (MCDecisions, `SuggestionsReadable`) | `coerce_expected` strips the value and not the labels (`evaluation.py:110-112`), so what is suggested for a label such as 'billing ', which `budget.py:147-150` accepts, cannot be read (`workbench.py:549`: "pre-filled in dataset format"). |

Other disagreements, met while modelling, have no configuration of their own:

* `submit` itself may claim the job it finalized and run its hooks in the thread of
  the tool call (`service.py:190`, action `Claim` of a client), while
  `service.py:14-15` says that hooks are called "in the worker thread".
* A call that times out gives up the asyncio.Lock while its executor thread lives on
  (`runtime.py:560`), so two interactive calls may occupy threads, while
  `runtime.py:26-27` says "only one of them occupies a worker thread at a time".
* `_compare` reloads evicted checkpoints only when they are in `preload_models`
  (`runtime.py:411-414`), while `runtime.py:377-379` says that the server "ends in the
  same warm state": a checkpoint loaded by hand may be gone after a comparison.
* `laya_job_results` never passes `unverified` on (`batch.py:199-211`): a job of a
  draft schema shows 'decided', while `decide.py:174` says "Only a 'trusted' schema
  (schema_status in the response) produces 'decided'".
* `laya_decide` calls every answer of an evaluated schema 'unverified' (`decide.py:213`),
  while `docs/tools.md` (60-65) says that "Only an `evaluated` or `trusted` schema gets
  real `decided`/`needs_review` splits".
* With a row budget below the number of scan questions `max(1, ...)` still sends one
  chunk (`guard.py:172`) and the budget check refuses it: such a server refuses
  every scan.

The properties that hold on both sides of the library findings bound the damage:
a trusted version always has a passing report of its own (`TrustedOnEvidence`),
even when it is not the latest; report, thresholds and latest evidence of a version
belong together (`ThresholdIsLowest`), whoever overtook whom; and a version trusted on a report
that passes, with that report's temperatures, decides as well as the report says
(`DecidedMeetsTarget`).

**Fairness.** `Jobs!FairSpec`: weak fairness of each worker, of a submitter that
has rows to enqueue, of whoever completes a job, of Huey's scheduler and of
start-up.  These are running threads of the process that never wait for each
other outside SQLite's lock and the engine's slot; a prediction returns or raises.
Nobody is obliged to submit, cancel, stop, crash or fail.  `Engine!FairSpec`: weak
fairness of each call's coroutine, its thread and each batch thread.  A
timeout (`Expire`) is part of no fair action, so no property rests on a timeout
that must happen.

Each property has a mutant (`mutants` in `PROJECT.json`): an operator marked
"(Mutant: ...)" beside the definition it would replace, with the bug that the
property detects.

## 4. Proofs

Proved by TLAPS for every value of the constants, from the assumptions named in
the modules: finite sets of threads and jobs, natural bounds, checkpoint lists
without repetition, a chunk of at least one item, `MaxWaiting` any integer; an overlap
smaller than a window; pages of at least one item, answers with a key of their question
and a finite set of examples for the decisions.
Every safety and action property that a passing run checks is a theorem.  Each
module proves that its inductive invariant holds initially, that each action keeps it (one
lemma per group of actions), and derives the properties.

**`EngineProofs`**

* `TypeCorrect`. `TypeOK` is not inductive: a pass decrements the number of states
  left.  `Budget` adds that whoever is in, or on its way to, a pass has a state left.
* `OneForwardPass` (`SlotExclusive`), with `CallInv`: a call without the lock has no
  thread, so its thread is not started twice.
* `WakeupsNotLost` (`NoLostWakeup`): inductive with the types; each step that makes a
  sleeper's condition true wakes all sleepers.
* `WaitingIsCount` (`WaitingCounted`): cardinality of the waiting tickets grows by one
  at admission and falls by one at most once per ticket.
* `BatchYieldsToCalls` (`BatchYields`), from `WaitingIsCount`: a batch thread tests the
  counter, the property is about the calls.
* `AdmissionBounded` (`AdmissionBound`, the limit 0 included) and `AdmissionIsExact`
  (`AdmissionExact`): the rows admitted are counted as the set of (ticket, row) pairs, so
  that the sum over the tickets is a cardinality and needs no induction (`RowsInv`).
* `GivenUpCallsStop` (`GivenUpNeverRuns`, with `CallInv`: the ticket of a timed-out call is
  cancelled), `UnloadIsSafe` (`UnloadAfterLastPass`, from `OneForwardPass`).
* `FirstComeFirstServed` (`ServedInOrder`). `LineInv`: the lock's queue is the calls
  that wait or hold, each once, in the order of their tickets; `OrderInv`: whoever
  was served came before everybody still in it.

**`JobsProofs`**

* `TypeCorrect`, with `FrameInv`: a thread at an item has one, an outcome to record is
  one of an item's, and nobody runs while the process is down.
* `OneCompleter` (`SingleCompleter`), with `FrameInv`: a claim excludes a second one, a
  cancel and an append until `complete_job`; releasing claims at start is harmless
  because no thread is left then.

**`JobsRowsProofs`.** All that an action does to the tables is one of five things
(`TableStep`): add items, answer one, cancel, end, or nothing a reader sees.  `RowGood`
relates a job's row to its items and is kept by each of the five; `NextTables` shows that
every action is one of them.

* `CountersCorrect` (`CountersMatch`), `FinalStatusCorrect` (`FinalStatusSound`),
  `ShutdownFailsNothing` (`NotFailedByShutdown`), `EvaluateCorrect` (`EvaluateReported`).  The
  strengthening says that a claimed job is closed, answered and not only failed,
  which stays true through the hooks, so that `complete_job` writes a justified status.
* `Frozen` (`TerminalFrozen`), from the same five steps and `OneCompleter`.
* `JobsImplementLifecycle` (`ImplementsLifecycle`): under the mapping each of the five is
  a step of `JobLifecycle` or a stutter.

**`JobsQueueProofs`**

* `ItemsHaveOneCarrier` (`OneCarrier`).  `CarrierInv` is pairwise: no item is in two queued
  messages, two scheduled ones, two threads, or two of different kinds; only items
  whose row exists are carried; a worker processes items of the message it
  executes.  Appending gives new indices, chunks of them are disjoint (`ChunksSplit`), and
  `_recover` rebuilds an empty queue (`RecoveredSplit`).
* `NoWorkForgotten` (`Dispatched`).  `DispatchInv`: for each job that no exhausted fault
  stranded, every pending item is sent, or in the hands of a thread, or the job is
  still to be recovered; and a closed, answered job has somebody who will try to
  claim it or has.  Each step hands on what it lets go (`HandsOn`).  It rests on
  `CarrierInv`, `SingleCompleter`, `RowsInv` and `OpenItems` (no cancelled item in an
  active job).

**`LibraryProofs`**: `TypeCorrect`, `LabelsMatch` (`AnswersMeetTheirLabels`), `EvidenceBelongs`
(`EvidenceIsOwn`), `TrustNeedsEvidence` (`TrustedOnEvidence`), `RefsAreOwn`
(`RefIsOwnReport`).  `RowsRefer`: rows refer to rows that exist.  `HookInv`, `CalInv` and
`PromInv` say what a hook, a calibration or a promotion remembers between its
transactions and why it is still of use: reports never disappear, a version's status
never returns to draft, items of a job do not change.  That is why the stale reads found
above cannot take a version's evidence away.

**`ResidencyProofs`**: `TypeCorrect`, `PassesArePrepared` (`RunsOnPrepared`),
`ComparisonCleansUp` (`NothingLeftBehind`), `ComparisonRewarms` (`PreloadedWarm`),
`SamplesAreWarm` (`SampledWarm`).  `RouterOK`: the LRU list has one agent per checkpoint
and at most `MaxLoaded`.  `SlotInv` follows a comparison that nobody disturbs: at each of its
points at most the checkpoint it is at is resident besides those it found, and its
reloading loop has every preloaded one in memory or still to do.

**`DecisionsProofs`**.  What the tools compute with loops and sorts is defined here by
`CHOOSE` and set filters, and the proofs argue with a least number (`LeastNumber`: a set
of naturals that is not empty has one) where a textbook would use an induction.

* `ThresholdsAreLowest` (`ThresholdIsLowest`), `DecidedReachTarget` (`DecidedMeetsTarget`),
  `TargetsDoAgree` (`TargetsAgree`).  `SchemaInv`: every report that a hook, a calibration
  or the version holds is one that `build_report` gives for its own evidence and
  temperatures, and the thresholds of the version are those of its report.  It says
  nothing about which of them came first, so it survives every interleaving.  Status
  and temperatures are not tied to the report, because the code does not: `DecidedMeetsTarget`
  asks for a report that passes with the version's temperatures, and for no confidence
  within the tolerance below a grid point; the configurations of section 3 show what happens without.
* `ValidSetsAreUsable` (`ValidMeansUsable`), `CutsAreTold` (`NoSilentCut`).  `AuthorInv`
  remembers what each tool was told and said; the lemmas compare `option_layout` with
  `layout_warnings` for any number of options and tokens.
* `PagesAreComplete` (`PagesComplete`), `PagesDoNotMiss` (`PagesMissNothing`).  `ReaderInv`: as
  long as the job had ended, the pages so far are a prefix of the matching items, as long
  as the next offset.  While it goes on, every item that was there at the beginning and is
  not yet delivered has a rank in the list of matches that is not below the offset:
  items that end later only raise it.
* `SamplesAreUsable` (`SampleUsable`).  `SampleInv`: the sample is drawn from the items that
  were done, none twice, and of the right size; `ReadsBack`: what is suggested is read by
  `coerce_expected` as the value the evaluation compares with, where the label has no
  blank around it.

**`ScanProofs`**: `EverythingIsScanned` (`AllVisibleScanned`), `WindowsAreSound`
(`WindowsSound`), `ResumeAlwaysMoves` (`ResumeMovesOn`), for texts of any length, window,
overlap and budget.  The argument in layers: the words or tokens of a text are disjoint,
in order, and hold all that shows (`SpansSplit`); windows begin at the first span, advance
by a step of at most their size, and end at the last (`WindowBounds`), so that any
size - step + 1 neighbours are in one window (`WindowOf`); trimming a window leaves exactly
its spans, with or without the blank before a token and at the end of the text
(`TrimToSpans`), so the chunks of every kind of tokenizer are windows over spans
(`TextChunked`).  Hence the first m chunks leave out nothing before chunk m + 1
(`ChunksReach`).  `ScanInv`: all that shows before `base` is covered.  No text is
excepted; of a window that holds blanks only, the theorem says just that.

Only model-checked: liveness (`FinalizedEnds`, `CallsEnd`), which is out of the
prover's reach.  The runs and configurations that show a disagreement have counterexamples, not
theorems.

## 5. Not modelled

* Huey, SQLite, asyncio and threading themselves: modelled by what the code relies
  on (FIFO queue, retries after a delay; atomic transactions; FIFO lock;
  condition with `notify_all`).
* `immediate` mode of JobService, which only the tests use.
* Softmax, ECE and the value of a fitted temperature: floating point.  Rounding to four
  digits is modelled where it decides something: a confidence just below a grid point is
  shown as that point.
* Routing of an item to a checkpoint: laya's, and the reason why the properties of
  question sets are about english only.
* Confusion matrices, bands, summaries, the wording of warnings; the verdict that
  `_judge` derives from a chunk's scores; `detail`, ETA and usage notes.
* How many tokens a text or an option has: an input of the models.
* Usage accounting, configuration, prompts, resources, logging: no protocol.

## 6. Plan

Done: Jobs, JobLifecycle, Engine, Library, Residency, Scan, Questions, Evaluation,
Decisions, their runs; the proofs above.

Left: `Server`, the lifespan composing Engine and Jobs, with worker threads as the
engine's batch threads, for what happens between stop of jobs and stop of the engine.

## 7. Running

    tlc -workers 2 -config jobs_faults.cfg MCJobs
    tlapm EngineProofs.tla
    tlapm JobsQueueProofs.tla
    tlapm ScanProofs.tla
