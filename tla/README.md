# Verification of the workflow automation

This directory is the formal model of `workflow_automation`: a Python command
line program that takes a story from extraction over a NotebookLM video to its
publication, and the two Node workers it starts. The TLA+ modules are translated
from the source, TLC checks them on small instances, and TLAPS proves the results
listed under *Proofs* for every instance. File names below are relative to
`src/src/workflow_automation/` unless they say otherwise.

## 1. The system

### Components

| component | files | state it keeps | operations |
|---|---|---|---|
| command line, stage runner | `cli.py`, `runner.py`, `adapters.py` | one story state in memory per invocation | `queue-video`, `produce-video`, `publish-*`, `resume`, `status`, the candidate commands |
| repository lock | `lock.py` | `state/workflow.lock` | create exclusively, unlink |
| state store | `state.py` | one JSON file per story or source, under a sanitised name, with backups | load, save by rename |
| tracker | `tracker.py` | none (reads the tracker files) | next unfinished story, lookup |
| configuration | `config.py` | none | validation of the adapters a command needs, the roots |
| candidates | `extraction.py` | a source's state file, the stories tracker | extract, approve |
| requests and receipts | `notebook.py`, `contracts.py` | request and receipt files per story | write a request, ingest a receipt |
| generation worker | `workers/notebooklm/hp-notebooklm-generation-worker.mjs` | the receipt it publishes | look, submit, confirm, publish |
| download worker | `workers/notebooklm/hp-local-download-worker.mjs` | output and receipt | look, download, verify, publish |
| handoff | `handoff.py` | handed-off copy and its record | verify, copy, record |
| media | `media.py` | the final video | append the outro, compare it with the program |
| captions | `captions.py` | caption request and caption of a story | request, generate, read |
| content package | `packages.py` | a directory per story | create in place, validate |
| logging | `jsonlog.py` | none | log lines |

### How they interact

An invocation validates its configuration, creates the lock file, loads the
story's state file, runs **one** stage on the in-memory copy, saves the copy,
prints a result and unlinks the lock file. A stage talks to a worker through
files and a process: it writes a request file, starts the worker, waits for its
exit, and believes the receipt file only if it answers this very request (its
SHA-256). The generation worker drives a browser page of a NotebookLM notebook
that all stories of a source share (repository README, line 37). The download
worker publishes the video and then a receipt that describes it; the runner
copies that video into the handoff directory, has the outro appended and the
caption generated, and packages the result for the publishers. The Wispr
integration, outside the repository, writes the final script into a story's state
file. Before a story exists, an extractor proposes pairs for a source, a person
reviews them, and approval appends them to the tracker. A scheduler (`CRON.md`)
or an operator issues the commands, several at a time; an operator clears a stale
lock file, and now and then a download.

### What is hard here

* **Overlap.** Any number of invocations start at any time; only the lock file
  separates them. A whole state copy is written back after a run of minutes.
* **Abandoned processes.** A killed runner leaves its worker or its caption
  generator running; the next runner starts another one for the same files.
* **Waits without a deadline.** No call of the Python program has a timeout
  (`adapters.py:25`); a download has none either, nor has a worker that could not
  disconnect from the browser and whose socket keeps it alive.
* **Crashes.** A killed process leaves the lock file, a half-written package and an
  attempt counted nowhere; an interrupted one (a `KeyboardInterrupt` is no
  `Exception`) leaves everything but the lock file.
* **Partial failure.** Saves and reports happen inside the handlers that record
  failures, so they can fail on a stage that has already succeeded. Video and
  receipt, tracker and source state are pairs of files written one after the other.
* **Retries of outside effects.** A post or a video generation cannot be taken
  back, and an adapter may fail after it; what bounds the repetition is a counter
  saved after the fact.
* **Evidence.** What the page shows, what the receipt says, what the copy holds and
  what the state file says are different things written at different times.

The list `hazards` in `PROJECT.json` gives each at its line, with the properties
that would catch it.

### What makes each component correct

* *Lock*: nobody works without it, no live process leaves it behind, every
  holder gives it back.
* *Runner and store*: a copy written back loses nobody's progress; done stages
  are backed by work and artifacts, in pipeline order; budgets hold up to the
  attempts a fault has lost; exit code and record agree; dry runs leave no evidence.
* *Tracker*: resume settles, and says on what it waits.
* *Candidates*: a pair becomes a story once, identifiers are unique, a story is
  attributed to the source whose extractor proposed it, although two sources may
  share a state file; what is recorded as approved is in the tracker.
* *Generation*: a queued stage has a generation of its own and a receipt that
  stays valid; no receipt is replaced; retries do not multiply generations.
* *Download and handoff*: a receipt describes the video at its path, whoever raced
  for it; the copy is the video that was verified; only a fault strands an output.
* *Media and captions*: whatever the renderer did, the program's sound and its end
  survive; the caption is of the final script (which the run `captions` refutes).
* *Package*: a publisher only ever runs on a finished package that nobody rewrites,
  and a done story's package holds the delivered video.

## 2. Modules

### `Workflow`

The invocations, the lock, the state files, the packages and the tracker.

| variable | code |
|---|---|
| `lock` | the lock file: `Free`, owned by a process, or `Stale` (its process is gone) |
| `disk` | the state file of each story: status and attempts of each stage, artifacts |
| `package` | the package directory: `absent`, `partial`, `valid` |
| `pc`, `job`, `mem`, `code` | of each invocation: where it is, command line with the chosen story and stage, loaded state, exit code |
| `calls`, `succeeded` | history: adapter starts, and pieces of work that adapters did outside, whether they then exited with success or not |
| `faults` | how many faults have struck |

The actions follow the code in order: `Start`, `CommandConfigError`, `AcquireLock`
/ `LockedOut` / `LockWriteFails`; `Load` / `LoadFails`; the choices of resume
(`ResumeStage`, `ResumeConfigError`, `ResumeBoundary`, `ResumeComplete`);
`run_stage` and `_execute_stage` (`SkipDone`, `BudgetExhausted`, `StageRefused`,
`RunWithoutAdapter`, `AdapterNotConfigured`, `CallAdapter`, then `AdapterFails`,
`AdapterReturns` or `BeginPackage`, `PackageFails`, `AudioMismatch`,
`FinishPackage`); the two handlers (`Save`, `SaveFails`, `BoundarySaveFails`,
`Report`, `ReportFails`, `SaveFailure`, `SaveFailureFails`); `Release`. A step is
as long as the code that touches no shared state: everything between two accesses
to a file or a process is one action. `Crash` and `Interrupt` may strike at any
of them; `RemoveStaleLock` and `WriteScript` are the operator and Wispr, who takes no
lock: a script may be stored while an invocation is at work, and is then lost with the
save of the copy it loaded (`state.py:116`).

Abstractions: a missing state file reads as the fresh state (`load_or_create`
builds exactly that, and no code path saves it unchanged); a package is `partial`
from the first overwritten file to the last; all checks of a receipt, a handoff or
media that may reject are one nondeterministic failure of the adapter step, which may come
after the adapter has done its work; error
texts, verification data, logs and backups are left out; a failing report can only
happen where standard output is written through.

### `GenerationQueue`

One stage, `video_queued`, in the detail that `Workflow` hides behind
`CallAdapter`: the runner (one at a time: the lock is `Workflow`'s result), the
worker processes (more than one when a killed runner leaves its worker behind),
the request and receipt files, and the notebook page.

A request is its version: every attempt writes a new timestamp, so two requests of
a story never have the same hash. A receipt is its status and the version it
answers. `page` counts a story's generations as sent (clicked, not yet shown),
waiting, generating, ready. The actions `Appear`, `Drop`, `Generate`, `Complete` are
NotebookLM, modelled from what the worker expects of it.

The runner is `command_stage`: `WriteRequest` counts an attempt in memory, `Revisit` is
a stage that is done already or has no budget left, `Ingest` judges exit status and
receipt, `Save` and `Report` end a success, `RecordFailure` is the handler. `SaveFails` and
`ReportFails` enter the handler from a success, `RecordFailureFails` leaves it without a
record. The worker is `main`: `Look` is the one reading of the page before a submission,
and may see nothing of what is there (`bodyText` returns an empty text when it fails, and the
page is read as soon as its document is loaded); `Matches` is `matchingQueueState`: the
story's title and token stand *somewhere* in the page's text, and a state word stands
*anywhere* in it. `PublishQueued` and `PublishError` are `writeAtomicJson`: a hard link, which
an existing file defeats. `Leave` and `DisconnectFails` are the `finally` clause, and
`PublishError` the `catch` clause, which only *sets* the exit code: a worker that is still
connected to the browser is `hanging` until `ConnectionCloses`, which need never happen.

### `DownloadWorker`

The download worker alone, one process of several: where it is, the story it works
for, and the video it holds (`worker`), over the files it shares with the others
(`output`, `receipt`). A file is the video in it: the receipt's size, SHA-256 and
media facts are "the video it describes". `Pin` is `verifyExistingArtifact`,
`Compare` the verdict on an output that was there at the start, `Download` and
`DownloadFails` the two attempts of the loop in `main`, `LinkOutput` and
`LinkReceipt` the two `link()` calls that replace nothing, `AwaitReceipt` and
`GiveUp` the poll after a lost race (forty looks), `Leave` and `DisconnectFails`
the `finally` clause, after a success (`leaving`) and after an error (`quitting`). A worker
that cannot disconnect is `hanging` until `ConnectionCloses`; failing to disconnect is no
fault, since the locked playwright-core 1.62.1 has no `disconnect` on a browser.
`saveAs` has no deadline, so `Download` need never come. `OutputDiskError` and
`ReceiptDiskError` are a file operation that raises before or after its link; `Kill` ends
the process anywhere.
`SafePaths` is `safePath`: request, receipt and output lie within one allowed root,
which is so exactly if the configured roots are nested (`RootsNested`).

### `OutroTimeline`

What `append_branded_outro_preserve_audio` accepts, over media whose starts and
lengths are milliseconds. `Accepted` is the conjunction of the code's checks, each
under its own tolerance; `KeepsProgram` is what a viewer is owed: the program's
sound, ending when it ended, and the whole outro, up to the sum of the tolerances.

### `VideoProduction`

`produce-video` as a whole: `DownloadWorker`'s steps composed with the runner that
starts the workers, `OutroTimeline`'s verdict, the handoff, captions and package.

| variable | code |
|---|---|
| `runner` | the invocation that holds the lock: where it is, its story, the worker it waits for, the script it loaded, the video it verified, the caption it read, the attempts it has counted |
| `stage`, `script` | the `video_produced` record and `wispr_final_script` of the story's state file |
| `copy`, `handoff` | `notebooklm-original.mp4` and `handoff.json` in the handoff directory |
| `final` | `final-with-branded-outro.mp4`: the video it was made of, the medium that ffmpeg made |
| `caption`, `package` | `caption.md`; the content package: its video, its caption, complete or not |
| `strays` | captions of generators that nobody waits for |
| `cleared` | history: output paths the operator has cleared |

An attempt is `BeginAttempt`, `StartWorker`, `WorkerSucceeds` or `WorkerFails`,
`VerifyArtifact`, `CopyArtifact`, `RecordHandoff` (`handoff.py`), `AppendOutro`
(`media.py`), `RequestCaption`, `GenerateCaption` or `GenerateNothing`,
`ReadCaption` (`captions.py`), `BeginPackage`, `FinishPackage` (`packages.py`),
`MarkDone` (the audio check and `mark_done` of `runner.py`), and `SaveDone` and `Report` of
`cli.py`; `AttemptFails` is any check or file operation that raises on the way, and `Revisit`
an invocation that finds the story done or its budget spent. `SaveFailure` is the handler, which
`LateFailure` (a save or a report that raises) enters from a success, and
`SaveFailureFails` one that cannot save either.
`Crash` kills the runner and nothing else: `OrphanExits` and `LateCaption` are the
worker and the generator it leaves (`strays` holds captions of killed runners' generators
only). `WriteScript` is Wispr at any time, and the save that overwrites the script is part
of the model (`SavedScript`). `ClearDownload` is the operator who removes an output and its
receipt between two attempts.

### `VerifiedDelivery`

The abstract specification of `VideoProduction`: a video is verified, delivered
once, packed and unpacked while the story is not done, and the story is completed
with a package of exactly the delivered video. `Undo` takes a story off the done ones again,
where the constant `LateFailures` allows it: the handler that overwrites a success.
`VideoProduction` implements it with
`verified` mapped to `receipt`, `delivered` to `copy`, `packaged` to the video of a
complete package and `done` to the stories recorded as done. Workers, retries,
crashes and half-written packages are stutters.

### `Approval`

`extract-candidate-pairs` and `approve-candidate-pairs` under the lock. `file` maps
a state file to the source state in it; several sources may share one, since names
are sanitised (`FileOf`). `tracker` is the stories file. A command's memory is `mem`
(its source state), `todo` (candidates not looked at yet) and `list` (the tracker it
will write). `extracted` remembers what each extractor has proposed. The tracker is
written first and the source state second, by two actions, and `Crash`,
`Interrupt`, `SaveFails`, `ReportFails` may strike in between.
A candidate is its pair; reviewing is a person's work and no step of the program.

### `StageAttempts`

The abstract specification that `Workflow` and `GenerationQueue` share: what the program
promises of the attempts at its stages, whoever carries them out. One item is attempted at a
time (`Begin`), while it is not done and has budget left. An attempt may come with leave for
one piece of outside work (`credit`); the leave is used or gone (`Work`), possibly long
after the attempt. An attempt is recorded with its outcome (`Succeed`, which for an item that
needs work presupposes a piece, or `Fail`), or lost in a fault that is itself counted (`Abandon`,
`Suffer`). `Undo` is a failure recorded over a success, where the constant
`LateFailures` allows it; `Lose` is outside work that disappears and that nothing rests on.

| abstract | `Workflow` (`Attempts` of a story and stage) | `GenerationQueue` (of a story) |
|---|---|---|
| `done`, `spent` | done stages and attempts in the state files | the same of `video_queued` |
| `active` | the stage of an invocation that has counted an attempt and not saved it | the story of such a runner (`Uncounted`) |
| `credit` | an adapter that was started and has not returned | workers that may yet submit, and a request without a worker (`Credit`) |
| `work` | work that adapters did outside, before an error too (`succeeded`) | generations of the story on the page |
| `lost` | `faults` | `faults` |
| `LateFailures` | saves or reports may fail | saves or reports may fail |

Locks, loads, copies in memory, receipts, packages and pages are stutters. The module's own
theorem draws the consequences once for both: work never exceeds attempts and faults.

### `StoryRegistry`

The abstract specification of `Approval`: pairs are proposed for a source (`Propose`),
a state file offers some of them (`Offer`), an approval registers every new pair of an offer
as a story of its own, numbered onwards, in one step (`Approve`), and an offer is marked as approved when
all of it is registered (`MarkApproved`). `proposed` is mapped to `extracted`, `offer` and `approved` to what
the state files say, `stories` to the stories of the tracker. The lock, the loop over the
candidates, failing saves and killed commands are stutters.

### `MCWorkflow`, `MCGenerationQueue`, `MCVideoProduction`, `MCApproval`

The instances for TLC: sets of model values, the command lines, media and batches.

### `WorkflowProofs`, `RecordProofs`, `EvidenceProofs`, `LedgerProofs`, `GenerationProofs`, `DeliveryProofs`, `ApprovalProofs`

The proofs (section 4). The first four are about `Workflow`, in the order they
build on each other; the others are about one module each.

## 3. Runs

| run | instance | shows |
|---|---|---|
| `commands` | 2 invocations, 1 story, 2 attempts, every command real and dry, the download worker and the publisher not configured, no fault | `NoBudgetWithoutWorker`; `DryRunsAreSimulations` |
| `faults` | real commands and a dry resume, 2 attempts, 1 fault of any kind; 1.6 million states | `MutualExclusion`; `CopyIsCurrent`: a copy differs from the file in the invocation's own stage, and in a script stored meanwhile, only; `ExitCodeTellsRecord`; `DoneIsBacked`; `PublishesFinishedPackage`; `CallsWithinBudget` and `WorkAccounted`: each fault costs at most one extra adapter start, and every piece of work outside is paid for by an attempt on record, the attempt under way, or a fault |
| `crashes` | 2 publishers, one unconfigured, 2 attempts, 1 crash, interrupt or failed lock write | `PipelineOrder`, `RecordsOnlyGrow`, `CompletedStaysComplete`: killing a process anywhere takes nothing back |
| `cron` | resume for ever, 2 stories, 1 attempt, 2 faults of crash, interrupt, save and report, `FairSpec` | `HolderReleases`, `EventuallySettled`; the refinement `KeepsAttempts` |
| `shared` | 2 stories in one notebook, 2 workers, 2 attempts, a page that lags or is not read, workers that cannot disconnect, 1 crash, interrupt, kill, failing save or failing report; 2.0 million states | `DoneHasGeneration`, `ReceiptStaysValid`, `ReceiptNeverReplaced`, `GenerationsWithinBudget`; the refinement `KeepsAttempts` |
| `production` | 1 story, 2 workers, 2 possible downloads, 2 scripts, 4 renders (one right, three wrong), 2 attempts, 2 faults of any kind, `FairSpec`; 1.3 million states | `ReceiptDescribesOutput`, `StrandedOnlyByFault`, `HandedOffIsVerified`, `DoneIsDelivered`, `FinalKeepsProgram`; the refinement `DeliversVerified`; `EventuallySettled`: attempt after attempt, the story is produced or its budget spent, or the runner waits for ever for a download, a hanging worker or the generator |
| `approval` | 2 commands, 2 sources that share a state file, 2 pairs, 3 batches (one pair, twins, both pairs), 2 faults; 468 000 states | `NoDuplicatePairs`, `UniqueIds`, `ApprovedIsTracked`, `PairFromOwnExtraction`, `TrackerOnlyGrows`; the refinement `KeepsRegistry` |

One run of each module (`faults`, `shared`, `production`, `approval`) also checks
its type invariant `TypeOK`.

Runs that are expected to fail, each with a statement of the repository:

| run | statement | what happens |
|---|---|---|
| `undone` | completed stages are skipped (README line 8) | a save or report that raises after a completed stage makes `cli.py:95` record it as failed; the next invocation publishes again |
| `foreign` | never accept unrelated queue text (worker, line 392) | a finished item of this story and another story in progress together read as "this story is generating", so nothing is submitted |
| `wedged` | bounded retries (README line 12) | the error receipt of the first attempt is never replaced and never matches a later request, so no retry can succeed |
| `roots` | the roots are independent (README line 58) | with the request and output roots apart, as the defaults and `config.example.json` have them, the request is refused for its receipt path (`contracts.py:329`, worker line 153): no download worker is ever reached |
| `captions` | the caption is generated from the final Wispr script (`captions.py:10`) | `caption.md` is never removed: a generator that exits with success and writes nothing, which `captions.py:125` means to refuse, leaves the caption of an earlier attempt and its script to be packaged |

What the model shows besides, without a run of its own:

* every `produce-video` that comes too early spends an attempt of its stage
  (`runner.py:189` is inside the counted attempt), so a schedule that asks before
  the generation is queued can exhaust the budget;
* an interrupted attempt is never saved, so an adapter may start once more for every
  such fault; this is the `+ faults` of `CallsWithinBudget`;
* exit code 7, "retry exhausted" (README line 62), is returned by nothing; a spent
  budget exits with 8;
* both workers call `browser.disconnect()`, which playwright-core 1.62.1 does not have; the
  call raises, the worker fails although its receipt stands, and its open socket may keep the
  process, and with it the runner and the lock, for as long as the browser lives;
* the generation worker reads the page once before it submits. A text that could not be
  read, or was read before the page had rendered, shows no generation, and the worker submits
  a second one. `GenerationsWithinBudget` bounds that by the attempts; the README's line 39
  ("one independently prompted" video per story) is not kept by it;
* a publisher that posts and then exits with an error is retried, and posts again
  (`adapters.py:26`): `WorkAccounted` bounds the posts by the attempts and no better;
* a save of the copy loaded at the start overwrites a script that Wispr stored
  meanwhile (the integration "stores the text" when Wispr has it, README line 113, and
  takes no lock); hence the exception for the script in `CopyIsCurrent` and `RecordsOnlyGrow`.

### Bounds, and why they are enough

* Two invocations, commands or workers: every property relates one of them to the
  files, or two to each other; the safety properties are proved for any number.
* One story where the property is about one state file; two where stories meet (the tracker,
  the notebook page). Two sources because they may share a file.
* `MaxRetries` 1 or 2: a first attempt, a retry, and the refusal of a third.
* `MaxFaults` 1 in `GenerationQueue` and most of `Workflow`: each hazard needs one fault and the
  legal steps after it. Two in `cron`, where a failure recorded over a success may follow
  a lost attempt, and two in `VideoProduction` and `Approval`, where a cleared download
  or a repeated approval matters after another fault. The ledger
  properties carry the number of faults in their statement and are proved for any
  number.
* `KeepsAttempts` of `Workflow` is checked on the smallest instance and proved for all.
* One or two publishers: two to see their records kept apart.
* `MaxVersion` (`MaxRetries + MaxFaults`) bounds the request versions of
  `GenerationQueue`; `TypeOK` says that it is never exceeded.
* `calls`, `succeeded` and `page` are not bounded by the model: they are bounded by
  `MaxRetries` and `MaxFaults`, which is what the ledger properties say. The tracker
  of `Approval` is bounded by its pairs, which is what `NoDuplicatePairs` says.
* Two possible downloads: NotebookLM may answer a retry with another file. Four renders:
  one that keeps the program, one that starts early, one that cuts the outro
  and one with other sound; `FinalKeepsProgram` is proved for every medium.

Deadlock is checked in every run: somebody can always act, if only an invocation that finds
everything done (`Revisit`) or a connection that closes (`ConnectionCloses`).

### Fairness

No wait of the Python program has a deadline, and not every wait of the workers has one; the
fairness says only what the code decides itself.

`Workflow!FairSpec`: a scheduler keeps starting invocations, an invocation that can
take a step takes one, and an operator clears stale locks (nothing in the code
does). Weak fairness of `Step` includes the return of adapters: `adapters.py` sets no
timeout, so the liveness of `Workflow` is that of invocations whose adapters return.
`VideoProduction!FairSpec` says which may not: strong fairness of `BeginAttempt`, since cron
restarts attempts (and other invocations may come between them); weak fairness of the
runner's steps *except* where it waits for the caption generator, and of each worker's steps
*except* where it waits for its download or hangs on its connection. Its other waits have deadlines
(`ACTION_TIMEOUT_MS`) or an end (the poll's forty looks). Local ffmpeg and ffprobe calls are assumed
to end. `EventuallySettled` therefore has a second disjunct, `WaitsOutside`: the runner waits for
ever at one of these three places. That there is no fourth is what the property adds.
`GenerationQueue` has no fairness and no liveness: its worker may hang after every error.
No fairness is asked of faults, of Wispr, of the operator's clearing, of a late
caption, or of a particular outcome: an adapter may fail every time.

## 4. Proofs

36 theorems about four specifications and the contract two of them keep, each for every value of the constants: any
number of invocations, workers, stories, sources and faults, any tracker and any budget
the configuration admits. The assumptions on the constants are the named
`ASSUME`s of the modules; TLC evaluates them in every run.

| module | theorem | property |
|---|---|---|
| `WorkflowProofs` | `TypeCorrect`, `MutualExclusionHolds` | `TypeOK`, `MutualExclusion` |
| `RecordProofs` | `CopyIsCurrentHolds`, `RecordsGrow` | `CopyIsCurrent`, `RecordsOnlyGrow` |
| | `NothingSpentUnconfigured`, `ExitCodesTell` | `NoBudgetWithoutWorker`, `ExitCodeTellsRecord` |
| `EvidenceProofs` | `DoneIsBackedHolds`, `FinishedPackagesPublished` | `DoneIsBacked`, `PublishesFinishedPackage` |
| | `StagesInOrder`, `CompletedStays`, `DryRunsSimulate` | `PipelineOrder`, `CompletedStaysComplete`, `DryRunsAreSimulations`, if no save and no report raises |
| `LedgerProofs` | `CallsStayWithinBudget`, `WorkIsAccounted` | `CallsWithinBudget`, `WorkAccounted` |
| | `StagesKeepAttempts` | `KeepsAttempts`: the refinement of `StageAttempts` |
| `StageAttempts` | `ContractAccounts` | work within attempts and faults; no success without work |
| `GenerationProofs` | `Types`, `ReceiptsKept`, `ReceiptValid`, `DoneGenerates`, `GenerationBudget` | `TypeOK`, `ReceiptNeverReplaced`, `ReceiptStaysValid`, `DoneHasGeneration`, `GenerationsWithinBudget` |
| | `QueueKeepsAttempts` | `KeepsAttempts`: the refinement of `StageAttempts` |
| | `GenerationsAccounted` | what the contract says of generations and queued stages |
| `DeliveryProofs` | `Types`, `ReceiptsTrue`, `NothingStranded`, `HandoffVerified`, `DoneDelivered` | `TypeOK`, `ReceiptDescribesOutput`, `StrandedOnlyByFault`, `HandedOffIsVerified`, `DoneIsDelivered` |
| | `ProgramKept` | `FinalKeepsProgram` |
| | `Implements` | `DeliversVerified`: the refinement of `VerifiedDelivery` |
| `ApprovalProofs` | `Types`, `PairsOnce`, `IdsUnique`, `ApprovedTracked`, `PairsAttributed`, `TrackerAppends` | `TypeOK`, `NoDuplicatePairs`, `UniqueIds`, `ApprovedIsTracked`, `PairFromOwnExtraction`, `TrackerOnlyGrows` |
| | `ApprovalKeepsRegistry` | `KeepsRegistry`: the refinement of `StoryRegistry` |

### Workflow

1. *Types.* `TypeInv` is `LocalInv` (what each process has) and `SharedInv` (files
   and counts). `TypeOK` alone is not inductive: a state file is updated at the
   story and stage of a process, so `JobOK` adds that a process past the load has
   a story and that one that runs a stage has a stage. That attempts stay within
   `0..MaxRetries` is the check in `Exhausted`.
2. *Mutual exclusion* is inductive as it stands, in its strong form: `lock = p`
   exactly while `p` is inside. A crash makes the lock stale at the step that ends
   the process, and a stale lock has no owner, so clearing it lets nobody join.
3. *Copies* (`CopyInv`). `CopyIsCurrent` needs to know where the copy and the file
   are equal (before the stage starts and after it is saved) and that a stage whose
   adapter runs is recorded as running in the copy and not as done in the file.
   Mutual exclusion gives the frame: whoever writes a file is inside, so nobody else
   has a copy. Wispr is the exception: it writes without the lock, but touches nothing
   except the script, so a copy agrees with its file on every record but the own stage's and
   on every artifact but the script (`Agrees`, `Extends`). `RecordsOnlyGrow` follows, since
   every write is a current copy in that sense.
   From the same frame (`SomebodyMoves`): `BudgetInv`, that whoever is inside with an
   unconfigured stage rehearses, which both entry points establish at different
   places; and `TellsInv`, which follows what the exit code will say from the end of
   the stage over the save to the release.
4. *Ledger* (`LedgerInv`). The account of a story (starts against recorded attempts) is kept by
   the process that has a copy, and by the file when nobody has. Starting an adapter moves
   both sides of the copy's account by one; a save hands the account to the file; a fault that
   loses a copy loses at most one attempt (`Extends`) and is itself counted. This is why
   the bound reads `+ faults`. Work needs a different argument (7), since it may be done by an
   attempt that fails.
5. *Backing* (`PackageInv`). Done stages have their work and artifacts in the file
   and in every copy that may be written back. The package is overwritten only while
   the stage is not done in either (by `CopyInv`), and a publisher is only started
   from a copy equal to the file, on a package that was just validated.
6. *Order* (`OrderInv`). Files and copies are in pipeline order, a copy has every
   done stage of its file, and while an adapter runs, what its stage needs is done.
   A handler fails a stage only while it is not done, so nothing above it can be
   done either; that is where `NoLateFailure` (no save and no report raises) is
   needed, and the run `undone` shows that it cannot be dropped. `SimulationInv` (a dry
   run's copy has the attempts and the done stages of its file) needs it likewise: a
   rehearsal that skips a done stage and fails to save it would record it as failed.
7. *Attempts* (`AttemptsInv`). The refinement of `StageAttempts` needs no such assumption:
   late failures are part of the contract, as `Undo`. `AttemptsInv` says that an adapter
   only runs for an attempt the file does not count yet, that the file of such an
   attempt does not have the stage as done, and that a copy which counts nothing new changes
   nothing about done except by a late failure. `View` is what the contract sees, and
   mutual exclusion reduces it to the holder's stage (`HolderView`): a step of
   `run_stage` is a `Begin`, a `Work` or a stutter, a save is an `End`, an `Undo` or a
   stutter, and whatever ends an invocation early is an `Abandon` or a `Suffer`.
   `WorkIsAccounted` then is `ContractAccounts` read through the mapping: at every moment the
   work done is bounded by the attempts on record, the one under way, and the faults,
   whether the attempts that did it succeeded or failed.

### GenerationQueue

`Counted` ties request versions to attempts and faults, which bounds them. That a receipt
is never replaced is a fact about `link()`, but that it *stays valid* needs that the
request it answers is rewritten only for a story that is not queued. `DoneHasGeneration`
needs `Seen`: a worker that publishes has seen an item of its story, and so has whoever
left a receipt that says queued. The budget needs `Ledger`: a story's generations, the
workers that may yet submit one and a request without a worker are together no more
than the requests written, which `Counted` bounds; that a worker may look at a page and see
nothing does not enter, since the bound rests on requests and not on what is seen.
The runner's memory is tied to the record (`RunnerJob`): an attempt is counted and not yet on
record, or on record (`CountedOnce`) once it was saved or when there was nothing to
attempt; so the handler that overwrites a success does not count it twice, and is an `Undo` of
the contract. `QueueKeepsAttempts` counts exactly: `PendingMoves` says how
the number of workers that may yet submit changes when one of them moves, and `Awaited`
that a runner which has written a request, or waits, has a story and (waiting) a worker at work
for it, so an orphan's late generation is a `Work` of an attempt that has long been abandoned.

### VideoProduction

`Vouched` strengthens `ReceiptDescribesOutput` by what a worker about to link a
receipt holds (`ReporterKnows`): its video is the one it linked to the output, and links replace
nothing. `StrandedOnlyByFault` is inductive with the types, which say of the runner
whether its attempt is still to be counted or on record (`AttemptOpen`). `DeliveryInv` follows
the runner: what it holds at each label (`Holding`), what the final video and the package
were made of (`Produced`), and the done stories; a runner at its save has a delivered video
(`IsDelivered`), whether it produced it or found the story done. Clearing happens only while
the runner is idle, so the video it verified is the one the receipt still describes.
`AcceptedKeepsProgram` is linear arithmetic over the tolerances. `Implements` maps each step to
one of `VerifiedDelivery` or to a stutter (`Refines`), under those invariants: a save is a `Complete`
or a stutter (`SaveCompletes`), the handler an `Undo` or a stutter (`FailureUndoes`).

### Approval

`Holder` is mutual exclusion. `TrackerInv` relates the tracker, the list that is being
built and the states: no pair and no identifier twice (`Sound`), a list in the making
extends the tracker (`Extends`), every candidate is in that list or still in hand
(`Appending`), an approved state has all of its candidates in the tracker (`AllListed`), and
whatever waits in a file or a memory was proposed by the extractor of the source it
names (`Proposed`), which is what makes a shared state file harmless.
The refinement adds `CommandInv`: an approval works on the very offer that its file still holds, what it has
appended so far is of that offer and numbered past the tracker (`Drafting`), and what it saves differs
from the file in the mark only (`Recording`). The step that replaces the tracker is then
`Approve`, a save is `Offer` or `MarkApproved`, and everything else is a stutter.

### What stays with TLC

Liveness (`HolderReleases` and both `EventuallySettled`), which rests on
fairness and is out of the prover's reach; and the five expected violations. Every safety
property of a passing run is proved.

## 5. Not modelled

* `status` (reads only), logging, `tribe_demo.ipynb`, the backups of the store.
* Parsing of configuration, environment, URLs and paths, path containment and symlink
  checks, the field-by-field schemas of requests, receipts and candidates: a file that
  does not pass is a step that fails. What the passing ones *say* is modelled.
* ffmpeg, ffprobe and the browser: a medium is what the probe reports, and a render
  is whatever the checks then accept.
* Code without a caller under `src/src`: `apply_publication_receipt`,
  `replace_outro_visuals_preserve_audio`, the legacy receipt helpers.
* The lookup of an item on the notebook page by name, first hit (worker, line 217): what
  the page lists is NotebookLM's, and no document says that titles differ.
* Approval of something other than what was reviewed (`cli.py:165`): the review leaves no
  trace that a property could refer to; the interleaving itself is in the model.
* Exit codes of the candidate commands.
* An operator who removes the last story from the tracker, after which approval would
  hand out its number again.

## 6. Plan

1. A composition in which `GenerationQueue` and `VideoProduction` refine the adapter
   step of `Workflow`, so that one runner at a time is a result there too, and not
   a premise taken over from `MutualExclusionHolds`. `StageAttempts` is the joint: both
   `Workflow` and `GenerationQueue` now keep it, `VideoProduction` is next.
2. Publication receipts, once something calls `apply_publication_receipt`.
