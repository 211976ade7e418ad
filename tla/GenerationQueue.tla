---------------------------- MODULE GenerationQueue ----------------------------
(***************************************************************************)
(* queue-video and the HP-local generation worker.                         *)
(*                                                                         *)
(* The runner (one at a time, under the repository lock) writes a request  *)
(* file, starts a worker on it, waits for it to exit, and accepts the      *)
(* stage if the receipt file is the worker's answer to exactly this        *)
(* request.  The worker looks at the notebook page, which all stories of a *)
(* source share, submits a generation unless the page already shows one,   *)
(* waits until the page confirms it, and publishes the receipt without     *)
(* ever replacing one.  A killed runner leaves its worker behind, and a    *)
(* worker that cannot disconnect from the browser need not exit.           *)
(***************************************************************************)
EXTENDS Naturals, FiniteSets

CONSTANTS
    Stories,       \* stories of one source, in one notebook
    Workers,       \* worker processes that may be alive at the same time
    MaxRetries,    \* cfg.max_retries
    Faults,        \* kinds of fault that may strike
    MaxFaults,     \* bound on their number
    NoStory, NoWorker

FaultKinds == {"crash", "interrupt", "kill", "save", "report"}
ASSUME BudgetAssumption == MaxRetries \in 1..10 /\ MaxFaults \in Nat
ASSUME KindsAssumption == Faults \subseteq FaultKinds
ASSUME NamesAssumption == NoStory \notin Stories /\ NoWorker \notin Workers

VARIABLES
    stage,      \* story -> the persisted video_queued record
    request,    \* story -> version of the request file, 0 if there is none
    receipt,    \* story -> the receipt file
    runner,     \* the invocation of queue-video that holds the lock, with the
                \* attempts of its story that it has counted in memory
    worker,     \* worker process -> where it is, its story and request version
    page,       \* story -> its generations in the notebook, by what they show
    faults      \* number of faults so far

vars == <<stage, request, receipt, runner, worker, page, faults>>

\* Every attempt writes a request with a new timestamp, hence a new hash.
MaxVersion == MaxRetries + MaxFaults
NoReceipt == [status |-> "none", version |-> 0]
Idle == [pc |-> "idle", story |-> NoStory, worker |-> NoWorker, attempts |-> 0]
Off == [pc |-> "off", story |-> NoStory, version |-> 0]

Init ==
    /\ stage = [s \in Stories |-> [status |-> "pending", attempts |-> 0]]
    /\ request = [s \in Stories |-> 0]
    /\ receipt = [s \in Stories |-> NoReceipt]
    /\ runner = Idle
    /\ worker = [w \in Workers |-> Off]
    /\ page = [s \in Stories |-> [sent |-> 0, waiting |-> 0, generating |-> 0, ready |-> 0]]
    /\ faults = 0

Fault(kind) == kind \in Faults /\ faults < MaxFaults /\ faults' = faults + 1
WorkerAt(w, l) == worker[w].pc = l
MoveWorker(w, l) == worker' = [worker EXCEPT ![w].pc = l]
Answers(w) == [status |-> "queued", version |-> worker[w].version]

(***************************************************************************)
(* The runner: command_stage around run_stage for stage video_queued.      *)
(***************************************************************************)
MoveRunner(l) == runner' = [runner EXCEPT !.pc = l]

\* An attempt is counted in memory and its request file is written.
BeginAttempt(s) ==
    /\ request' = [request EXCEPT ![s] = @ + 1]
    /\ runner' = [pc |-> "written", story |-> s, worker |-> NoWorker,
                  attempts |-> stage[s].attempts + 1]

\* Mutant of WriteRequest: the budget is off by one.
WriteRequestLate(s) ==
    /\ runner.pc = "idle"
    /\ stage[s].status # "done" /\ stage[s].attempts <= MaxRetries
    /\ BeginAttempt(s)
    /\ UNCHANGED <<stage, receipt, worker, page, faults>>

WriteRequest(s) ==
    /\ runner.pc = "idle"
    /\ stage[s].status # "done" /\ stage[s].attempts < MaxRetries
    /\ BeginAttempt(s)
    /\ UNCHANGED <<stage, receipt, worker, page, faults>>

\* run_stage returns at once if the stage is done, and raises if its budget is spent.
Revisit(s) ==
    /\ runner.pc = "idle"
    /\ \/ stage[s].status = "done" /\ runner' = [Idle EXCEPT !.pc = "saving", !.story = s,
                                                             !.attempts = stage[s].attempts]
       \/ stage[s].status # "done" /\ stage[s].attempts >= MaxRetries
          /\ runner' = [Idle EXCEPT !.pc = "failing", !.story = s, !.attempts = stage[s].attempts]
    /\ UNCHANGED <<stage, request, receipt, worker, page, faults>>

StartWorker(w) ==
    /\ runner.pc = "written"
    /\ WorkerAt(w, "off")
    /\ worker' = [worker EXCEPT ![w] = [pc |-> "starting", story |-> runner.story, version |-> 0]]
    /\ runner' = [runner EXCEPT !.pc = "waiting", !.worker = w]
    /\ UNCHANGED <<stage, request, receipt, page, faults>>

\* ingest_generation_receipt: an answer to this very request, and no error.
Accepts(s) == receipt[s] = [status |-> "queued", version |-> request[s]]

\* The worker exited; its status and the receipt decide.
Ingest ==
    /\ runner.pc = "waiting"
    /\ worker[runner.worker].pc \in {"ok", "failed"}
    /\ runner' = [runner EXCEPT
          !.pc = IF WorkerAt(runner.worker, "ok") /\ Accepts(runner.story) THEN "saving" ELSE "failing",
          !.worker = NoWorker]
    /\ worker' = [worker EXCEPT ![runner.worker] = Off]
    /\ UNCHANGED <<stage, request, receipt, page, faults>>

\* The whole record is written, the counted attempt included.
Record(status) ==
    stage' = [stage EXCEPT ![runner.story] = [status |-> status, attempts |-> runner.attempts]]

Save ==
    /\ runner.pc = "saving"
    /\ Record("done")
    /\ MoveRunner("reporting")
    /\ UNCHANGED <<request, receipt, worker, page, faults>>

Report ==
    /\ runner.pc = "reporting"
    /\ runner' = Idle
    /\ UNCHANGED <<stage, request, receipt, worker, page, faults>>

\* A save or a report raises: the handler takes over, whatever is on record.
SaveFails ==
    /\ runner.pc = "saving" /\ Fault("save")
    /\ MoveRunner("failing")
    /\ UNCHANGED <<stage, request, receipt, worker, page>>
ReportFails ==
    /\ runner.pc = "reporting" /\ Fault("report")
    /\ MoveRunner("failing")
    /\ UNCHANGED <<stage, request, receipt, worker, page>>

\* The handler records the failure, over a success too.
RecordFailure ==
    /\ runner.pc = "failing"
    /\ Record("failed")
    /\ runner' = Idle
    /\ UNCHANGED <<request, receipt, worker, page, faults>>
RecordFailureFails ==
    /\ runner.pc = "failing" /\ Fault("save")
    /\ runner' = Idle
    /\ UNCHANGED <<stage, request, receipt, worker, page>>

(***************************************************************************)
(* The page.  matchingQueueState searches the text of the whole page.      *)
(***************************************************************************)
Shown(s) == page[s].waiting + page[s].generating + page[s].ready > 0
PageSays(word) ==
    \E t \in Stories : IF word = "queued" THEN page[t].waiting > 0 ELSE page[t].generating > 0

\* Mutant of Matches: any queue text will do.
MatchesAnything(s) == PageSays("generating") \/ PageSays("queued")
\* The story's title and token stand somewhere and a state word stands anywhere.
Matches(s) == Shown(s) /\ (PageSays("generating") \/ PageSays("queued"))

(***************************************************************************)
(* The worker: hp-notebooklm-generation-worker.mjs, main.                  *)
(***************************************************************************)

\* The request file is read and hashed once.
ReadRequest(w) ==
    /\ WorkerAt(w, "starting")
    /\ worker' = [worker EXCEPT ![w].pc = "looking", ![w].version = request[worker[w].story]]
    /\ UNCHANGED <<stage, request, receipt, runner, page, faults>>

\* findQueuedGeneration: a matching generation that is seen is not submitted again.
\* The text is read once; a read that fails, or that comes before the page has
\* rendered, shows nothing.
Look(w) ==
    /\ WorkerAt(w, "looking")
    /\ \/ Matches(worker[w].story) /\ MoveWorker(w, "publishing")
       \/ MoveWorker(w, "submitting")
    /\ UNCHANGED <<stage, request, receipt, runner, page, faults>>

\* Mutant of Submit: the control is clicked again until the page shows the generation.
SubmitAgain(w) ==
    /\ WorkerAt(w, "submitting")
    /\ page' = [page EXCEPT ![worker[w].story].sent = @ + 1]
    /\ \/ MoveWorker(w, "confirming")
       \/ ~Matches(worker[w].story) /\ UNCHANGED worker
    /\ UNCHANGED <<stage, request, receipt, runner, faults>>

\* clickGenerate.  The notebook may not take the click; what it takes shows up later.
Submit(w) ==
    /\ WorkerAt(w, "submitting")
    /\ UNCHANGED page \/ page' = [page EXCEPT ![worker[w].story].sent = @ + 1]
    /\ MoveWorker(w, "confirming")
    /\ UNCHANGED <<stage, request, receipt, runner, faults>>

\* waitForQueuedOrGenerating polls the page.
Confirm(w) ==
    /\ WorkerAt(w, "confirming")
    /\ Matches(worker[w].story)
    /\ MoveWorker(w, "publishing")
    /\ UNCHANGED <<stage, request, receipt, runner, page, faults>>

\* The browser is not reachable, a control does not show in time, or the
\* confirmation does not.
GiveUp(w) ==
    /\ worker[w].pc \in {"looking", "submitting", "confirming"}
    /\ MoveWorker(w, "erring")
    /\ UNCHANGED <<stage, request, receipt, runner, page, faults>>

\* writeAtomicJson links the receipt into place: an existing file wins.
PublishQueued(w) ==
    /\ WorkerAt(w, "publishing")
    /\ LET s == worker[w].story IN
         IF receipt[s] = NoReceipt
         THEN receipt' = [receipt EXCEPT ![s] = Answers(w)] /\ MoveWorker(w, "leaving")
         ELSE UNCHANGED receipt /\ MoveWorker(w, "erring")
    /\ UNCHANGED <<stage, request, runner, page, faults>>

\* Mutant of PublishError: the error receipt is renamed over the old one.
PublishErrorOver(w) ==
    /\ WorkerAt(w, "erring")
    /\ receipt' = [receipt EXCEPT ![worker[w].story] =
                     [status |-> "error", version |-> worker[w].version]]
    /\ MoveWorker(w, "failed")
    /\ UNCHANGED <<stage, request, runner, page, faults>>

\* The catch clause of main: an error receipt if there is none, then rc # 0.  The exit
\* code is only set: if the browser was not disconnected, its socket keeps the process.
PublishError(w) ==
    /\ WorkerAt(w, "erring")
    /\ LET s == worker[w].story IN
         receipt' = IF receipt[s] = NoReceipt
                    THEN [receipt EXCEPT ![s] = [status |-> "error", version |-> worker[w].version]]
                    ELSE receipt
    /\ MoveWorker(w, "failed") \/ MoveWorker(w, "hanging")
    /\ UNCHANGED <<stage, request, runner, page, faults>>

\* The finally clause disconnects the browser.
Leave(w) ==
    /\ WorkerAt(w, "leaving")
    /\ MoveWorker(w, "ok")
    /\ UNCHANGED <<stage, request, receipt, runner, page, faults>>

\* Disconnecting raises: the catch clause runs after a published receipt.
DisconnectFails(w) ==
    /\ WorkerAt(w, "leaving")
    /\ MoveWorker(w, "erring")
    /\ UNCHANGED <<stage, request, receipt, runner, page, faults>>

\* The browser closes the connection, if it ever does.
ConnectionCloses(w) ==
    /\ WorkerAt(w, "hanging")
    /\ MoveWorker(w, "failed")
    /\ UNCHANGED <<stage, request, receipt, runner, page, faults>>

\* A worker whose runner is gone exits with nobody to notice.
OrphanExits(w) ==
    /\ worker[w].pc \in {"ok", "failed"} /\ runner.worker # w
    /\ worker' = [worker EXCEPT ![w] = Off]
    /\ UNCHANGED <<stage, request, receipt, runner, page, faults>>

(***************************************************************************)
(* NotebookLM.                                                             *)
(***************************************************************************)
Appear(s) ==
    /\ page[s].sent > 0
    /\ page' = [page EXCEPT ![s].sent = @ - 1, ![s].waiting = @ + 1]
    /\ UNCHANGED <<stage, request, receipt, runner, worker, faults>>

\* NotebookLM loses a start it had taken.
Drop(s) ==
    /\ page[s].sent > 0
    /\ page' = [page EXCEPT ![s].sent = @ - 1]
    /\ UNCHANGED <<stage, request, receipt, runner, worker, faults>>

Generate(s) ==
    /\ page[s].waiting > 0
    /\ page' = [page EXCEPT ![s].waiting = @ - 1, ![s].generating = @ + 1]
    /\ UNCHANGED <<stage, request, receipt, runner, worker, faults>>

Complete(s) ==
    /\ page[s].generating > 0
    /\ page' = [page EXCEPT ![s].generating = @ - 1, ![s].ready = @ + 1]
    /\ UNCHANGED <<stage, request, receipt, runner, worker, faults>>

(***************************************************************************)
(* Faults.                                                                 *)
(***************************************************************************)

\* The runner is killed: the attempt is not recorded, its worker goes on.
Crash ==
    /\ runner.pc # "idle"
    /\ Fault("crash")
    /\ runner' = Idle
    /\ UNCHANGED <<stage, request, receipt, worker, page>>

\* The terminal interrupts both; nothing is recorded.
Interrupt ==
    /\ runner.pc # "idle"
    /\ Fault("interrupt")
    /\ runner' = Idle
    /\ worker' = [w \in Workers |-> IF w = runner.worker THEN Off ELSE worker[w]]
    /\ UNCHANGED <<stage, request, receipt, page>>

\* The worker alone is killed: the runner sees rc # 0.
Kill(w) ==
    /\ worker[w].pc \notin {"off", "ok", "failed"}
    /\ Fault("kill")
    /\ MoveWorker(w, "failed")
    /\ UNCHANGED <<stage, request, receipt, runner, page>>

RunnerStep == (\E w \in Workers : StartWorker(w)) \/ Ingest \/ Save \/ Report \/ RecordFailure
RunnerFails == SaveFails \/ ReportFails \/ RecordFailureFails \/ Crash \/ Interrupt
WorkerStep(w) ==
    \/ ReadRequest(w) \/ Look(w) \/ Submit(w) \/ Confirm(w) \/ GiveUp(w) \/ PublishQueued(w)
    \/ PublishError(w) \/ Leave(w) \/ DisconnectFails(w) \/ OrphanExits(w)
Notebook(s) == Appear(s) \/ Drop(s) \/ Generate(s) \/ Complete(s)

Next ==
    \/ \E s \in Stories : WriteRequest(s) \/ Revisit(s) \/ Notebook(s)
    \/ RunnerStep \/ RunnerFails
    \/ \E w \in Workers : WorkerStep(w) \/ ConnectionCloses(w) \/ Kill(w)

Spec == Init /\ [][Next]_vars

(***************************************************************************)
(* Properties.                                                             *)
(***************************************************************************)
WorkerPC == {"off", "starting", "looking", "submitting", "confirming", "publishing",
             "leaving", "erring", "hanging", "ok", "failed"}

\* Every variable has its type; no attempt is recorded beyond the budget.
TypeOK ==
    /\ stage \in [Stories -> [status : {"pending", "failed", "done"}, attempts : 0..MaxRetries]]
    /\ request \in [Stories -> 0..MaxVersion]
    /\ receipt \in [Stories -> [status : {"none", "queued", "error"}, version : 0..MaxVersion]]
    /\ runner \in [pc : {"idle", "written", "waiting", "saving", "reporting", "failing"},
                   story : Stories \cup {NoStory}, worker : Workers \cup {NoWorker},
                   attempts : 0..MaxRetries]
    /\ worker \in [Workers -> [pc : WorkerPC, story : Stories \cup {NoStory},
                               version : 0..MaxVersion]]
    /\ page \in [Stories -> [sent : Nat, waiting : Nat, generating : Nat, ready : Nat]]
    /\ faults \in 0..MaxFaults

\* A stage recorded as queued has a generation of its own in the notebook,
\* whatever the other stories of the notebook show (matchingQueueState).
DoneHasGeneration == \A s \in Stories : stage[s].status = "done" => Shown(s)

\* The receipt that authorised a queued stage stays the answer to the request
\* file on disk, so produce-video's recheck will pass (ingest_generation_receipt;
\* orphaned workers may still be writing).
ReceiptStaysValid ==
    \A s \in Stories : stage[s].status = "done" =>
        receipt[s].status = "queued" /\ receipt[s].version = request[s]

\* A receipt is never replaced (writeAtomicJson links instead of renaming).
ReceiptNeverReplaced ==
    [][\A s \in Stories : receipt[s] # NoReceipt => receipt'[s] = receipt[s]]_vars

Generations(s) == page[s].sent + page[s].waiting + page[s].generating + page[s].ready

\* A story costs at most one generation per attempt, and one more per fault
\* that lost the count of an attempt.
GenerationsWithinBudget == \A s \in Stories : Generations(s) <= MaxRetries + faults

\* README "writes an atomic receipt only after NotebookLM visibly reports the
\* request as queued or generating": the request itself is queued or generating.
ConfirmationIsOwn ==
    [][\A w \in Workers :
         /\ WorkerAt(w, "looking") /\ worker'[w].pc = "publishing"
         /\ receipt[worker[w].story] = NoReceipt
         => page[worker[w].story].waiting + page[worker[w].story].generating > 0]_vars

\* README "Bounded retries": an attempt that NotebookLM has confirmed succeeds.
ConfirmedAttemptSucceeds ==
    [][\A w \in Workers : WorkerAt(w, "publishing") => worker'[w].pc # "erring"]_vars
(***************************************************************************)
(* What an attempt may cost.                                               *)
(***************************************************************************)

\* Workers of the story that may still press the button, and an attempt whose
\* worker has not been started.
Pending(s) ==
    {w \in Workers : worker[w].story = s /\ worker[w].pc \in {"starting", "looking", "submitting"}}
Unstarted(s) == IF runner.pc = "written" /\ runner.story = s THEN 1 ELSE 0
Credit(s) == Cardinality(Pending(s)) + Unstarted(s)

\* The attempt that the runner has counted and the state file has not.
Uncounted ==
    {s \in Stories : runner.pc # "idle" /\ runner.story = s /\ runner.attempts # stage[s].attempts}

\* Queueing a generation keeps to the contract of StageAttempts: one attempt at a
\* time, which starts at most one generation, at once or after it was given up, and
\* is recorded as done only if there is one; only the failure of a save or of a report
\* is recorded over a success (command_stage, run_stage, orphaned workers, NotebookLM).
Attempts == INSTANCE StageAttempts WITH
    Items <- Stories,
    NeedsWork <- Stories,
    Budget <- MaxRetries,
    LateFailures <- "save" \in Faults \/ "report" \in Faults,
    done <- {s \in Stories : stage[s].status = "done"},
    spent <- [s \in Stories |-> stage[s].attempts],
    active <- Uncounted,
    credit <- [s \in Stories |-> Credit(s)],
    work <- [s \in Stories |-> Generations(s)],
    lost <- faults
KeepsAttempts == Attempts!Spec
================================================================================
