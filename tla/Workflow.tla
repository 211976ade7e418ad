------------------------------- MODULE Workflow -------------------------------
(***************************************************************************)
(* The story workflow of the command line program: the stage commands      *)
(* (queue-video, produce-video, the publishers) and resume, any number of  *)
(* invocations overlapping over one repository-wide lock file and one      *)
(* state file per story.                                                   *)
(*                                                                         *)
(* An invocation validates, takes the lock, loads the story's state file,  *)
(* runs one stage on its in-memory copy, saves the copy and reports.  Any  *)
(* step may be cut short: the process is killed (the lock file stays), it  *)
(* is interrupted (Python unwinds: the lock file goes, nothing is saved),  *)
(* or a save or the report raises.                                         *)
(***************************************************************************)
EXTENDS Naturals, Sequences

CONSTANTS
    Proc,          \* invocations that may be alive at the same time
    Stories,       \* story identifiers (one state file each)
    Tracker,       \* the stories tracker: a sequence of stories
    Platforms,     \* the publication stages, in order
    MaxRetries,    \* cfg.max_retries
    Configured,    \* stages whose adapter commands and assets are configured
    WithMetadata,  \* stories that carry the NotebookLM fields
    Requests,      \* command lines that are issued
    Faults,        \* kinds of fault that may strike
    MaxFaults,     \* bound on the number of faults in a behaviour
    NoStory,       \* no --story-id was given
    Free,          \* the lock file does not exist
    Stale          \* the lock file exists and its process is gone

PublicationStages == {Platforms[i] : i \in DOMAIN Platforms}
NotebookStages == {"video_queued", "video_produced"}
STAGES == <<"extracted", "video_queued", "video_produced">> \o Platforms
Stages == {"extracted"} \cup NotebookStages \cup PublicationStages
Commands == (Stages \ {"extracted"}) \cup {"resume"}
AllRequests == [cmd : Commands, story : Stories \cup {NoStory}, dry : BOOLEAN]
FaultKinds == {"crash", "interrupt", "save", "report", "load", "lockwrite"}

ASSUME PlatformsAssumption ==
    /\ Platforms \in Seq(STRING)
    /\ PublicationStages \cap
         ({"extracted", "resume", "none"} \cup NotebookStages) = {}
ASSUME StoriesAssumption ==
    /\ Tracker \in Seq(Stories)
    /\ NoStory \notin Stories
    /\ WithMetadata \subseteq Stories
ASSUME BudgetAssumption == MaxRetries \in 1..10 /\ MaxFaults \in Nat
ASSUME ConfigurationAssumption ==
    /\ Configured \subseteq Stages
    /\ Requests \subseteq AllRequests
    /\ Faults \subseteq FaultKinds
ASSUME LockAssumption == Free \notin Proc /\ Stale \notin Proc /\ Free # Stale

VARIABLES
    lock,       \* the lock file: Free, Stale, or the process that created it
    disk,       \* story -> the StoryState in its state file
    package,    \* story -> its content package directory
    pc,         \* process -> where the invocation is
    job,        \* process -> command line, then the story and stage it chose
    mem,        \* process -> the StoryState it loaded
    code,       \* process -> exit code it is about to return
    calls,      \* history: story -> stage -> times an adapter was started
    succeeded,  \* history: story -> stage -> adapter runs that did their work,
                \* whatever became of the attempt
    faults      \* number of faults so far

vars == <<lock, disk, package, pc, job, mem, code, calls, succeeded, faults>>

(***************************************************************************)
(* State files.  A missing file reads as the fresh state: load_or_create   *)
(* builds that state, and no save ever writes it.                          *)
(***************************************************************************)
Statuses == {"pending", "running", "failed", "dry_run", "done"}
Artifacts == {"generation_receipt_path", "wispr_final_script", "package_dir"}
StageRecord == [status : Statuses, attempts : 0..MaxRetries]
StoryState == [stages : [Stages -> StageRecord], artifacts : SUBSET Artifacts]
PendingRecord == [status |-> "pending", attempts |-> 0]
FreshState == [stages |-> [st \in Stages |-> PendingRecord], artifacts |-> {}]

SetStatus(m, st, status) == [m EXCEPT !.stages[st].status = status]

\* Mutant of MarkDone: the artifact is not registered.
MarkDoneWithoutArtifacts(m, st, artifacts) == SetStatus(m, st, "done")

\* mark_done: the record is done and the stage's artifacts are registered.
MarkDone(m, st, artifacts) ==
    [m EXCEPT !.stages[st].status = "done", !.artifacts = @ \cup artifacts]

\* Mutant of BeginAttempt: a dry run is counted as well.
BeginAttemptCountsDry(m, st, dry) ==
    [m EXCEPT !.stages[st] = [status |-> "running", attempts |-> @.attempts + 1]]

\* run_stage's entry: a real run spends an attempt; both kinds are "running".
BeginAttempt(m, st, dry) ==
    [m EXCEPT !.stages[st] =
        [status |-> "running", attempts |-> IF dry THEN @.attempts ELSE @.attempts + 1]]

\* Mutant of SatisfiesPrerequisite: any stage that was tried counts.
SatisfiesOnceTried(m, st, dry) == m.stages[st].status # "pending"

SatisfiesPrerequisite(m, st, dry) ==
    m.stages[st].status \in {"done"} \cup (IF dry THEN {"dry_run"} ELSE {})

\* The position in STAGES of the first stage resume still has to run.
IsNextStage(m, dry, i) ==
    /\ i \in DOMAIN STAGES
    /\ ~SatisfiesPrerequisite(m, STAGES[i], dry)
    /\ \A j \in 1..(i - 1) : SatisfiesPrerequisite(m, STAGES[j], dry)

Finished(s) == \A st \in Stages : disk[s].stages[st].status = "done"

\* select_next_story: the first tracker story that is not finished.
IsNextStory(s) ==
    \E i \in DOMAIN Tracker :
        /\ s = Tracker[i]
        /\ ~Finished(s)
        /\ \A j \in 1..(i - 1) : Finished(Tracker[j])

InTracker(s) == \E i \in DOMAIN Tracker : s = Tracker[i]

\* load_or_create finds a story: the one asked for, or the next one.
Loads(req, s) ==
    \/ s = req.story /\ (InTracker(s) \/ disk[s] # FreshState)
    \/ req.story = NoStory /\ IsNextStory(s)

\* Mutant of ConfigRejects: only queue-video checks its worker.
ConfigRejectsQueueOnly(st, dry) == ~dry /\ st \in {"video_queued"} \ Configured

\* Config.validate of the adapters a command needs before it may start.
ConfigRejects(st, dry) == ~dry /\ st \in NotebookStages \ Configured

(***************************************************************************)
(* What _execute_stage checks before it starts an adapter.                 *)
(***************************************************************************)
\* Mutant of Ready: a publication trusts the registered path of the package.
ReadyWithoutValidation(m, s, st, dry) ==
    CASE st = "extracted" -> TRUE
      [] st = "video_queued" -> s \in WithMetadata
      [] st = "video_produced" -> SatisfiesPrerequisite(m, "video_queued", dry)
      [] OTHER -> dry \/ "package_dir" \in m.artifacts

Ready(m, s, st, dry) ==
    CASE st = "extracted" -> TRUE
      [] st = "video_queued" -> s \in WithMetadata
      [] st = "video_produced" ->
            /\ SatisfiesPrerequisite(m, "video_queued", dry)
            /\ s \in WithMetadata
            /\ dry \/ "generation_receipt_path" \in m.artifacts
      [] OTHER ->
            dry \/ /\ m.stages["video_produced"].status = "done"
                   /\ "package_dir" \in m.artifacts
                   /\ package[s] = "valid"

NoJob == [cmd |-> "none", story |-> NoStory, dry |-> FALSE, stage |-> "none"]

Init ==
    /\ lock = Free
    /\ disk = [s \in Stories |-> FreshState]
    /\ package = [s \in Stories |-> "absent"]
    /\ pc = [p \in Proc |-> "idle"]
    /\ job = [p \in Proc |-> NoJob]
    /\ mem = [p \in Proc |-> FreshState]
    /\ code = [p \in Proc |-> "none"]
    /\ calls = [s \in Stories |-> [st \in Stages |-> 0]]
    /\ succeeded = [s \in Stories |-> [st \in Stages |-> 0]]
    /\ faults = 0

At(p, l) == pc[p] = l
Goto(p, l) == pc' = [pc EXCEPT ![p] = l]
Story(p) == job[p].story
Stage(p) == job[p].stage
Dry(p) == job[p].dry
Remember(p, m) == mem' = [mem EXCEPT ![p] = m]
ExitCode(p, c) == code' = [code EXCEPT ![p] = c]
Fault(kind) == kind \in Faults /\ faults < MaxFaults /\ faults' = faults + 1

\* The process is gone: nothing of its memory is left.
Gone(p) ==
    /\ Goto(p, "idle")
    /\ job' = [job EXCEPT ![p] = NoJob]
    /\ mem' = [mem EXCEPT ![p] = FreshState]
    /\ code' = [code EXCEPT ![p] = "none"]

(***************************************************************************)
(* Starting, validating and locking.                                       *)
(***************************************************************************)

\* main: an invocation starts with one of the command lines.
Start(p) ==
    /\ At(p, "idle")
    /\ Goto(p, "starting")
    /\ \E r \in Requests :
         job' = [job EXCEPT ![p] =
            [cmd |-> r.cmd, story |-> r.story, dry |-> r.dry,
             stage |-> IF r.cmd = "resume" THEN "none" ELSE r.cmd]]
    /\ UNCHANGED <<lock, disk, package, mem, code, calls, succeeded, faults>>

\* command_stage validates before it touches the lock; exits with CONFIG.
CommandConfigError(p) ==
    /\ At(p, "starting") /\ job[p].cmd # "resume"
    /\ ConfigRejects(Stage(p), Dry(p))
    /\ Gone(p)
    /\ UNCHANGED <<lock, disk, package, calls, succeeded, faults>>

MayLock(p) ==
    At(p, "starting") /\ (job[p].cmd = "resume" \/ ~ConfigRejects(Stage(p), Dry(p)))

\* Mutant of AcquireLock: the file is opened without O_EXCL.
AcquireLockWithoutExcl(p) ==
    /\ MayLock(p)
    /\ lock' = p
    /\ Goto(p, "entered")
    /\ UNCHANGED <<disk, package, job, mem, code, calls, succeeded, faults>>

\* FileLock.__enter__: O_CREAT | O_EXCL creates the lock file.
AcquireLock(p) ==
    /\ MayLock(p) /\ lock = Free
    /\ lock' = p
    /\ Goto(p, "entered")
    /\ UNCHANGED <<disk, package, job, mem, code, calls, succeeded, faults>>

\* Mutant of LockedOut: the file is unlinked by the one that was refused.
LockedOutUnlinks(p) ==
    /\ MayLock(p) /\ lock # Free
    /\ lock' = Free
    /\ Gone(p)
    /\ UNCHANGED <<disk, package, calls, succeeded, faults>>

\* The lock file exists, whoever made it: LockError, exit code LOCKED.
LockedOut(p) ==
    /\ MayLock(p) /\ lock # Free
    /\ Gone(p)
    /\ UNCHANGED <<lock, disk, package, calls, succeeded, faults>>

\* Writing the pid raises after the file was created: __exit__ never runs.
LockWriteFails(p) ==
    /\ MayLock(p) /\ lock = Free
    /\ Fault("lockwrite")
    /\ lock' = Stale
    /\ Gone(p)
    /\ UNCHANGED <<disk, package, calls, succeeded>>

(***************************************************************************)
(* Loading the story and choosing the stage.                               *)
(***************************************************************************)

\* load_or_create: the state file is read into memory.
Load(p) ==
    /\ At(p, "entered")
    /\ \E s \in Stories :
         /\ Loads(job[p], s)
         /\ job' = [job EXCEPT ![p].story = s]
         /\ Remember(p, disk[s])
    /\ Goto(p, IF job[p].cmd = "resume" THEN "choosing" ELSE "running")
    /\ UNCHANGED <<lock, disk, package, code, calls, succeeded, faults>>

\* No such story, no pending story, or the tracker entry is refused.
LoadFails(p) ==
    /\ At(p, "entered")
    /\ "load" \in Faults \/ \A s \in Stories : ~Loads(job[p], s)
    /\ ExitCode(p, "SUBPROCESS")
    /\ Goto(p, "closing")
    /\ UNCHANGED <<lock, disk, package, job, mem, calls, succeeded, faults>>

\* A dry-run resume stops before the first publication stage.
AtPublicationBoundary(p, i) == Dry(p) /\ STAGES[i] \in PublicationStages

\* resume takes the first stage that is not satisfied.
ResumeStage(p) ==
    /\ At(p, "choosing")
    /\ \E i \in DOMAIN STAGES :
         /\ IsNextStage(mem[p], Dry(p), i)
         /\ ~AtPublicationBoundary(p, i)
         /\ ~ConfigRejects(STAGES[i], Dry(p))
         /\ job' = [job EXCEPT ![p].stage = STAGES[i]]
    /\ Goto(p, "running")
    /\ UNCHANGED <<lock, disk, package, mem, code, calls, succeeded, faults>>

\* resume validates inside the lock; exits with CONFIG.
ResumeConfigError(p) ==
    /\ At(p, "choosing")
    /\ \E i \in DOMAIN STAGES :
         /\ IsNextStage(mem[p], Dry(p), i)
         /\ ~AtPublicationBoundary(p, i)
         /\ ConfigRejects(STAGES[i], Dry(p))
    /\ ExitCode(p, "CONFIG")
    /\ Goto(p, "closing")
    /\ UNCHANGED <<lock, disk, package, job, mem, calls, succeeded, faults>>

ResumeBoundary(p) ==
    /\ At(p, "choosing")
    /\ \E i \in DOMAIN STAGES :
         IsNextStage(mem[p], Dry(p), i) /\ AtPublicationBoundary(p, i)
    /\ Goto(p, "boundary")
    /\ UNCHANGED <<lock, disk, package, job, mem, code, calls, succeeded, faults>>

\* Every stage is satisfied: resume reports completion and saves nothing.
ResumeComplete(p) ==
    /\ At(p, "choosing")
    /\ \A i \in DOMAIN STAGES : SatisfiesPrerequisite(mem[p], STAGES[i], Dry(p))
    /\ Goto(p, "reporting")
    /\ UNCHANGED <<lock, disk, package, job, mem, code, calls, succeeded, faults>>

(***************************************************************************)
(* run_stage and _execute_stage.                                           *)
(***************************************************************************)

\* Mutant of Raise: the handler forgets to record the failure.
RaiseUnrecorded(p, m, c) == Remember(p, m) /\ ExitCode(p, c) /\ Goto(p, "failing")

\* Mutant of Raise: an attempt that failed is given back.
RaiseRefunded(p, m, c) ==
    /\ Remember(p, [m EXCEPT !.stages[Stage(p)] =
                       [status |-> "failed", attempts |-> @.attempts - 1]])
    /\ ExitCode(p, c)
    /\ Goto(p, "failing")

\* An exception leaves the record failed; the handler will save it.
Raise(p, m, c) ==
    /\ Remember(p, SetStatus(m, Stage(p), "failed"))
    /\ ExitCode(p, c)
    /\ Goto(p, "failing")

\* Mutant of IsDone: run_stage does not look at the status.
IsDoneIgnored(p) == FALSE
IsDone(p) == mem[p].stages[Stage(p)].status = "done"
\* Mutant of Exhausted: off by one.
ExhaustedLate(p) == ~Dry(p) /\ mem[p].stages[Stage(p)].attempts > MaxRetries
Exhausted(p) == ~Dry(p) /\ mem[p].stages[Stage(p)].attempts >= MaxRetries
MayAttempt(p) == At(p, "running") /\ ~IsDone(p) /\ ~Exhausted(p)
Attempted(p) == BeginAttempt(mem[p], Stage(p), Dry(p))

SkipDone(p) ==
    /\ At(p, "running") /\ IsDone(p)
    /\ Goto(p, "saving")
    /\ UNCHANGED <<lock, disk, package, job, mem, code, calls, succeeded, faults>>

BudgetExhausted(p) ==
    /\ At(p, "running") /\ ~IsDone(p) /\ Exhausted(p)
    /\ Raise(p, mem[p], "SUBPROCESS")
    /\ UNCHANGED <<lock, disk, package, job, calls, succeeded, faults>>

\* A dry run only plans; a real "extracted" has no adapter and is done at once.
RunWithoutAdapter(p) ==
    /\ MayAttempt(p) /\ (Dry(p) \/ Stage(p) = "extracted")
    /\ Ready(mem[p], Story(p), Stage(p), Dry(p))
    /\ Remember(p, SetStatus(Attempted(p), Stage(p), IF Dry(p) THEN "dry_run" ELSE "done"))
    /\ Goto(p, "saving")
    /\ UNCHANGED <<lock, disk, package, job, code, calls, succeeded, faults>>

\* A check fails, or a real notebook stage cannot write its request or no
\* longer trusts the generation receipt.
StageRefused(p) ==
    /\ MayAttempt(p)
    /\ \/ ~Ready(mem[p], Story(p), Stage(p), Dry(p))
       \/ ~Dry(p) /\ Stage(p) \in NotebookStages
    /\ Raise(p, Attempted(p), "SUBPROCESS")
    /\ UNCHANGED <<lock, disk, package, job, calls, succeeded, faults>>

\* CommandAdapter.run without a command; the attempt is spent all the same.
AdapterNotConfigured(p) ==
    /\ MayAttempt(p) /\ ~Dry(p)
    /\ Stage(p) \in PublicationStages \ Configured
    /\ Ready(mem[p], Story(p), Stage(p), FALSE)
    /\ Raise(p, Attempted(p), "ADAPTER_NOT_CONFIGURED")
    /\ UNCHANGED <<lock, disk, package, job, calls, succeeded, faults>>

CallAdapter(p) ==
    /\ MayAttempt(p) /\ ~Dry(p)
    /\ Stage(p) \in Configured \ {"extracted"}
    /\ Ready(mem[p], Story(p), Stage(p), FALSE)
    /\ Remember(p, Attempted(p))
    /\ calls' = [calls EXCEPT ![Story(p)][Stage(p)] = @ + 1]
    /\ Goto(p, "calling")
    /\ UNCHANGED <<lock, disk, package, job, code, succeeded, faults>>

\* The adapter of the stage has done so many pieces of its work.
DoWork(p, n) == succeeded' = [succeeded EXCEPT ![Story(p)][Stage(p)] = @ + n]

\* A nonzero exit status, a receipt that does not match, a failed handoff, or a
\* Wispr script that is not there yet.  The adapter may have done its work by then.
AdapterFails(p) ==
    /\ At(p, "calling")
    /\ Raise(p, mem[p], "SUBPROCESS")
    /\ \E n \in {0, 1} : DoWork(p, n)
    /\ UNCHANGED <<lock, disk, package, job, calls, faults>>

Succeed(p, artifacts) ==
    /\ Remember(p, MarkDone(mem[p], Stage(p), artifacts))
    /\ Goto(p, "saving")

AdapterReturns(p) ==
    /\ At(p, "calling") /\ Stage(p) # "video_produced"
    /\ Succeed(p, IF Stage(p) = "video_queued" THEN {"generation_receipt_path"} ELSE {})
    /\ DoWork(p, 1)
    /\ UNCHANGED <<lock, disk, package, job, code, calls, faults>>

\* The download is handed off; create_content_package starts to overwrite the
\* directory in place.
BeginPackage(p) ==
    /\ At(p, "calling") /\ Stage(p) = "video_produced"
    /\ "wispr_final_script" \in mem[p].artifacts
    /\ package' = [package EXCEPT ![Story(p)] = "partial"]
    /\ DoWork(p, 1)
    /\ Goto(p, "packaging")
    /\ UNCHANGED <<lock, disk, job, mem, code, calls, faults>>

PackageFails(p) ==
    /\ At(p, "packaging")
    /\ Raise(p, mem[p], "SUBPROCESS")
    /\ UNCHANGED <<lock, disk, package, job, calls, succeeded, faults>>

FinishPackage(p) ==
    /\ At(p, "packaging")
    /\ package' = [package EXCEPT ![Story(p)] = "valid"]
    /\ Succeed(p, {"package_dir"})
    /\ UNCHANGED <<lock, disk, job, code, calls, succeeded, faults>>

\* The package is complete and registered, then the audio hash disagrees.
AudioMismatch(p) ==
    /\ At(p, "packaging")
    /\ package' = [package EXCEPT ![Story(p)] = "valid"]
    /\ Raise(p, [mem[p] EXCEPT !.artifacts = @ \cup {"package_dir"}], "SUBPROCESS")
    /\ UNCHANGED <<lock, disk, job, calls, succeeded, faults>>

(***************************************************************************)
(* Saving, reporting and unlocking.                                        *)
(***************************************************************************)
WriteState(p) == disk' = [disk EXCEPT ![Story(p)] = mem[p]]

Save(p) ==
    /\ pc[p] \in {"saving", "boundary"}
    /\ WriteState(p)
    /\ Goto(p, "reporting")
    /\ UNCHANGED <<lock, package, job, mem, code, calls, succeeded, faults>>

\* The handler overwrites whatever the stage had become, done included.
SaveFails(p) ==
    /\ At(p, "saving")
    /\ Fault("save")
    /\ Raise(p, mem[p], "SUBPROCESS")
    /\ UNCHANGED <<lock, disk, package, job, calls, succeeded>>

\* The save at the publication boundary is outside the inner handler.
BoundarySaveFails(p) ==
    /\ At(p, "boundary")
    /\ Fault("save")
    /\ ExitCode(p, "SUBPROCESS")
    /\ Goto(p, "closing")
    /\ UNCHANGED <<lock, disk, package, job, mem, calls, succeeded>>

Report(p) ==
    /\ At(p, "reporting")
    /\ ExitCode(p, "OK")
    /\ Goto(p, "closing")
    /\ UNCHANGED <<lock, disk, package, job, mem, calls, succeeded, faults>>

\* command_stage prints inside the handler's try, resume outside it.
ReportFails(p) ==
    /\ At(p, "reporting")
    /\ Fault("report")
    /\ IF job[p].cmd = "resume"
       THEN ExitCode(p, "SUBPROCESS") /\ Goto(p, "closing") /\ UNCHANGED mem
       ELSE Raise(p, mem[p], "SUBPROCESS")
    /\ UNCHANGED <<lock, disk, package, job, calls, succeeded>>

SaveFailure(p) ==
    /\ At(p, "failing")
    /\ WriteState(p)
    /\ Goto(p, "closing")
    /\ UNCHANGED <<lock, package, job, mem, code, calls, succeeded, faults>>

\* The second exception replaces the first one.
SaveFailureFails(p) ==
    /\ At(p, "failing")
    /\ Fault("save")
    /\ ExitCode(p, "SUBPROCESS")
    /\ Goto(p, "closing")
    /\ UNCHANGED <<lock, disk, package, job, mem, calls, succeeded>>

\* Mutant of Release: the lock file is closed and not unlinked.
ReleaseKeepsFile(p) ==
    /\ At(p, "closing")
    /\ Gone(p)
    /\ UNCHANGED <<lock, disk, package, calls, succeeded, faults>>

\* FileLock.__exit__ unlinks the lock file; the process returns its code.
Release(p) ==
    /\ At(p, "closing")
    /\ lock' = Free
    /\ Gone(p)
    /\ UNCHANGED <<disk, package, calls, succeeded, faults>>

(***************************************************************************)
(* Faults of the process and steps of the environment.                     *)
(***************************************************************************)
InLock == {"entered", "choosing", "running", "calling", "packaging",
           "saving", "boundary", "reporting", "failing", "closing"}

\* The adapter that was running may still finish its work.
OrphanMayFinish(p) ==
    IF At(p, "calling")
    THEN \E n \in {0, 1} : DoWork(p, n)
    ELSE UNCHANGED succeeded

\* Killed: nothing is saved and nobody unlinks the lock file.
Crash(p) ==
    /\ pc[p] \in InLock
    /\ Fault("crash")
    /\ lock' = Stale
    /\ OrphanMayFinish(p)
    /\ Gone(p)
    /\ UNCHANGED <<disk, package, calls>>

\* KeyboardInterrupt is no Exception: no handler saves, only __exit__ runs.
Interrupt(p) ==
    /\ pc[p] \in InLock
    /\ Fault("interrupt")
    /\ lock' = Free
    /\ OrphanMayFinish(p)
    /\ Gone(p)
    /\ UNCHANGED <<disk, package, calls>>

\* The operator deletes a lock file whose process is gone.
RemoveStaleLock ==
    /\ lock = Stale
    /\ lock' = Free
    /\ UNCHANGED <<disk, package, pc, job, mem, code, calls, succeeded, faults>>

\* The Wispr integration stores the final script in an existing state file.  It
\* takes no lock: the save of a copy loaded before drops the script again.
WriteScript(s) ==
    /\ disk[s] # FreshState
    /\ disk' = [disk EXCEPT ![s].artifacts = @ \cup {"wispr_final_script"}]
    /\ UNCHANGED <<lock, package, pc, job, mem, code, calls, succeeded, faults>>

Enter(p) == CommandConfigError(p) \/ AcquireLock(p) \/ LockedOut(p)
Choose(p) ==
    \/ Load(p) \/ LoadFails(p) \/ ResumeStage(p) \/ ResumeConfigError(p)
    \/ ResumeBoundary(p) \/ ResumeComplete(p)
RunStage(p) ==
    \/ SkipDone(p) \/ BudgetExhausted(p) \/ RunWithoutAdapter(p) \/ StageRefused(p)
    \/ AdapterNotConfigured(p) \/ CallAdapter(p) \/ AdapterFails(p) \/ AdapterReturns(p)
    \/ BeginPackage(p) \/ PackageFails(p) \/ FinishPackage(p) \/ AudioMismatch(p)
Finish(p) == Save(p) \/ Report(p) \/ SaveFailure(p) \/ Release(p)
Fail(p) ==
    \/ LockWriteFails(p) \/ SaveFails(p) \/ BoundarySaveFails(p) \/ ReportFails(p)
    \/ SaveFailureFails(p) \/ Crash(p) \/ Interrupt(p)

\* The steps an invocation takes by itself once it has started.
Step(p) == Enter(p) \/ Choose(p) \/ RunStage(p) \/ Finish(p)

Next ==
    \/ \E p \in Proc : Start(p) \/ Step(p) \/ Fail(p)
    \/ RemoveStaleLock
    \/ \E s \in Stories : WriteScript(s)

Spec == Init /\ [][Next]_vars

\* A scheduler that keeps issuing command lines, adapters that return, and
\* an operator who clears stale locks.
Fairness ==
    /\ \A p \in Proc : WF_vars(Start(p)) /\ WF_vars(Step(p))
    /\ WF_vars(RemoveStaleLock)

FairSpec == Spec /\ Fairness
(***************************************************************************)
(* Properties.                                                             *)
(***************************************************************************)
JobType ==
    [cmd : Commands \cup {"none"}, story : Stories \cup {NoStory},
     dry : BOOLEAN, stage : Stages \cup {"none"}]

\* Every variable has its type; a persisted record never counts more attempts
\* than the budget (state.py: StageRecord, StoryState).
TypeOK ==
    /\ lock \in Proc \cup {Free, Stale}
    /\ disk \in [Stories -> StoryState]
    /\ package \in [Stories -> {"absent", "partial", "valid"}]
    /\ pc \in [Proc -> InLock \cup {"idle", "starting"}]
    /\ job \in [Proc -> JobType]
    /\ mem \in [Proc -> StoryState]
    /\ code \in [Proc -> {"none", "OK", "CONFIG", "ADAPTER_NOT_CONFIGURED", "SUBPROCESS"}]
    /\ calls \in [Stories -> [Stages -> Nat]]
    /\ succeeded \in [Stories -> [Stages -> Nat]]
    /\ faults \in 0..MaxFaults

InCriticalSection(p) == pc[p] \in InLock

\* The lock file belongs to exactly the invocation that is between acquiring
\* and releasing it (lock.py, README "prevents overlapping invocations"):
\* nobody is inside without it, and no live process leaves it behind.
MutualExclusion == \A p \in Proc : InCriticalSection(p) <=> lock = p

\* From the load to the last save.
HasCopy(p) == InCriticalSection(p) /\ ~At(p, "entered") /\ ~At(p, "closing")

\* The artifacts that stages register, as opposed to the script that Wispr stores.
Evidence == Artifacts \ {"wispr_final_script"}

\* While an invocation works on its copy of a story, the state file has nothing that
\* the copy lacks but what the invocation's own stage became and a script stored
\* meanwhile, so the save that follows drops no other invocation's progress and no
\* evidence (cli.py: load, run_stage, save of the whole copy).
CopyIsCurrent ==
    \A p \in Proc : HasCopy(p) =>
        /\ \A st \in Stages \ {Stage(p)} :
              mem[p].stages[st] = disk[Story(p)].stages[st]
        /\ disk[Story(p)].artifacts \cap Evidence \subseteq mem[p].artifacts

\* A stage recorded as done had an adapter run that did the work, and carries
\* the artifact the next stage relies on (runner.py: _execute_stage, mark_done).
DoneIsBacked ==
    \A s \in Stories, st \in Stages \ {"extracted"} :
        disk[s].stages[st].status = "done" =>
            /\ succeeded[s][st] >= 1
            /\ st = "video_queued" => "generation_receipt_path" \in disk[s].artifacts
            /\ st = "video_produced" =>
                  "package_dir" \in disk[s].artifacts /\ package[s] = "valid"

\* While a publisher runs, the production it publishes is recorded as done and
\* nobody is rewriting its package (runner.py: _validate_publication_package
\* checks before the adapter starts; packages.py overwrites in place).
PublishesFinishedPackage ==
    \A p \in Proc : At(p, "calling") /\ Stage(p) \in PublicationStages =>
        /\ package[Story(p)] = "valid"
        /\ disk[Story(p)].stages["video_produced"].status = "done"

\* Adapters are started at most max_retries times per stage, and once more for
\* every fault that lost the count (runner.py: attempts are saved only with the
\* outcome of the stage).
CallsWithinBudget ==
    \A s \in Stories, st \in Stages : calls[s][st] <= MaxRetries + faults


\* A stage downstream is done only on top of done stages upstream, in the state
\* file itself (runner.py: the prerequisite checks of produce and publish).
PipelineOrder ==
    \A s \in Stories :
        /\ disk[s].stages["video_produced"].status = "done" =>
              disk[s].stages["video_queued"].status = "done"
        /\ \A st \in PublicationStages :
              disk[s].stages[st].status = "done" =>
                  disk[s].stages["video_produced"].status = "done"

\* What an invocation is about to return agrees with the state file it leaves:
\* OK only if its stage is recorded, a stage failure only if it is recorded as
\* failed, unless a fault struck (cli.py: command_stage, resume).
ExitCodeTellsRecord ==
    \A p \in Proc : At(p, "closing") /\ mem[p] # FreshState /\ Stage(p) # "none" =>
        LET rec == disk[Story(p)].stages[Stage(p)] IN
        /\ code[p] = "OK" => rec.status = (IF Dry(p) /\ rec.status # "done" THEN "dry_run" ELSE "done")
        /\ code[p] \in {"SUBPROCESS", "ADAPTER_NOT_CONFIGURED"} /\ faults = 0 =>
              rec.status = "failed"

\* A notebook stage whose worker is not configured never spends an attempt:
\* both entry points validate the configuration before they run the stage
\* (cli.py: command_stage before the lock, resume inside it).
NoBudgetWithoutWorker ==
    \A s \in Stories, st \in NotebookStages \ Configured :
        disk[s].stages[st].attempts = 0

\* A state file only moves on: no attempt is taken back, no evidence is lost (a
\* script that Wispr stores during a run is), and one write touches one stage
\* (state.py: save of a copy loaded earlier).
RecordsOnlyGrow ==
    [][\A s \in Stories :
         /\ \A st \in Stages : disk'[s].stages[st].attempts >= disk[s].stages[st].attempts
         /\ disk[s].artifacts \cap Evidence \subseteq disk'[s].artifacts
         /\ \A a, b \in Stages :
              disk'[s].stages[a] # disk[s].stages[a] /\ disk'[s].stages[b] # disk[s].stages[b]
                  => a = b]_vars

\* A completed stage is never un-done (README "completed stages are skipped").
CompletedStaysComplete ==
    [][\A s \in Stories, st \in Stages :
         disk[s].stages[st].status = "done" => disk'[s].stages[st].status = "done"]_vars

\* No step of a dry run starts an adapter, touches a package, spends an attempt
\* or changes which stages are done (README "dry runs ... never production evidence").
DryRunsAreSimulations ==
    [][\A p \in Proc : Dry(p) /\ pc'[p] # pc[p] =>
         /\ UNCHANGED <<calls, succeeded, package>>
         /\ \A s \in Stories, st \in Stages :
              /\ disk'[s].stages[st].attempts = disk[s].stages[st].attempts
              /\ disk'[s].stages[st].status = "done" <=> disk[s].stages[st].status = "done"]_vars

\* An invocation that got the lock gives it back (adapters are assumed to
\* return: adapters.py sets no timeout).
HolderReleases == \A p \in Proc : lock = p ~> lock # p

StuckOn(s) ==
    \E i \in DOMAIN STAGES :
        /\ IsNextStage(disk[s], FALSE, i)
        /\ \/ disk[s].stages[STAGES[i]].attempts = MaxRetries
           \/ ConfigRejects(STAGES[i], FALSE)

\* Resume, issued again and again, settles: every story is finished, or the
\* head of the tracker waits for good on a stage whose budget is spent or whose
\* worker is not configured (tracker.py: select_next_story, head of line).
EventuallySettled ==
    <>[](\A s \in Stories : IsNextStory(s) => StuckOn(s))

(***************************************************************************)
(* What an attempt may cost.                                               *)
(***************************************************************************)
StageItems == Stories \X Stages
Item(p) == <<Story(p), Stage(p)>>

\* The invocation has begun an attempt that the state file does not count yet.
Attempting(p) ==
    /\ HasCopy(p) /\ Stage(p) \in Stages
    /\ mem[p].stages[Stage(p)].attempts # disk[Story(p)].stages[Stage(p)].attempts
ActiveItems == {Item(p) : p \in {q \in Proc : Attempting(q)}}

\* Its adapter runs.
MayYetWork(p) == At(p, "calling")
Credit(i) == IF \E p \in Proc : MayYetWork(p) /\ Item(p) = i THEN 1 ELSE 0

\* Every piece of outside work, such as a post, has an attempt of its own that is on
\* record or under way, or a fault that lost it: a publisher that posts and then
\* exits with an error, or a worker whose receipt is refused, does not work for free
\* (adapters.py: the exit status comes after the work; runner.py: so do the checks).
WorkAccounted ==
    \A i \in StageItems :
        succeeded[i[1]][i[2]]
            <= disk[i[1]].stages[i[2]].attempts + faults + (IF i \in ActiveItems THEN 1 ELSE 0)

DoneItems == {i \in StageItems : disk[i[1]].stages[i[2]].status = "done"}
LateFailure == "save" \in Faults \/ "report" \in Faults

\* The stages keep to the contract of StageAttempts: one attempt at a time in the
\* whole repository, which does its work outside at most once and is counted with its
\* outcome, or lost in a fault; only the failure of a save or of a report is recorded
\* over a success (cli.py: lock and handlers; runner.py: run_stage, _execute_stage).
Attempts == INSTANCE StageAttempts WITH
    Items <- StageItems,
    NeedsWork <- Stories \X (Stages \ {"extracted"}),
    Budget <- MaxRetries,
    LateFailures <- LateFailure,
    done <- DoneItems,
    spent <- [i \in StageItems |-> disk[i[1]].stages[i[2]].attempts],
    active <- ActiveItems,
    credit <- [i \in StageItems |-> Credit(i)],
    work <- [i \in StageItems |-> succeeded[i[1]][i[2]]],
    lost <- faults
KeepsAttempts == Attempts!Spec
===============================================================================
