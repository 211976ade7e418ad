---------------------------- MODULE WorkflowProofs ----------------------------
(***************************************************************************)
(* Proofs about Workflow, for any number of invocations and stories: every *)
(* variable keeps its type, and the lock file excludes.                    *)
(***************************************************************************)
EXTENDS Workflow, TLAPS

\* The stages of resume's list, the notebook stages and the publishers are stages.
LEMMA StageTypes ==
    /\ NotebookStages \subseteq Stages
    /\ PublicationStages \subseteq Stages
    /\ \A i \in DOMAIN STAGES : STAGES[i] \in Stages
<1>1. \A i \in DOMAIN STAGES : STAGES[i] \in Stages
  <2> DEFINE first == <<"extracted", "video_queued", "video_produced">>
  <2> SUFFICES ASSUME NEW i \in DOMAIN STAGES PROVE STAGES[i] \in Stages
      OBVIOUS
  <2>1. i \in 1..(3 + Len(Platforms)) /\ DOMAIN Platforms = 1..Len(Platforms)
     BY PlatformsAssumption DEF STAGES
  <2>2. CASE i \in 1..3
     BY <2>2, PlatformsAssumption DEF STAGES, Stages, NotebookStages
  <2>3. CASE i \notin 1..3
     BY <2>1, <2>3, PlatformsAssumption DEF STAGES, Stages, PublicationStages
  <2> QED BY <2>2, <2>3
<1>2. QED
  BY <1>1 DEF Stages, NotebookStages, PublicationStages

\* Setting the status of a record gives a story state.
LEMMA SetStatusType ==
    ASSUME NEW m \in StoryState, NEW st \in Stages, NEW status \in Statuses
    PROVE  SetStatus(m, st, status) \in StoryState
<1>1. m.stages \in [Stages -> StageRecord] /\ m.stages[st] \in StageRecord
  BY DEF StoryState
<1>2. [m.stages[st] EXCEPT !.status = status] \in StageRecord
  BY <1>1 DEF StageRecord
<1>3. QED
  BY <1>1, <1>2 DEF SetStatus, StoryState

\* Marking a stage done and registering artifacts gives a story state.
LEMMA MarkDoneType ==
    ASSUME NEW m \in StoryState, NEW st \in Stages, NEW a \in SUBSET Artifacts
    PROVE  MarkDone(m, st, a) \in StoryState
<1>1. m.stages \in [Stages -> StageRecord] /\ m.stages[st] \in StageRecord
  BY DEF StoryState
<1>2. [m.stages[st] EXCEPT !.status = "done"] \in StageRecord
  BY <1>1 DEF StageRecord, Statuses
<1>3. QED
  BY <1>1, <1>2 DEF MarkDone, StoryState

\* Beginning an attempt stays within the budget when the budget was checked.
LEMMA BeginAttemptType ==
    ASSUME NEW m \in StoryState, NEW st \in Stages, NEW dry \in BOOLEAN,
           dry \/ ~(m.stages[st].attempts >= MaxRetries)
    PROVE  BeginAttempt(m, st, dry) \in StoryState
<1> DEFINE n == IF dry THEN m.stages[st].attempts ELSE m.stages[st].attempts + 1
<1>1. m.stages \in [Stages -> StageRecord] /\ m.stages[st] \in StageRecord
  BY DEF StoryState
<1>2. n \in 0..MaxRetries
  BY <1>1, BudgetAssumption DEF StageRecord
<1>3. [status |-> "running", attempts |-> n] \in StageRecord
  BY <1>2 DEF StageRecord, Statuses
<1> HIDE DEF n
<1>4. [m EXCEPT !.stages[st] = [status |-> "running", attempts |-> n]] \in StoryState
  BY <1>1, <1>3 DEF StoryState
<1>5. QED
  BY <1>4 DEF BeginAttempt, n

(***************************************************************************)
(* Type correctness.  A stage that runs is a stage, and a story that was   *)
(* loaded is a story: without it no update of a state file could be typed. *)
(***************************************************************************)
JobOK ==
    \A p \in Proc :
        /\ ~At(p, "idle") =>
              job[p].cmd \in Commands /\ (job[p].cmd # "resume" => Stage(p) \in Stages)
        /\ pc[p] \in InLock \ {"entered", "closing"} => Story(p) \in Stories
        /\ pc[p] \in {"running", "calling", "packaging", "saving", "failing"} =>
              Stage(p) \in Stages

ExitCodes == {"none", "OK", "CONFIG", "ADAPTER_NOT_CONFIGURED", "SUBPROCESS"}

\* What a process owns, and what the processes share.
LocalInv ==
    /\ pc \in [Proc -> InLock \cup {"idle", "starting"}]
    /\ job \in [Proc -> JobType]
    /\ mem \in [Proc -> StoryState]
    /\ code \in [Proc -> ExitCodes]
    /\ JobOK
SharedInv ==
    /\ lock \in Proc \cup {Free, Stale}
    /\ disk \in [Stories -> StoryState]
    /\ package \in [Stories -> {"absent", "partial", "valid"}]
    /\ calls \in [Stories -> [Stages -> Nat]]
    /\ succeeded \in [Stories -> [Stages -> Nat]]
    /\ faults \in 0..MaxFaults

\* The two halves of the type invariant are TypeOK and JobOK.
LEMMA TypeOKSplit == TypeOK /\ JobOK <=> LocalInv /\ SharedInv
BY DEF TypeOK, LocalInv, SharedInv, ExitCodes

\* The state of a missing file and the job of an idle process have their types.
LEMMA InitialTypes == FreshState \in StoryState /\ NoJob \in JobType
BY BudgetAssumption
   DEF FreshState, StoryState, PendingRecord, StageRecord, Statuses, NoJob, JobType

\* A process that ends leaves typed variables behind.
LEMMA GoneType ==
    ASSUME LocalInv, NEW p \in Proc, Gone(p)
    PROVE  LocalInv'
<1> USE DEF LocalInv, Gone, Goto
<1>1. job' \in [Proc -> JobType] /\ mem' \in [Proc -> StoryState]
  BY InitialTypes
<1>2. pc' \in [Proc -> InLock \cup {"idle", "starting"}] /\ code' \in [Proc -> ExitCodes]
  BY DEF ExitCodes
<1>3. \A q \in Proc : q = p => pc'[q] = "idle"
  OBVIOUS
<1>4. \A q \in Proc : q # p => pc'[q] = pc[q] /\ job'[q] = job[q]
  OBVIOUS
<1>5. JobOK'
  BY <1>3, <1>4 DEF JobOK, At, Story, Stage, InLock
<1>6. QED
  BY <1>1, <1>2, <1>5

\* The other processes are as they were; what p became is checked apart.
LEMMA LocalStep ==
    ASSUME LocalInv, NEW p \in Proc, UNCHANGED job,
           NEW l \in InLock, Goto(p, l),
           ~At(p, "idle"),
           l \in InLock \ {"entered", "closing"} => Story(p) \in Stories,
           l \in {"running", "calling", "packaging", "saving", "failing"} => Stage(p) \in Stages,
           mem' \in [Proc -> StoryState],
           code' \in [Proc -> ExitCodes]
    PROVE  LocalInv'
<1> USE DEF LocalInv, Goto, At
<1>1. pc' \in [Proc -> InLock \cup {"idle", "starting"}]
  OBVIOUS
<1>2. \A q \in Proc : pc'[q] = IF q = p THEN l ELSE pc[q]
  OBVIOUS
<1>3. JobOK'
  BY <1>2 DEF JobOK, Story, Stage
<1>4. QED
  BY <1>1, <1>3

\* An exception handler leaves typed variables behind.
LEMMA RaiseType ==
    ASSUME LocalInv, NEW p \in Proc, NEW m \in StoryState, NEW c \in ExitCodes,
           Raise(p, m, c), UNCHANGED job,
           ~At(p, "idle"), Story(p) \in Stories, Stage(p) \in Stages
    PROVE  LocalInv'
<1>1. SetStatus(m, Stage(p), "failed") \in StoryState
  BY SetStatusType DEF Statuses
<1>2. mem' \in [Proc -> StoryState] /\ code' \in [Proc -> ExitCodes]
  BY <1>1 DEF Raise, Remember, ExitCode, LocalInv
<1>3. Goto(p, "failing") /\ "failing" \in InLock
  BY DEF Raise, InLock
<1>4. QED
  BY <1>2, <1>3, LocalStep

\* A fault stays within the bound on faults.
LEMMA FaultType ==
    ASSUME SharedInv, NEW kind, Fault(kind)
    PROVE  faults' \in 0..MaxFaults
BY BudgetAssumption DEF SharedInv, Fault

\* Adding to one count of one stage of one story keeps the counts typed.
LEMMA CountType ==
    ASSUME NEW f \in [Stories -> [Stages -> Nat]],
           NEW s \in Stories, NEW st \in Stages, NEW n \in Nat
    PROVE  [f EXCEPT ![s][st] = @ + n] \in [Stories -> [Stages -> Nat]]
OBVIOUS

\* Every action keeps the type invariant, one step per action.
LEMMA TypeInvStep ==
    ASSUME LocalInv, SharedInv, [Next]_vars
    PROVE  LocalInv' /\ SharedInv'
<1> USE DEF LocalInv, SharedInv
<1>1. ASSUME NEW p \in Proc, Start(p) PROVE LocalInv' /\ SharedInv'
  <2>1. PICK r \in Requests :
           job' = [job EXCEPT ![p] =
              [cmd |-> r.cmd, story |-> r.story, dry |-> r.dry,
               stage |-> IF r.cmd = "resume" THEN "none" ELSE r.cmd]]
    BY <1>1 DEF Start
  <2>2. /\ r.cmd \in Commands /\ r.story \in Stories \cup {NoStory} /\ r.dry \in BOOLEAN
        /\ r.cmd # "resume" => r.cmd \in Stages
    BY ConfigurationAssumption DEF AllRequests, Commands
  <2>3. job' \in [Proc -> JobType]
    BY <2>1, <2>2 DEF JobType
  <2>4. pc' = [pc EXCEPT ![p] = "starting"]
    BY <1>1 DEF Start, Goto
  <2>5. JobOK'
    BY <2>1, <2>2, <2>4 DEF JobOK, At, Story, Stage, InLock
  <2>6. QED
    BY <1>1, <2>3, <2>4, <2>5 DEF Start
<1>2. ASSUME NEW p \in Proc, CommandConfigError(p) PROVE LocalInv' /\ SharedInv'
  BY <1>2, GoneType DEF CommandConfigError
<1>3. ASSUME NEW p \in Proc, AcquireLock(p) PROVE LocalInv' /\ SharedInv'
  <2>1. LocalInv'
    BY <1>3, LocalStep DEF AcquireLock, MayLock, ExitCode, JobOK, At, Goto, InLock, ExitCodes
  <2>2. QED
    BY <1>3, <2>1, FaultType DEF AcquireLock
<1>4. ASSUME NEW p \in Proc, LockedOut(p) PROVE LocalInv' /\ SharedInv'
  BY <1>4, GoneType DEF LockedOut
<1>5. ASSUME NEW p \in Proc, LockWriteFails(p) PROVE LocalInv' /\ SharedInv'
  BY <1>5, GoneType, FaultType DEF LockWriteFails
<1>6. ASSUME NEW p \in Proc, Load(p) PROVE LocalInv' /\ SharedInv'
  <2>1. PICK s \in Stories :
           job' = [job EXCEPT ![p].story = s] /\ mem' = [mem EXCEPT ![p] = disk[s]]
    BY <1>6 DEF Load, Remember
  <2>2. job' \in [Proc -> JobType] /\ mem' \in [Proc -> StoryState]
    BY <2>1 DEF JobType
  <2>3. PICK l \in {"choosing", "running"} :
           /\ pc' = [pc EXCEPT ![p] = l]
           /\ l = "running" => job[p].cmd # "resume"
    BY <1>6 DEF Load, Goto
  <2>4. /\ job'[p].story = s /\ job'[p].cmd = job[p].cmd /\ job'[p].stage = job[p].stage
        /\ \A q \in Proc \ {p} : job'[q] = job[q] /\ pc'[q] = pc[q]
    BY <2>1, <2>3 DEF JobType
  <2>5. JobOK'
    BY <1>6, <2>3, <2>4 DEF JobOK, At, Story, Stage, InLock, Load
  <2>6. QED
    BY <1>6, <2>2, <2>3, <2>5 DEF Load, InLock
<1>7. ASSUME NEW p \in Proc, LoadFails(p) PROVE LocalInv' /\ SharedInv'
  <2>1. LocalInv'
    BY <1>7, LocalStep DEF LoadFails, ExitCode, JobOK, At, Goto, InLock, ExitCodes
  <2>2. QED
    BY <1>7, <2>1, FaultType DEF LoadFails
<1>8. ASSUME NEW p \in Proc, ResumeStage(p) PROVE LocalInv' /\ SharedInv'
  <2>1. PICK st \in Stages : job' = [job EXCEPT ![p].stage = st]
    BY <1>8, StageTypes DEF ResumeStage
  <2>2. job' \in [Proc -> JobType] /\ pc' = [pc EXCEPT ![p] = "running"]
    <3>1. job[p] \in JobType
      OBVIOUS
    <3>2. [job[p] EXCEPT !.stage = st] \in JobType
      BY <3>1 DEF JobType
    <3>3. QED
      BY <1>8, <2>1, <3>2 DEF ResumeStage, Goto
  <2>3. /\ job'[p].story = job[p].story /\ job'[p].cmd = job[p].cmd
        /\ job'[p].stage = st
        /\ \A q \in Proc \ {p} : job'[q] = job[q] /\ pc'[q] = pc[q]
    BY <2>1, <2>2 DEF JobType
  <2>4. JobOK'
    BY <1>8, <2>2, <2>3 DEF JobOK, At, Story, Stage, InLock, ResumeStage
  <2>5. QED
    BY <1>8, <2>2, <2>4 DEF ResumeStage, InLock
<1>9. ASSUME NEW p \in Proc, ResumeConfigError(p) PROVE LocalInv' /\ SharedInv'
  <2>1. LocalInv'
    BY <1>9, LocalStep DEF ResumeConfigError, ExitCode, JobOK, At, Goto, InLock, ExitCodes
  <2>2. QED
    BY <1>9, <2>1, FaultType DEF ResumeConfigError
<1>10. ASSUME NEW p \in Proc, ResumeBoundary(p) PROVE LocalInv' /\ SharedInv'
  <2>1. LocalInv'
    BY <1>10, LocalStep DEF ResumeBoundary, ExitCode, JobOK, At, Goto, InLock, ExitCodes
  <2>2. QED
    BY <1>10, <2>1, FaultType DEF ResumeBoundary
<1>11. ASSUME NEW p \in Proc, ResumeComplete(p) PROVE LocalInv' /\ SharedInv'
  <2>1. LocalInv'
    BY <1>11, LocalStep DEF ResumeComplete, ExitCode, JobOK, At, Goto, InLock, ExitCodes
  <2>2. QED
    BY <1>11, <2>1, FaultType DEF ResumeComplete
<1>12. ASSUME NEW p \in Proc, SkipDone(p) PROVE LocalInv' /\ SharedInv'
  <2>1. LocalInv'
    BY <1>12, LocalStep DEF SkipDone, ExitCode, JobOK, At, Goto, InLock, ExitCodes
  <2>2. QED
    BY <1>12, <2>1, FaultType DEF SkipDone
<1>13. ASSUME NEW p \in Proc, BudgetExhausted(p) PROVE LocalInv' /\ SharedInv'
  <2>1. /\ At(p, "running") /\ ~At(p, "idle")
        /\ Story(p) \in Stories /\ Stage(p) \in Stages
    BY <1>13 DEF BudgetExhausted, JobOK, At, InLock
  <2>2. mem[p] \in StoryState
    OBVIOUS
  <2>3. Raise(p, mem[p], "SUBPROCESS") /\ UNCHANGED job
    BY <1>13 DEF BudgetExhausted
  <2>4. LocalInv'
    BY <2>1, <2>2, <2>3, RaiseType DEF ExitCodes
  <2>5. QED
    BY <1>13, <2>4, FaultType DEF BudgetExhausted
<1>14. ASSUME NEW p \in Proc, RunWithoutAdapter(p) PROVE LocalInv' /\ SharedInv'
  <2>1. Story(p) \in Stories /\ Stage(p) \in Stages /\ ~At(p, "idle")
    BY <1>14 DEF RunWithoutAdapter, MayAttempt, JobOK, At, InLock
  <2>2. Attempted(p) \in StoryState
    BY <1>14, <2>1, BeginAttemptType
       DEF RunWithoutAdapter, MayAttempt, Attempted, Exhausted, Dry, JobType
  <2>3. SetStatus(Attempted(p), Stage(p), IF Dry(p) THEN "dry_run" ELSE "done") \in StoryState
    BY <2>1, <2>2, SetStatusType DEF Statuses
  <2>4. mem' \in [Proc -> StoryState]
    BY <1>14, <2>3 DEF RunWithoutAdapter, Remember
  <2>5. LocalInv'
    BY <1>14, <2>1, <2>4, LocalStep DEF RunWithoutAdapter, InLock
  <2>6. QED
    BY <1>14, <2>5 DEF RunWithoutAdapter
<1>15. ASSUME NEW p \in Proc, StageRefused(p) PROVE LocalInv' /\ SharedInv'
  <2>1. /\ At(p, "running") /\ ~At(p, "idle")
        /\ Story(p) \in Stories /\ Stage(p) \in Stages
    BY <1>15 DEF StageRefused, MayAttempt, JobOK, At, InLock
  <2>2. Attempted(p) \in StoryState
    BY <1>15, <2>1, BeginAttemptType DEF StageRefused, MayAttempt, Attempted, Exhausted, Dry, JobType
  <2>3. Raise(p, Attempted(p), "SUBPROCESS") /\ UNCHANGED job
    BY <1>15 DEF StageRefused
  <2>4. LocalInv'
    BY <2>1, <2>2, <2>3, RaiseType DEF ExitCodes
  <2>5. QED
    BY <1>15, <2>4, FaultType DEF StageRefused
<1>16. ASSUME NEW p \in Proc, AdapterNotConfigured(p) PROVE LocalInv' /\ SharedInv'
  <2>1. /\ At(p, "running") /\ ~At(p, "idle")
        /\ Story(p) \in Stories /\ Stage(p) \in Stages
    BY <1>16 DEF AdapterNotConfigured, MayAttempt, JobOK, At, InLock
  <2>2. Attempted(p) \in StoryState
    BY <1>16, <2>1, BeginAttemptType DEF AdapterNotConfigured, MayAttempt, Attempted, Exhausted, Dry, JobType
  <2>3. Raise(p, Attempted(p), "ADAPTER_NOT_CONFIGURED") /\ UNCHANGED job
    BY <1>16 DEF AdapterNotConfigured
  <2>4. LocalInv'
    BY <2>1, <2>2, <2>3, RaiseType DEF ExitCodes
  <2>5. QED
    BY <1>16, <2>4, FaultType DEF AdapterNotConfigured
<1>17. ASSUME NEW p \in Proc, CallAdapter(p) PROVE LocalInv' /\ SharedInv'
  <2>1. Story(p) \in Stories /\ Stage(p) \in Stages /\ ~At(p, "idle")
    BY <1>17 DEF CallAdapter, MayAttempt, JobOK, At, InLock
  <2>2. Attempted(p) \in StoryState
    BY <1>17, <2>1, BeginAttemptType
       DEF CallAdapter, MayAttempt, Attempted, Exhausted, Dry, JobType
  <2>3. mem' \in [Proc -> StoryState]
    BY <1>17, <2>2 DEF CallAdapter, Remember
  <2>4. LocalInv'
    BY <1>17, <2>1, <2>3, LocalStep DEF CallAdapter, InLock
  <2>5. calls' \in [Stories -> [Stages -> Nat]]
    BY <1>17, <2>1, CountType DEF CallAdapter
  <2>6. QED
    BY <1>17, <2>4, <2>5 DEF CallAdapter
<1>18. ASSUME NEW p \in Proc, AdapterFails(p) PROVE LocalInv' /\ SharedInv'
  <2>1. /\ At(p, "calling") /\ ~At(p, "idle")
        /\ Story(p) \in Stories /\ Stage(p) \in Stages
    BY <1>18 DEF AdapterFails, JobOK, At, InLock
  <2>2. mem[p] \in StoryState
    OBVIOUS
  <2>3. Raise(p, mem[p], "SUBPROCESS") /\ UNCHANGED job
    BY <1>18 DEF AdapterFails
  <2>4. LocalInv'
    BY <2>1, <2>2, <2>3, RaiseType DEF ExitCodes
  <2>5. PICK n \in {0, 1} : DoWork(p, n)
    BY <1>18 DEF AdapterFails
  <2>6. succeeded' \in [Stories -> [Stages -> Nat]]
    BY <2>1, <2>5, CountType DEF DoWork
  <2>7. QED
    BY <1>18, <2>4, <2>6 DEF AdapterFails
<1>19. ASSUME NEW p \in Proc, AdapterReturns(p) PROVE LocalInv' /\ SharedInv'
  <2> DEFINE a == IF Stage(p) = "video_queued" THEN {"generation_receipt_path"} ELSE {}
  <2>1. Story(p) \in Stories /\ Stage(p) \in Stages /\ ~At(p, "idle")
    BY <1>19 DEF AdapterReturns, JobOK, At, InLock
  <2>2. MarkDone(mem[p], Stage(p), a) \in StoryState
    BY <2>1, MarkDoneType DEF Artifacts
  <2>3. Succeed(p, a) /\ UNCHANGED <<job, code>>
    BY <1>19 DEF AdapterReturns
  <2> HIDE DEF a
  <2>4. LocalInv'
    BY <2>1, <2>2, <2>3, LocalStep DEF Succeed, Remember, InLock
  <2>5. succeeded' \in [Stories -> [Stages -> Nat]]
    BY <1>19, <2>1, CountType DEF AdapterReturns, DoWork
  <2>6. QED
    BY <1>19, <2>4, <2>5 DEF AdapterReturns
<1>20. ASSUME NEW p \in Proc, BeginPackage(p) PROVE LocalInv' /\ SharedInv'
  <2>1. Story(p) \in Stories /\ Stage(p) \in Stages /\ ~At(p, "idle")
    BY <1>20 DEF BeginPackage, JobOK, At, InLock
  <2>2. LocalInv'
    BY <1>20, <2>1, LocalStep DEF BeginPackage, InLock
  <2>3. succeeded' \in [Stories -> [Stages -> Nat]]
    BY <1>20, <2>1, CountType DEF BeginPackage, DoWork
  <2>4. QED
    BY <1>20, <2>1, <2>2, <2>3 DEF BeginPackage
<1>21. ASSUME NEW p \in Proc, PackageFails(p) PROVE LocalInv' /\ SharedInv'
  <2>1. /\ At(p, "packaging") /\ ~At(p, "idle")
        /\ Story(p) \in Stories /\ Stage(p) \in Stages
    BY <1>21 DEF PackageFails, JobOK, At, InLock
  <2>2. mem[p] \in StoryState
    OBVIOUS
  <2>3. Raise(p, mem[p], "SUBPROCESS") /\ UNCHANGED job
    BY <1>21 DEF PackageFails
  <2>4. LocalInv'
    BY <2>1, <2>2, <2>3, RaiseType DEF ExitCodes
  <2>5. QED
    BY <1>21, <2>4, FaultType DEF PackageFails
<1>22. ASSUME NEW p \in Proc, FinishPackage(p) PROVE LocalInv' /\ SharedInv'
  <2> DEFINE a == {"package_dir"}
  <2>1. Story(p) \in Stories /\ Stage(p) \in Stages /\ ~At(p, "idle")
    BY <1>22 DEF FinishPackage, JobOK, At, InLock
  <2>2. MarkDone(mem[p], Stage(p), a) \in StoryState
    BY <2>1, MarkDoneType DEF Artifacts
  <2>3. Succeed(p, a) /\ UNCHANGED <<job, code>>
    BY <1>22 DEF FinishPackage
  <2> HIDE DEF a
  <2>4. LocalInv'
    BY <2>1, <2>2, <2>3, LocalStep DEF Succeed, Remember, InLock
  <2>5. QED
    BY <1>22, <2>4 DEF FinishPackage
<1>23. ASSUME NEW p \in Proc, AudioMismatch(p) PROVE LocalInv' /\ SharedInv'
  <2>1. /\ At(p, "packaging") /\ ~At(p, "idle")
        /\ Story(p) \in Stories /\ Stage(p) \in Stages
    BY <1>23 DEF AudioMismatch, JobOK, At, InLock
  <2>2. [mem[p] EXCEPT !.artifacts = @ \cup {"package_dir"}] \in StoryState
    BY DEF StoryState, Artifacts
  <2>3. Raise(p, [mem[p] EXCEPT !.artifacts = @ \cup {"package_dir"}], "SUBPROCESS") /\ UNCHANGED job
    BY <1>23 DEF AudioMismatch
  <2>4. LocalInv'
    BY <2>1, <2>2, <2>3, RaiseType DEF ExitCodes
  <2>5. QED
    BY <1>23, <2>4, FaultType DEF AudioMismatch
<1>24. ASSUME NEW p \in Proc, Save(p) PROVE LocalInv' /\ SharedInv'
  <2>1. Story(p) \in Stories
    BY <1>24 DEF Save, JobOK, At, InLock
  <2>2. LocalInv'
    BY <1>24, <2>1, LocalStep DEF Save, JobOK, At, InLock
  <2>3. QED
    BY <1>24, <2>1, <2>2 DEF Save, WriteState
<1>25. ASSUME NEW p \in Proc, SaveFails(p) PROVE LocalInv' /\ SharedInv'
  <2>1. /\ At(p, "saving") /\ ~At(p, "idle")
        /\ Story(p) \in Stories /\ Stage(p) \in Stages
    BY <1>25 DEF SaveFails, JobOK, At, InLock
  <2>2. mem[p] \in StoryState
    OBVIOUS
  <2>3. Raise(p, mem[p], "SUBPROCESS") /\ UNCHANGED job
    BY <1>25 DEF SaveFails
  <2>4. LocalInv'
    BY <2>1, <2>2, <2>3, RaiseType DEF ExitCodes
  <2>5. QED
    BY <1>25, <2>4, FaultType DEF SaveFails
<1>26. ASSUME NEW p \in Proc, BoundarySaveFails(p) PROVE LocalInv' /\ SharedInv'
  <2>1. LocalInv'
    BY <1>26, LocalStep DEF BoundarySaveFails, ExitCode, JobOK, At, Goto, InLock, ExitCodes
  <2>2. QED
    BY <1>26, <2>1, FaultType DEF BoundarySaveFails
<1>27. ASSUME NEW p \in Proc, Report(p) PROVE LocalInv' /\ SharedInv'
  <2>1. LocalInv'
    BY <1>27, LocalStep DEF Report, ExitCode, JobOK, At, Goto, InLock, ExitCodes
  <2>2. QED
    BY <1>27, <2>1, FaultType DEF Report
<1>28. ASSUME NEW p \in Proc, ReportFails(p) PROVE LocalInv' /\ SharedInv'
  <2>1. /\ At(p, "reporting") /\ ~At(p, "idle") /\ Story(p) \in Stories
        /\ job[p].cmd # "resume" => Stage(p) \in Stages
    BY <1>28 DEF ReportFails, JobOK, At, InLock
  <2>2. CASE job[p].cmd = "resume"
    <3>1. /\ ExitCode(p, "SUBPROCESS") /\ Goto(p, "closing")
          /\ UNCHANGED <<mem, job>>
      BY <1>28, <2>2 DEF ReportFails
    <3>2. code' \in [Proc -> ExitCodes]
      BY <3>1 DEF ExitCode, ExitCodes
    <3>3. LocalInv'
      BY <2>1, <3>1, <3>2, LocalStep DEF InLock
    <3>4. QED
      BY <1>28, <3>3, FaultType DEF ReportFails
  <2>3. CASE job[p].cmd # "resume"
    <3>1. Raise(p, mem[p], "SUBPROCESS") /\ UNCHANGED job
      BY <1>28, <2>3 DEF ReportFails
    <3>2. LocalInv'
      BY <2>1, <2>3, <3>1, RaiseType DEF ExitCodes
    <3>3. QED
      BY <1>28, <3>2, FaultType DEF ReportFails
  <2>4. QED
    BY <2>2, <2>3
<1>29. ASSUME NEW p \in Proc, SaveFailure(p) PROVE LocalInv' /\ SharedInv'
  <2>1. Story(p) \in Stories
    BY <1>29 DEF SaveFailure, JobOK, At, InLock
  <2>2. LocalInv'
    BY <1>29, <2>1, LocalStep DEF SaveFailure, JobOK, At, InLock
  <2>3. QED
    BY <1>29, <2>1, <2>2 DEF SaveFailure, WriteState
<1>30. ASSUME NEW p \in Proc, SaveFailureFails(p) PROVE LocalInv' /\ SharedInv'
  <2>1. LocalInv'
    BY <1>30, LocalStep DEF SaveFailureFails, ExitCode, JobOK, At, Goto, InLock, ExitCodes
  <2>2. QED
    BY <1>30, <2>1, FaultType DEF SaveFailureFails
<1>31. ASSUME NEW p \in Proc, Release(p) PROVE LocalInv' /\ SharedInv'
  BY <1>31, GoneType DEF Release
<1>32. ASSUME NEW p \in Proc, Crash(p) PROVE LocalInv' /\ SharedInv'
  <2>1. LocalInv'
    BY <1>32, GoneType DEF Crash
  <2>2. CASE At(p, "calling")
    <3>1. Story(p) \in Stories /\ Stage(p) \in Stages
      BY <2>2 DEF JobOK, At, InLock
    <3>2. PICK n \in {0, 1} :
             succeeded' = [succeeded EXCEPT ![Story(p)][Stage(p)] = @ + n]
      BY <1>32, <2>2 DEF Crash, OrphanMayFinish, DoWork
    <3>3. succeeded' \in [Stories -> [Stages -> Nat]]
      BY <3>1, <3>2, CountType
    <3>4. QED
      BY <1>32, <2>1, <3>3, FaultType DEF Crash
  <2>3. CASE ~At(p, "calling")
    BY <1>32, <2>1, <2>3, FaultType DEF Crash, OrphanMayFinish
  <2>4. QED
    BY <2>2, <2>3
<1>33. ASSUME NEW p \in Proc, Interrupt(p) PROVE LocalInv' /\ SharedInv'
  <2>1. LocalInv'
    BY <1>33, GoneType DEF Interrupt
  <2>2. CASE At(p, "calling")
    <3>1. Story(p) \in Stories /\ Stage(p) \in Stages
      BY <2>2 DEF JobOK, At, InLock
    <3>2. PICK n \in {0, 1} :
             succeeded' = [succeeded EXCEPT ![Story(p)][Stage(p)] = @ + n]
      BY <1>33, <2>2 DEF Interrupt, OrphanMayFinish, DoWork
    <3>3. succeeded' \in [Stories -> [Stages -> Nat]]
      BY <3>1, <3>2, CountType
    <3>4. QED
      BY <1>33, <2>1, <3>3, FaultType DEF Interrupt
  <2>3. CASE ~At(p, "calling")
    BY <1>33, <2>1, <2>3, FaultType DEF Interrupt, OrphanMayFinish
  <2>4. QED
    BY <2>2, <2>3
<1>34. ASSUME RemoveStaleLock PROVE LocalInv' /\ SharedInv'
  BY <1>34 DEF RemoveStaleLock, JobOK, At, Story, Stage
<1>35. ASSUME NEW s \in Stories, WriteScript(s) PROVE LocalInv' /\ SharedInv'
  <2>1. [disk[s] EXCEPT !.artifacts = @ \cup {"wispr_final_script"}] \in StoryState
    BY DEF StoryState, Artifacts
  <2>2. disk' \in [Stories -> StoryState]
    BY <1>35, <2>1 DEF WriteScript
  <2>3. QED
    BY <1>35, <2>2 DEF WriteScript, JobOK, At, Story, Stage
<1>36. CASE UNCHANGED vars
  BY <1>36 DEF vars, JobOK, At, Story, Stage
<1>37. QED
  BY <1>1, <1>2, <1>3, <1>4, <1>5, <1>6, <1>7, <1>8, <1>9, <1>10, <1>11,
     <1>12, <1>13, <1>14, <1>15, <1>16, <1>17, <1>18, <1>19, <1>20, <1>21,
     <1>22, <1>23, <1>24, <1>25, <1>26, <1>27, <1>28, <1>29, <1>30, <1>31,
     <1>32, <1>33, <1>34, <1>35, <1>36
     DEF Next, Step, Enter, Choose, RunStage, Finish, Fail

TypeInv == LocalInv /\ SharedInv

\* The type invariant holds in every behaviour.
LEMMA TypeInvariant == Spec => []TypeInv
<1>1. Init => TypeInv
  <2> SUFFICES ASSUME Init PROVE LocalInv /\ SharedInv
    BY DEF TypeInv
  <2>1. LocalInv
    BY InitialTypes DEF Init, LocalInv, ExitCodes, JobOK, At, InLock
  <2>2. SharedInv
    BY InitialTypes, BudgetAssumption DEF Init, SharedInv
  <2>3. QED
    BY <2>1, <2>2
<1>2. TypeInv /\ [Next]_vars => TypeInv'
  BY TypeInvStep DEF TypeInv
<1>3. QED
  BY <1>1, <1>2, PTL DEF Spec

\* Every variable keeps its type in every behaviour, and no state file ever
\* counts more attempts than the budget.
THEOREM TypeCorrect == Spec => []TypeOK
<1>1. TypeInv => TypeOK
  BY TypeOKSplit DEF TypeInv
<1>2. QED
  BY <1>1, TypeInvariant, PTL

(***************************************************************************)
(* Mutual exclusion.  It is inductive: the lock file is created by the     *)
(* process that enters, and only the process inside removes it.            *)
(***************************************************************************)
MutexContext == pc \in [Proc -> InLock \cup {"idle", "starting"}] /\ MutualExclusion

\* A step that leaves the lock file alone and stays on its side of it excludes.
LEMMA MutexStays ==
    ASSUME MutexContext, NEW p \in Proc, NEW l, Goto(p, l), UNCHANGED lock,
           pc[p] \in InLock <=> l \in InLock
    PROVE  MutualExclusion'
BY DEF MutexContext, MutualExclusion, InCriticalSection, Goto

\* A process that leaves may free the lock file or leave it stale.
LEMMA MutexLeaves ==
    ASSUME MutexContext, NEW p \in Proc, NEW l, Goto(p, l), l \notin InLock,
           pc[p] \in InLock, lock' \in {Free, Stale}
    PROVE  MutualExclusion'
BY LockAssumption DEF MutexContext, MutualExclusion, InCriticalSection, Goto

\* Every action keeps mutual exclusion.
LEMMA MutexStep ==
    ASSUME MutexContext, [Next]_vars
    PROVE  MutualExclusion'
<1> USE DEF At, InLock
<1>1. ASSUME NEW p \in Proc, Start(p) PROVE MutualExclusion'
  BY <1>1, MutexStays DEF Start
<1>2. ASSUME NEW p \in Proc, Enter(p) PROVE MutualExclusion'
  <2>1. CASE AcquireLock(p)
    BY <2>1, LockAssumption
       DEF AcquireLock, MayLock, MutexContext, MutualExclusion, InCriticalSection, Goto
  <2>2. CASE CommandConfigError(p) \/ LockedOut(p)
    BY <2>2, MutexStays DEF CommandConfigError, LockedOut, MayLock, Gone
  <2>3. QED
    BY <1>2, <2>1, <2>2 DEF Enter
<1>3. ASSUME NEW p \in Proc, Choose(p) PROVE MutualExclusion'
  <2>1. /\ pc[p] \in {"entered", "choosing"} /\ UNCHANGED lock
        /\ \E l \in {"choosing", "running", "boundary", "reporting", "closing"} : Goto(p, l)
    BY <1>3 DEF Choose, Load, LoadFails, ResumeStage, ResumeConfigError, ResumeBoundary,
                ResumeComplete
  <2>2. QED
    BY <2>1, MutexStays
<1>4. ASSUME NEW p \in Proc, RunStage(p) PROVE MutualExclusion'
  <2>1. /\ pc[p] \in {"running", "calling", "packaging"} /\ UNCHANGED lock
        /\ \E l \in {"saving", "failing", "calling", "packaging"} : Goto(p, l)
    BY <1>4 DEF RunStage, SkipDone, BudgetExhausted, RunWithoutAdapter, StageRefused,
                AdapterNotConfigured, CallAdapter, AdapterFails, AdapterReturns, BeginPackage,
                PackageFails, FinishPackage, AudioMismatch, MayAttempt, Raise, Succeed
  <2>2. QED
    BY <2>1, MutexStays
<1>5. ASSUME NEW p \in Proc, Finish(p) PROVE MutualExclusion'
  <2>1. CASE Release(p)
    BY <2>1, MutexLeaves DEF Release, Gone
  <2>2. CASE Save(p) \/ Report(p) \/ SaveFailure(p)
    <3>1. /\ pc[p] \in {"saving", "boundary", "reporting", "failing"} /\ UNCHANGED lock
          /\ \E l \in {"reporting", "closing"} : Goto(p, l)
      BY <2>2 DEF Save, Report, SaveFailure
    <3>2. QED
      BY <3>1, MutexStays
  <2>3. QED
    BY <1>5, <2>1, <2>2 DEF Finish
<1>6. ASSUME NEW p \in Proc, Fail(p) PROVE MutualExclusion'
  <2>1. CASE LockWriteFails(p)
    BY <2>1, LockAssumption
       DEF LockWriteFails, MayLock, Gone, MutexContext, MutualExclusion, InCriticalSection, Goto
  <2>2. CASE Crash(p) \/ Interrupt(p)
    BY <2>2, MutexLeaves DEF Crash, Interrupt, Gone
  <2>3. CASE SaveFails(p) \/ BoundarySaveFails(p) \/ ReportFails(p) \/ SaveFailureFails(p)
    <3>1. /\ pc[p] \in {"saving", "boundary", "reporting", "failing"} /\ UNCHANGED lock
          /\ \E l \in {"failing", "closing"} : Goto(p, l)
      BY <2>3 DEF SaveFails, BoundarySaveFails, ReportFails, SaveFailureFails, Raise
    <3>2. QED
      BY <3>1, MutexStays
  <2>4. QED
    BY <1>6, <2>1, <2>2, <2>3 DEF Fail
<1>7. CASE RemoveStaleLock
  BY <1>7, LockAssumption DEF RemoveStaleLock, MutexContext, MutualExclusion, InCriticalSection
<1>8. ASSUME NEW s \in Stories, WriteScript(s) PROVE MutualExclusion'
  BY <1>8 DEF WriteScript, MutexContext, MutualExclusion, InCriticalSection
<1>9. CASE UNCHANGED vars
  BY <1>9 DEF vars, MutexContext, MutualExclusion, InCriticalSection
<1>10. QED
  BY <1>1, <1>2, <1>3, <1>4, <1>5, <1>6, <1>7, <1>8, <1>9 DEF Next, Step

\* The lock file belongs to exactly the invocation between acquiring and
\* releasing it, whatever crashes and whoever clears the stale locks.
THEOREM MutualExclusionHolds == Spec => []MutualExclusion
<1>1. Init => MutualExclusion
  BY LockAssumption DEF Init, MutualExclusion, InCriticalSection, InLock
<1>2. TypeOK /\ MutualExclusion /\ [Next]_vars => MutualExclusion'
  BY MutexStep DEF TypeOK, MutexContext
<1>3. QED
  BY <1>1, <1>2, TypeCorrect, PTL DEF Spec
===============================================================================
