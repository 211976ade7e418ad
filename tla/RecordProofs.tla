----------------------------- MODULE RecordProofs -----------------------------
(***************************************************************************)
(* The proofs that no invocation loses another one's progress: the copy an *)
(* invocation works on stays current, state files only grow, no budget is  *)
(* spent on a worker that is not configured, and the exit code agrees with *)
(* the record.                                                             *)
(***************************************************************************)
EXTENDS WorkflowProofs

CopyLabels == {"choosing", "running", "calling", "packaging", "saving", "boundary",
               "reporting", "failing"}

\* A copy m of the state file d on which stage st has been worked.
Extends(d, m, st) ==
    /\ \A x \in Stages \ {st} : m.stages[x] = d.stages[x]
    /\ d.artifacts \cap Evidence \subseteq m.artifacts
    /\ st \in Stages =>
          m.stages[st].attempts \in {d.stages[st].attempts, d.stages[st].attempts + 1}

\* The same records and the same evidence: at most the script of Wispr differs.
Agrees(d, m) ==
    /\ m.stages = d.stages
    /\ m.artifacts \cap Evidence = d.artifacts \cap Evidence

\* Until its stage starts and after it is saved, the copy agrees with the state file;
\* in between it extends the file, by its own stage.
CopyOK(p) ==
    HasCopy(p) =>
        /\ Extends(disk[Story(p)], mem[p], Stage(p))
        /\ pc[p] \in {"choosing", "running", "boundary", "reporting"} =>
              Agrees(disk[Story(p)], mem[p])
        /\ pc[p] \in {"calling", "packaging"} =>
              /\ mem[p].stages[Stage(p)].status = "running"
              /\ disk[Story(p)].stages[Stage(p)].status # "done"
CopyInv == \A p \in Proc : CopyOK(p)

\* What the operators on story states leave alone.
Revises(m, n, st) ==
    /\ \A x \in Stages \ {st} : n.stages[x] = m.stages[x]
    /\ m.artifacts \subseteq n.artifacts
    /\ n.stages[st].attempts = m.stages[st].attempts

\* SetStatus changes the status of one record.
LEMMA SetStatusRevises ==
    ASSUME NEW m \in StoryState, NEW st \in Stages, NEW status \in Statuses
    PROVE  /\ Revises(m, SetStatus(m, st, status), st)
           /\ SetStatus(m, st, status).stages[st].status = status
           /\ SetStatus(m, st, status).artifacts = m.artifacts
BY DEF StoryState, StageRecord, SetStatus, Revises

\* MarkDone changes the status of one record and adds the artifacts.
LEMMA MarkDoneRevises ==
    ASSUME NEW m \in StoryState, NEW st \in Stages, NEW a \in SUBSET Artifacts
    PROVE  /\ Revises(m, MarkDone(m, st, a), st)
           /\ MarkDone(m, st, a).stages[st].status = "done"
           /\ MarkDone(m, st, a).artifacts = m.artifacts \cup a
BY DEF StoryState, StageRecord, MarkDone, Revises

\* BeginAttempt works on one record and spends at most one attempt of it.
LEMMA BeginAttemptExtends ==
    ASSUME NEW m \in StoryState, NEW st \in Stages, NEW dry \in BOOLEAN
    PROVE  /\ Extends(m, BeginAttempt(m, st, dry), st)
           /\ BeginAttempt(m, st, dry).stages[st].status = "running"
           /\ BeginAttempt(m, st, dry).artifacts = m.artifacts
BY DEF StoryState, StageRecord, BeginAttempt, Extends

\* A copy that agrees with its file extends it, and so does what is done next to it.
LEMMA AgreementExtends ==
    ASSUME NEW d, NEW m \in StoryState, NEW st, Agrees(d, m)
    PROVE  /\ Extends(d, m, st)
           /\ \A n : Extends(m, n, st) => Extends(d, n, st)
BY DEF Agrees, Extends

\* A copy that was just loaded or saved agrees with its file.
LEMMA AgreesItself == \A m : Agrees(m, m)
BY DEF Agrees

LEMMA ExtendsItself ==
    ASSUME NEW m \in StoryState, NEW st
    PROVE  Extends(m, m, st)
BY AgreesItself, AgreementExtends

\* A file that agrees with an older one is extended by the same copies.
LEMMA ExtendsAgreeing ==
    ASSUME NEW d, NEW e, NEW m, NEW st, Agrees(d, e)
    PROVE  /\ Extends(d, m, st) => Extends(e, m, st)
           /\ Agrees(d, m) => Agrees(e, m)
BY DEF Agrees, Extends

\* Revising the stage that is worked on keeps a copy an extension of the file.
LEMMA RevisionExtends ==
    ASSUME NEW d, NEW m, NEW n, NEW st \in Stages, Extends(d, m, st), Revises(m, n, st)
    PROVE  Extends(d, n, st)
BY DEF Extends, Revises

(***************************************************************************)
(* The invocations that do not move keep what they have: an invocation     *)
(* that changes a state file holds the lock, and then nobody else has a    *)
(* copy.                                                                   *)
(***************************************************************************)
Frame(p) ==
    \A q \in Proc \ {p} : pc'[q] = pc[q] /\ mem'[q] = mem[q] /\ job'[q] = job[q]

\* Only the process inside the lock has a copy.
LEMMA OneCopy ==
    ASSUME MutexContext, NEW p \in Proc, NEW q \in Proc, InCriticalSection(p), HasCopy(q)
    PROVE  q = p
BY DEF MutexContext, MutualExclusion, HasCopy

\* The copies of the processes that do not move stay as good as they were.
LEMMA BystandersKeep ==
    ASSUME MutexContext, CopyInv, NEW p \in Proc, Frame(p),
           UNCHANGED disk \/ InCriticalSection(p)
    PROVE  \A q \in Proc \ {p} : CopyOK(q)'
<1> SUFFICES ASSUME NEW q \in Proc \ {p} PROVE CopyOK(q)'
  OBVIOUS
<1>1. HasCopy(q)' <=> HasCopy(q)
  BY DEF Frame, HasCopy, InCriticalSection, At
<1>2. CASE ~HasCopy(q)
  BY <1>1, <1>2 DEF CopyOK
<1>3. CASE HasCopy(q)
  <2>1. UNCHANGED disk
    BY <1>3, OneCopy
  <2>2. QED
    BY <1>1, <1>3, <2>1 DEF CopyInv, CopyOK, Frame, Story, Stage
<1>4. QED
  BY <1>2, <1>3

\* A step that ends outside the labels of a copy.
LEMMA DropsCopy ==
    ASSUME MutexContext, CopyInv, NEW p \in Proc, NEW l, Goto(p, l), l \notin CopyLabels, Frame(p),
           UNCHANGED disk \/ InCriticalSection(p)
    PROVE  CopyInv'
<1>1. ~HasCopy(p)'
  BY DEF MutexContext, Goto, HasCopy, InCriticalSection, InLock, CopyLabels, At
<1>2. QED
  BY <1>1, BystandersKeep DEF CopyInv, CopyOK

\* A step from label to label that works on the copy.
LEMMA WorksOnCopy ==
    ASSUME MutexContext, CopyInv, NEW p \in Proc, NEW l \in CopyLabels, Goto(p, l), Frame(p),
           pc[p] \in CopyLabels, UNCHANGED <<disk, job>>, Stage(p) \in Stages,
           Extends(disk[Story(p)], mem'[p], Stage(p)),
           l \in {"choosing", "running", "boundary", "reporting"} =>
              Agrees(disk[Story(p)], mem'[p]),
           l \in {"calling", "packaging"} =>
              /\ mem'[p].stages[Stage(p)].status = "running"
              /\ disk[Story(p)].stages[Stage(p)].status # "done"
    PROVE  CopyInv'
<1>1. pc'[p] = l
  BY DEF MutexContext, Goto
<1>2. CopyOK(p)'
  BY <1>1 DEF CopyOK, Story, Stage
<1>3. QED
  BY <1>2, BystandersKeep DEF CopyInv

\* What a process between labels of a copy is known to have.
LEMMA CopyFacts ==
    ASSUME LocalInv, SharedInv, CopyInv, NEW p \in Proc, pc[p] \in CopyLabels
    PROVE  /\ HasCopy(p) /\ InCriticalSection(p)
           /\ Story(p) \in Stories
           /\ mem[p] \in StoryState /\ disk[Story(p)] \in StoryState
           /\ Dry(p) \in BOOLEAN
           /\ Extends(disk[Story(p)], mem[p], Stage(p))
           /\ pc[p] \in {"running", "calling", "packaging", "saving", "failing"} =>
                 Stage(p) \in Stages
<1>1. HasCopy(p) /\ InCriticalSection(p)
  BY DEF HasCopy, InCriticalSection, InLock, CopyLabels, At
<1>2. job[p] \in JobType /\ mem[p] \in StoryState
  BY DEF LocalInv
<1>3. Story(p) \in Stories
  BY DEF LocalInv, JobOK, CopyLabels, InLock
<1>4. QED
  BY <1>1, <1>2, <1>3 DEF LocalInv, SharedInv, JobOK, JobType, Dry, CopyInv, CopyOK

\* The exception handlers: whatever the copy was revised to, its own stage fails.
LEMMA RaiseKeepsCopy ==
    ASSUME LocalInv, SharedInv, MutexContext, CopyInv, NEW p \in Proc, NEW m \in StoryState, NEW c,
           pc[p] \in CopyLabels, Stage(p) \in Stages, UNCHANGED <<disk, job>>,
           Extends(disk[Story(p)], m, Stage(p)), Raise(p, m, c)
    PROVE  CopyInv'
<1>1. Extends(disk[Story(p)], SetStatus(m, Stage(p), "failed"), Stage(p))
  BY SetStatusRevises, RevisionExtends DEF Statuses
<1>2. mem' = [mem EXCEPT ![p] = SetStatus(m, Stage(p), "failed")] /\ Goto(p, "failing")
  BY DEF Raise, Remember
<1>3. mem'[p] = SetStatus(m, Stage(p), "failed") /\ Frame(p)
  BY <1>2 DEF Frame, Goto, LocalInv
<1>4. "failing" \in CopyLabels
  BY DEF CopyLabels
<1>5. QED
  BY <1>1, <1>2, <1>3, <1>4, WorksOnCopy

\* The environment moves no process, and all it does to a file is to store a script.
EnvironmentStep ==
    /\ UNCHANGED <<package, pc, job, mem, code, calls, succeeded, faults>>
    /\ \A s \in Stories : Agrees(disk[s], disk'[s])

LEMMA EnvironmentActs ==
    ASSUME SharedInv, RemoveStaleLock \/ UNCHANGED vars \/ \E s \in Stories : WriteScript(s)
    PROVE  EnvironmentStep
<1>1. ASSUME NEW t \in Stories, WriteScript(t) PROVE EnvironmentStep
  <2>1. \A s \in Stories \ {t} : disk'[s] = disk[s]
    BY <1>1 DEF WriteScript, SharedInv
  <2>2. disk'[t] = [disk[t] EXCEPT !.artifacts = @ \cup {"wispr_final_script"}]
    BY <1>1 DEF WriteScript, SharedInv
  <2>3. Agrees(disk[t], disk'[t])
    BY <2>2 DEF SharedInv, StoryState, Agrees, Evidence
  <2>4. QED
    BY <1>1, <2>1, <2>3, AgreesItself DEF WriteScript, EnvironmentStep
<1>2. CASE RemoveStaleLock \/ UNCHANGED vars
  BY <1>2, AgreesItself DEF RemoveStaleLock, vars, EnvironmentStep
<1>3. QED
  BY <1>1, <1>2

\* Every action keeps the copies current.
LEMMA CopyStep ==
    ASSUME LocalInv, SharedInv, MutexContext, CopyInv, [Next]_vars
    PROVE  CopyInv'
<1>1. ASSUME NEW p \in Proc, Start(p) PROVE CopyInv'
  <2>1. Goto(p, "starting") /\ Frame(p) /\ UNCHANGED disk
    BY <1>1 DEF Start, Goto, Frame, LocalInv
  <2>2. QED
    BY <2>1, DropsCopy DEF CopyLabels
<1>2. ASSUME NEW p \in Proc, Enter(p) PROVE CopyInv'
  <2>1. /\ \E l \in {"idle", "entered"} : Goto(p, l)
        /\ Frame(p) /\ UNCHANGED disk
    BY <1>2 DEF Enter, CommandConfigError, AcquireLock, LockedOut, Gone, Goto, Frame, LocalInv
  <2>2. QED
    BY <2>1, DropsCopy DEF CopyLabels
<1>3. ASSUME NEW p \in Proc, Load(p) PROVE CopyInv'
  <2>1. PICK s \in Stories :
           job' = [job EXCEPT ![p].story = s] /\ mem' = [mem EXCEPT ![p] = disk[s]]
    BY <1>3 DEF Load, Remember
  <2>2. PICK l \in {"choosing", "running"} : pc' = [pc EXCEPT ![p] = l]
    BY <1>3 DEF Load, Goto
  <2>3. /\ Story(p)' = s /\ mem'[p] = disk[s] /\ UNCHANGED disk
        /\ pc'[p] \in {"choosing", "running"} /\ Frame(p)
    BY <1>3, <2>1, <2>2 DEF LocalInv, JobType, Story, Frame, Load
  <2>4. CopyOK(p)'
    BY <2>3, AgreesItself, AgreementExtends DEF CopyOK, SharedInv
  <2>5. QED
    BY <2>3, <2>4, BystandersKeep DEF CopyInv
<1>4. ASSUME NEW p \in Proc, ResumeStage(p) PROVE CopyInv'
  <2>1. PICK st \in Stages : job' = [job EXCEPT ![p].stage = st]
    BY <1>4, StageTypes DEF ResumeStage
  <2>2. /\ pc[p] = "choosing" /\ pc'[p] = "running" /\ UNCHANGED <<disk, mem>>
        /\ Story(p)' = Story(p) /\ Frame(p)
    BY <1>4, <2>1 DEF ResumeStage, At, Goto, LocalInv, JobType, Story, Frame
  <2>3. Agrees(disk[Story(p)], mem[p]) /\ mem[p] \in StoryState
    BY <2>2, CopyFacts DEF CopyInv, CopyOK, CopyLabels
  <2>4. CopyOK(p)'
    BY <2>2, <2>3, AgreementExtends DEF CopyOK, Story
  <2>5. QED
    BY <2>2, <2>4, BystandersKeep DEF CopyInv
<1>5. ASSUME NEW p \in Proc, ResumeBoundary(p) \/ ResumeComplete(p) PROVE CopyInv'
  <2>1. PICK l \in {"boundary", "reporting"} : Goto(p, l)
    BY <1>5 DEF ResumeBoundary, ResumeComplete
  <2>2. pc[p] = "choosing" /\ pc'[p] = l /\ UNCHANGED <<disk, mem, job>> /\ Frame(p)
    BY <1>5, <2>1 DEF ResumeBoundary, ResumeComplete, At, Goto, LocalInv, Frame
  <2>3. Agrees(disk[Story(p)], mem[p]) /\ mem[p] \in StoryState
    BY <2>2, CopyFacts DEF CopyInv, CopyOK, CopyLabels
  <2>4. CopyOK(p)'
    BY <2>2, <2>3, AgreementExtends DEF CopyOK, Story, Stage
  <2>5. QED
    BY <2>2, <2>4, BystandersKeep DEF CopyInv
<1>6. ASSUME NEW p \in Proc, LoadFails(p) \/ ResumeConfigError(p) PROVE CopyInv'
  <2>1. Goto(p, "closing") /\ Frame(p) /\ UNCHANGED disk
    BY <1>6 DEF LoadFails, ResumeConfigError, Goto, Frame, LocalInv
  <2>2. QED
    BY <2>1, DropsCopy DEF CopyLabels
<1>7. ASSUME NEW p \in Proc, RunStage(p) PROVE CopyInv'
  <2>1. /\ pc[p] \in {"running", "calling", "packaging"} /\ pc[p] \in CopyLabels
        /\ Stage(p) \in Stages /\ Story(p) \in Stories /\ Dry(p) \in BOOLEAN
        /\ mem[p] \in StoryState /\ disk[Story(p)] \in StoryState
        /\ Extends(disk[Story(p)], mem[p], Stage(p))
        /\ UNCHANGED <<disk, job>>
    <3>1. pc[p] \in {"running", "calling", "packaging"} /\ UNCHANGED <<disk, job>>
      BY <1>7 DEF RunStage, SkipDone, BudgetExhausted, RunWithoutAdapter, StageRefused,
                  AdapterNotConfigured, CallAdapter, AdapterFails, AdapterReturns, BeginPackage,
                  PackageFails, FinishPackage, AudioMismatch, MayAttempt, At
    <3>2. QED
      BY <3>1, CopyFacts DEF CopyLabels
  <2>2. pc[p] = "running" =>
          /\ Agrees(disk[Story(p)], mem[p])
          /\ Attempted(p) \in StoryState \/ Exhausted(p)
          /\ Extends(disk[Story(p)], Attempted(p), Stage(p))
          /\ Attempted(p).stages[Stage(p)].status = "running"
    <3> SUFFICES ASSUME pc[p] = "running"
        PROVE /\ Agrees(disk[Story(p)], mem[p])
              /\ Attempted(p) \in StoryState \/ Exhausted(p)
              /\ Extends(disk[Story(p)], Attempted(p), Stage(p))
              /\ Attempted(p).stages[Stage(p)].status = "running"
      OBVIOUS
    <3>1. Agrees(disk[Story(p)], mem[p])
      BY <2>1, CopyFacts DEF CopyInv, CopyOK
    <3>2. Attempted(p) \in StoryState \/ Exhausted(p)
      BY <2>1, BeginAttemptType DEF Attempted, Exhausted
    <3>3. QED
      BY <2>1, <3>1, <3>2, BeginAttemptExtends, AgreementExtends DEF Attempted
  <2>3. CASE SkipDone(p)
    <3>1. Goto(p, "saving") /\ UNCHANGED mem /\ Frame(p) /\ "saving" \in CopyLabels
      BY <2>3 DEF SkipDone, Goto, Frame, LocalInv, CopyLabels
    <3>2. QED
      BY <2>1, <3>1, WorksOnCopy
  <2>4. CASE BudgetExhausted(p) \/ AdapterFails(p) \/ PackageFails(p)
    <3>1. Raise(p, mem[p], "SUBPROCESS")
      BY <2>4 DEF BudgetExhausted, AdapterFails, PackageFails
    <3>2. QED
      BY <2>1, <3>1, RaiseKeepsCopy
  <2>5. CASE StageRefused(p) \/ AdapterNotConfigured(p)
    <3>1. /\ pc[p] = "running" /\ ~Exhausted(p)
          /\ \E c \in ExitCodes : Raise(p, Attempted(p), c)
      BY <2>5 DEF StageRefused, AdapterNotConfigured, MayAttempt, At, ExitCodes
    <3>2. QED
      BY <2>1, <2>2, <3>1, RaiseKeepsCopy
  <2>6. CASE AudioMismatch(p)
    <3> DEFINE m == [mem[p] EXCEPT !.artifacts = @ \cup {"package_dir"}]
    <3>1. m \in StoryState /\ Revises(mem[p], m, Stage(p))
      BY <2>1 DEF StoryState, Artifacts, Revises
    <3>2. Raise(p, m, "SUBPROCESS")
      BY <2>6 DEF AudioMismatch
    <3> HIDE DEF m
    <3>3. QED
      BY <2>1, <3>1, <3>2, RevisionExtends, RaiseKeepsCopy
  <2>7. CASE RunWithoutAdapter(p)
    <3> DEFINE status == IF Dry(p) THEN "dry_run" ELSE "done"
               m == SetStatus(Attempted(p), Stage(p), status)
    <3>1. pc[p] = "running" /\ ~Exhausted(p)
      BY <2>7 DEF RunWithoutAdapter, MayAttempt, At
    <3>2. Extends(disk[Story(p)], m, Stage(p))
      BY <2>1, <2>2, <3>1, SetStatusRevises, RevisionExtends DEF Statuses
    <3>3. /\ Goto(p, "saving") /\ mem'[p] = m /\ Frame(p) /\ "saving" \in CopyLabels
      BY <2>7 DEF RunWithoutAdapter, Remember, Goto, Frame, LocalInv, CopyLabels
    <3> HIDE DEF m
    <3>4. QED
      BY <2>1, <3>2, <3>3, WorksOnCopy
  <2>8. CASE CallAdapter(p)
    <3>1. /\ pc[p] = "running" /\ ~Exhausted(p) /\ ~IsDone(p)
          /\ Goto(p, "calling") /\ mem'[p] = Attempted(p) /\ Frame(p)
      BY <2>8 DEF CallAdapter, MayAttempt, At, Remember, Goto, Frame, LocalInv
    <3>2. disk[Story(p)].stages[Stage(p)].status # "done"
      BY <2>2, <3>1 DEF IsDone, Agrees
    <3>3. "calling" \in CopyLabels
      BY DEF CopyLabels
    <3>4. QED
      BY <2>1, <2>2, <3>1, <3>2, <3>3, WorksOnCopy
  <2>9. CASE AdapterReturns(p) \/ FinishPackage(p)
    <3>1. PICK a \in SUBSET Artifacts : Succeed(p, a)
      BY <2>9 DEF AdapterReturns, FinishPackage, Artifacts
    <3>2. /\ Goto(p, "saving") /\ mem'[p] = MarkDone(mem[p], Stage(p), a) /\ Frame(p)
          /\ "saving" \in CopyLabels
      BY <2>1, <3>1 DEF Succeed, Remember, Goto, Frame, LocalInv, CopyLabels
    <3>3. Extends(disk[Story(p)], MarkDone(mem[p], Stage(p), a), Stage(p))
      BY <2>1, MarkDoneRevises, RevisionExtends
    <3>4. QED
      BY <2>1, <3>2, <3>3, WorksOnCopy
  <2>10. CASE BeginPackage(p)
    <3>1. /\ pc[p] = "calling" /\ Goto(p, "packaging") /\ UNCHANGED mem /\ Frame(p)
          /\ "packaging" \in CopyLabels
      BY <2>10 DEF BeginPackage, At, Goto, Frame, LocalInv, CopyLabels
    <3>2. /\ mem[p].stages[Stage(p)].status = "running"
          /\ disk[Story(p)].stages[Stage(p)].status # "done"
      BY <2>1, <3>1, CopyFacts DEF CopyInv, CopyOK
    <3>3. QED
      BY <2>1, <3>1, <3>2, WorksOnCopy
  <2>11. QED
    BY <1>7, <2>3, <2>4, <2>5, <2>6, <2>7, <2>8, <2>9, <2>10 DEF RunStage
<1>8. ASSUME NEW p \in Proc, Save(p) PROVE CopyInv'
  <2>1. /\ pc[p] \in CopyLabels /\ pc'[p] = "reporting" /\ UNCHANGED <<mem, job>> /\ Frame(p)
        /\ disk' = [disk EXCEPT ![Story(p)] = mem[p]]
    BY <1>8 DEF Save, CopyLabels, Goto, WriteState, LocalInv, Frame
  <2>2. InCriticalSection(p) /\ disk'[Story(p)] = mem[p] /\ mem[p] \in StoryState
    BY <2>1, CopyFacts DEF SharedInv
  <2>3. CopyOK(p)'
    BY <2>1, <2>2, AgreesItself, AgreementExtends DEF CopyOK, Story, Stage
  <2>4. QED
    BY <2>1, <2>2, <2>3, BystandersKeep DEF CopyInv
<1>9. ASSUME NEW p \in Proc, Report(p) \/ SaveFailure(p) \/ Release(p) PROVE CopyInv'
  <2>1. InCriticalSection(p)
    BY <1>9 DEF Report, SaveFailure, Release, At, InCriticalSection, InLock
  <2>2. /\ \E l \in {"closing", "idle"} : Goto(p, l)
        /\ Frame(p)
    BY <1>9 DEF Report, SaveFailure, Release, Gone, Goto, Frame, LocalInv
  <2>3. QED
    BY <2>1, <2>2, DropsCopy DEF CopyLabels
<1>10. ASSUME NEW p \in Proc, SaveFails(p) PROVE CopyInv'
  <2>1. pc[p] = "saving" /\ UNCHANGED <<disk, job>> /\ Raise(p, mem[p], "SUBPROCESS")
    BY <1>10 DEF SaveFails, At
  <2>2. QED
    BY <2>1, CopyFacts, RaiseKeepsCopy DEF CopyLabels
<1>11. ASSUME NEW p \in Proc, ReportFails(p) PROVE CopyInv'
  <2>1. CASE job[p].cmd = "resume"
    <3>1. Goto(p, "closing") /\ Frame(p) /\ UNCHANGED disk
      BY <1>11, <2>1 DEF ReportFails, Goto, Frame, LocalInv
    <3>2. QED
      BY <3>1, DropsCopy DEF CopyLabels
  <2>2. CASE job[p].cmd # "resume"
    <3>1. pc[p] = "reporting" /\ UNCHANGED <<disk, job>> /\ Raise(p, mem[p], "SUBPROCESS")
      BY <1>11, <2>2 DEF ReportFails, At
    <3>2. Stage(p) \in Stages
      BY <2>2, <3>1 DEF LocalInv, JobOK, At
    <3>3. QED
      BY <3>1, <3>2, CopyFacts, RaiseKeepsCopy DEF CopyLabels
  <2>3. QED
    BY <2>1, <2>2
<1>12. ASSUME NEW p \in Proc,
              LockWriteFails(p) \/ BoundarySaveFails(p) \/ SaveFailureFails(p)
                \/ Crash(p) \/ Interrupt(p)
       PROVE  CopyInv'
  <2>1. /\ \E l \in {"closing", "idle"} : Goto(p, l)
        /\ Frame(p) /\ UNCHANGED disk
    BY <1>12 DEF LockWriteFails, BoundarySaveFails, SaveFailureFails, Crash, Interrupt, Gone,
                 Goto, Frame, LocalInv
  <2>2. QED
    BY <2>1, DropsCopy DEF CopyLabels
<1>13. CASE EnvironmentStep
  <2>1. SUFFICES ASSUME NEW q \in Proc, HasCopy(q) PROVE CopyOK(q)'
    BY <1>13 DEF EnvironmentStep, CopyInv, CopyOK, HasCopy, InCriticalSection, At
  <2>2. Story(q) \in Stories /\ Agrees(disk[Story(q)], disk'[Story(q)])
    BY <1>13, <2>1 DEF EnvironmentStep, HasCopy, InCriticalSection, At, LocalInv, JobOK
  <2>3. disk'[Story(q)].stages = disk[Story(q)].stages
    BY <2>2 DEF Agrees
  <2>4. QED
    BY <1>13, <2>1, <2>2, <2>3, ExtendsAgreeing DEF EnvironmentStep, CopyInv, CopyOK, Story, Stage
<1>14. CASE RemoveStaleLock \/ UNCHANGED vars \/ \E s \in Stories : WriteScript(s)
  BY <1>13, <1>14, EnvironmentActs
<1>15. QED
  BY <1>1, <1>2, <1>3, <1>4, <1>5, <1>6, <1>7, <1>8, <1>9, <1>10, <1>11, <1>12, <1>13, <1>14
     DEF Next, Step, Enter, Choose, Finish, Fail

\* Copies are current in every behaviour.
LEMMA CopyInvariant == Spec => []CopyInv
<1>1. Init => CopyInv
  BY DEF Init, CopyInv, CopyOK, HasCopy, InCriticalSection, InLock
<1>2. TypeInv /\ MutualExclusion /\ CopyInv /\ [Next]_vars => CopyInv'
  BY CopyStep DEF TypeInv, LocalInv, MutexContext
<1>3. QED
  BY <1>1, <1>2, TypeInvariant, MutualExclusionHolds, PTL DEF Spec

\* The records and the evidence in an invocation's copy are never out of date, though
\* Wispr may store a script beside it: when the copy is written back, it overwrites
\* nothing another invocation recorded (cli.py: load, run_stage, save).
THEOREM CopyIsCurrentHolds == Spec => []CopyIsCurrent
<1>1. CopyInv => CopyIsCurrent
  BY DEF CopyInv, CopyOK, CopyIsCurrent, Extends
<1>2. QED
  BY <1>1, CopyInvariant, PTL

\* Only the two saves of an invocation and Wispr write state files.
LEMMA WritersOfState ==
    ASSUME [Next]_vars
    PROVE  \/ UNCHANGED disk
           \/ \E p \in Proc : Save(p) \/ SaveFailure(p)
           \/ \E t \in Stories : WriteScript(t)
<1>1. ASSUME NEW p \in Proc, RunStage(p) PROVE UNCHANGED disk
  BY <1>1 DEF RunStage, SkipDone, BudgetExhausted, RunWithoutAdapter, StageRefused,
              AdapterNotConfigured, CallAdapter, AdapterFails, AdapterReturns, BeginPackage,
              PackageFails, FinishPackage, AudioMismatch
<1>2. ASSUME NEW p \in Proc,
             Start(p) \/ Enter(p) \/ Choose(p) \/ Report(p) \/ Release(p) \/ Fail(p)
      PROVE  UNCHANGED disk
  BY <1>2 DEF Start, Enter, CommandConfigError, AcquireLock, LockedOut, Choose, Load, LoadFails,
              ResumeStage, ResumeConfigError, ResumeBoundary, ResumeComplete, Report, Release,
              Fail, LockWriteFails, SaveFails, BoundarySaveFails, ReportFails, SaveFailureFails,
              Crash, Interrupt
<1>3. ASSUME RemoveStaleLock \/ UNCHANGED vars PROVE UNCHANGED disk
  BY <1>3 DEF RemoveStaleLock, vars
<1>4. QED
  BY <1>1, <1>2, <1>3 DEF Next, Step, Finish

\* Whatever is written to a state file extends it.
LEMMA StateFileGrows ==
    ASSUME LocalInv, SharedInv, CopyInv, [Next]_vars, NEW s \in Stories, disk'[s] # disk[s]
    PROVE  \E st : Extends(disk[s], disk'[s], st)
<1>1. ASSUME NEW p \in Proc, Save(p) \/ SaveFailure(p)
      PROVE  \E st : Extends(disk[s], disk'[s], st)
  <2>1. pc[p] \in CopyLabels /\ disk' = [disk EXCEPT ![Story(p)] = mem[p]]
    BY <1>1 DEF Save, SaveFailure, WriteState, CopyLabels, At
  <2>2. Extends(disk[Story(p)], mem[p], Stage(p)) /\ Story(p) \in Stories
    BY <2>1, CopyFacts
  <2>3. s = Story(p) /\ disk'[s] = mem[p]
    BY <2>1, <2>2 DEF SharedInv
  <2>4. QED
    BY <2>2, <2>3
<1>2. ASSUME NEW t \in Stories, WriteScript(t)
      PROVE  \E st : Extends(disk[s], disk'[s], st)
  <2>1. s = t /\ disk'[s] = [disk[s] EXCEPT !.artifacts = @ \cup {"wispr_final_script"}]
    BY <1>2 DEF WriteScript, SharedInv
  <2>2. disk'[s].stages = disk[s].stages /\ disk[s].artifacts \subseteq disk'[s].artifacts
    BY <2>1 DEF SharedInv, StoryState
  <2>3. Extends(disk[s], disk'[s], "none")
    BY <2>2 DEF Extends, SharedInv, StoryState, StageRecord
  <2>4. QED
    BY <2>3
<1>3. QED
  BY <1>1, <1>2, WritersOfState

\* State files only move on: no attempt is taken back, no evidence of a stage is lost,
\* and one write touches one stage, whatever is killed or fails in between (state.py:
\* save of a copy loaded earlier).
THEOREM RecordsGrow == Spec => RecordsOnlyGrow
<1> DEFINE Grows ==
      \A s \in Stories :
         /\ \A st \in Stages : disk'[s].stages[st].attempts >= disk[s].stages[st].attempts
         /\ disk[s].artifacts \cap Evidence \subseteq disk'[s].artifacts
         /\ \A a, b \in Stages :
              disk'[s].stages[a] # disk[s].stages[a] /\ disk'[s].stages[b] # disk[s].stages[b]
                  => a = b
<1>1. ASSUME TypeInv, TypeInv', CopyInv, [Next]_vars PROVE Grows
  <2>1. \A s \in Stories, st \in Stages : disk[s].stages[st].attempts \in Nat
    BY <1>1, BudgetAssumption DEF TypeInv, SharedInv, StoryState, StageRecord
  <2>2. SUFFICES ASSUME NEW s \in Stories, disk'[s] # disk[s]
        PROVE /\ \A st \in Stages : disk'[s].stages[st].attempts >= disk[s].stages[st].attempts
              /\ disk[s].artifacts \cap Evidence \subseteq disk'[s].artifacts
              /\ \A a, b \in Stages :
                   disk'[s].stages[a] # disk[s].stages[a] /\ disk'[s].stages[b] # disk[s].stages[b]
                       => a = b
    BY <2>1
  <2>3. PICK st : Extends(disk[s], disk'[s], st)
    BY <1>1, <2>2, StateFileGrows DEF TypeInv
  <2>4. QED
    BY <2>1, <2>3 DEF Extends
<1>2. TypeInv /\ TypeInv' /\ CopyInv /\ [Next]_vars => [Grows]_vars
  BY <1>1
<1>3. QED
  BY <1>2, TypeInvariant, CopyInvariant, PTL DEF Spec, RecordsOnlyGrow


(***************************************************************************)
(* Whoever moves, moves alone.                                             *)
(***************************************************************************)
Bystanders(p) ==
    /\ Frame(p) /\ \A q \in Proc \ {p} : code'[q] = code[q]
    /\ UNCHANGED disk \/ (InCriticalSection(p) /\ disk' = [disk EXCEPT ![Story(p)] = mem[p]])

LEMMA SomebodyMoves ==
    ASSUME LocalInv, SharedInv, [Next]_vars
    PROVE  \/ \E p \in Proc : (Start(p) \/ Step(p) \/ Fail(p)) /\ Bystanders(p)
           \/ EnvironmentStep
<1>1. ASSUME NEW p \in Proc, Start(p) \/ Enter(p) \/ Choose(p) PROVE Bystanders(p)
  BY <1>1 DEF Start, Enter, CommandConfigError, AcquireLock, LockedOut, Choose, Load, LoadFails,
     ResumeStage, ResumeConfigError, ResumeBoundary, ResumeComplete, Gone, Goto, Remember, ExitCode,
     Bystanders, Frame, LocalInv
<1>2. ASSUME NEW p \in Proc, RunStage(p) PROVE Bystanders(p)
  BY <1>2 DEF RunStage, SkipDone, BudgetExhausted, RunWithoutAdapter, StageRefused,
     AdapterNotConfigured, CallAdapter, AdapterFails, AdapterReturns, BeginPackage, PackageFails,
     FinishPackage, AudioMismatch, Raise, Succeed, Goto, Remember, ExitCode, Bystanders, Frame,
     LocalInv
<1>3. ASSUME NEW p \in Proc, Finish(p) PROVE Bystanders(p)
  BY <1>3 DEF Finish, Save, Report, SaveFailure, Release, WriteState, Gone, Goto, ExitCode,
     Bystanders, Frame, LocalInv, InCriticalSection, InLock, At
<1>4. ASSUME NEW p \in Proc, Fail(p) PROVE Bystanders(p)
  BY <1>4 DEF Fail, LockWriteFails, SaveFails, BoundarySaveFails, ReportFails, SaveFailureFails,
     Crash, Interrupt, Raise, Gone, Goto, Remember, ExitCode, Bystanders, Frame, LocalInv
<1>5. QED
  BY <1>1, <1>2, <1>3, <1>4, EnvironmentActs DEF Next, Step

(***************************************************************************)
(* Attempts are not spent on a notebook stage that is not configured.      *)
(***************************************************************************)
Unconfigured == NotebookStages \ Configured
Unspent(m) == \A st \in Unconfigured : m.stages[st].attempts = 0

\* Whoever is inside with such a stage is simulating.
Rehearses(p) ==
    /\ pc[p] \in InLock /\ Stage(p) \in Unconfigured => Dry(p)
    /\ pc[p] = "starting" /\ job[p].cmd = "resume" => Stage(p) = "none"
BudgetInv ==
    /\ \A s \in Stories : Unspent(disk[s])
    /\ \A p \in Proc : Unspent(mem[p]) /\ Rehearses(p)

LEMMA UnspentStates ==
    /\ Unspent(FreshState)
    /\ \A m, n \in StoryState, st \in Stages : Unspent(m) /\ Revises(m, n, st) => Unspent(n)
    /\ \A m \in StoryState, st \in Stages, dry \in BOOLEAN :
         Unspent(m) /\ (st \in Unconfigured => dry) => Unspent(BeginAttempt(m, st, dry))
<1>1. Unconfigured \subseteq Stages
  BY StageTypes DEF Unconfigured
<1>2. Unspent(FreshState)
  BY <1>1 DEF Unspent, FreshState, PendingRecord
<1>3. ASSUME NEW m \in StoryState, NEW n \in StoryState, NEW st \in Stages, Unspent(m),
             Revises(m, n, st)
      PROVE  Unspent(n)
  BY <1>1, <1>3 DEF Unspent, Revises
<1>4. ASSUME NEW m \in StoryState, NEW st \in Stages, NEW dry \in BOOLEAN, Unspent(m),
             st \in Unconfigured => dry
      PROVE  Unspent(BeginAttempt(m, st, dry))
  BY <1>1, <1>4 DEF Unspent, BeginAttempt, StoryState, StageRecord
<1>5. QED
  BY <1>2, <1>3, <1>4

\* Running a stage spends nothing of an unconfigured one.
LEMMA RunsUnspent ==
    ASSUME LocalInv, BudgetInv, NEW p \in Proc, RunStage(p)
    PROVE  Unspent(mem'[p]) /\ job' = job /\ pc[p] \in InLock
<1> DEFINE st == Stage(p)
<1>1. pc[p] \in {"running", "calling", "packaging"} /\ job' = job
  BY DEF RunStage, SkipDone, BudgetExhausted, RunWithoutAdapter, StageRefused,
     AdapterNotConfigured, CallAdapter, AdapterFails, AdapterReturns, BeginPackage, PackageFails,
     FinishPackage, AudioMismatch, MayAttempt, At
<1>2. /\ st \in Stages /\ mem[p] \in StoryState /\ Dry(p) \in BOOLEAN /\ pc[p] \in InLock
      /\ Unspent(mem[p]) /\ (st \in Unconfigured => Dry(p))
  <2>1. job[p] \in JobType
    BY DEF LocalInv
  <2>2. QED
    BY <1>1, <2>1 DEF LocalInv, JobOK, InLock, JobType, Dry, BudgetInv, Rehearses
<1>3. ~Exhausted(p) => Attempted(p) \in StoryState /\ Unspent(Attempted(p))
  BY <1>2, BeginAttemptType, UnspentStates DEF Attempted, Exhausted
<1>4. ASSUME NEW m \in StoryState, Unspent(m), NEW status \in Statuses
      PROVE  Unspent(SetStatus(m, st, status))
  BY <1>2, <1>4, SetStatusRevises, SetStatusType, UnspentStates
<1>5. CASE UNCHANGED mem
  BY <1>1, <1>2, <1>5
<1>6. ASSUME NEW m \in StoryState, NEW c, Raise(p, m, c), Unspent(m) PROVE Unspent(mem'[p])
  BY <1>4, <1>6 DEF Raise, Remember, LocalInv, Statuses
<1>7. CASE BudgetExhausted(p) \/ AdapterFails(p) \/ PackageFails(p)
  BY <1>1, <1>2, <1>6, <1>7 DEF BudgetExhausted, AdapterFails, PackageFails
<1>8. CASE StageRefused(p) \/ AdapterNotConfigured(p)
  BY <1>1, <1>2, <1>3, <1>6, <1>8 DEF StageRefused, AdapterNotConfigured, MayAttempt
<1>9. CASE CallAdapter(p)
  BY <1>1, <1>2, <1>3, <1>9 DEF CallAdapter, MayAttempt, Remember, LocalInv
<1>10. CASE RunWithoutAdapter(p)
  <2>1. mem'[p] = SetStatus(Attempted(p), st, IF Dry(p) THEN "dry_run" ELSE "done") /\ ~Exhausted(p)
    BY <1>10 DEF RunWithoutAdapter, Remember, LocalInv, MayAttempt
  <2>2. QED
    BY <1>1, <1>2, <1>3, <1>4, <2>1 DEF Statuses
<1>11. CASE AudioMismatch(p)
  <2> DEFINE m == [mem[p] EXCEPT !.artifacts = @ \cup {"package_dir"}]
  <2>1. m \in StoryState /\ Unspent(m)
    BY <1>2 DEF StoryState, Artifacts, Unspent
  <2>2. Raise(p, m, "SUBPROCESS")
    BY <1>11 DEF AudioMismatch
  <2> HIDE DEF m
  <2>3. QED
    BY <1>1, <1>2, <1>6, <2>1, <2>2
<1>12. CASE AdapterReturns(p) \/ FinishPackage(p)
  <2>1. PICK a \in SUBSET Artifacts : Succeed(p, a)
    BY <1>12 DEF AdapterReturns, FinishPackage, Artifacts
  <2>2. mem'[p] = MarkDone(mem[p], st, a)
    BY <2>1 DEF Succeed, Remember, LocalInv
  <2>3. QED
    BY <1>1, <1>2, <2>2, MarkDoneRevises, MarkDoneType, UnspentStates
<1>13. QED
  BY <1>5, <1>7, <1>8, <1>9, <1>10, <1>11, <1>12 DEF RunStage, SkipDone, BeginPackage

\* Only an idle process starts.
LEMMA StartsOnce ==
    ASSUME LocalInv, NEW p \in Proc, Step(p) \/ Fail(p)
    PROVE  pc'[p] # "starting"
<1>1. CASE Enter(p) \/ Choose(p) \/ Finish(p) \/ Fail(p)
  BY <1>1 DEF Enter, CommandConfigError, AcquireLock, LockedOut, Choose, Load, LoadFails,
     ResumeStage, ResumeConfigError, ResumeBoundary, ResumeComplete, Finish, Save, Report,
     SaveFailure, Release, Fail, LockWriteFails, SaveFails, BoundarySaveFails, ReportFails,
     SaveFailureFails, Crash, Interrupt, Raise, Gone, Goto, LocalInv
<1>2. CASE RunStage(p)
  BY <1>2 DEF RunStage, SkipDone, BudgetExhausted, RunWithoutAdapter, StageRefused,
     AdapterNotConfigured, CallAdapter, AdapterFails, AdapterReturns, BeginPackage, PackageFails,
     FinishPackage, AudioMismatch, Raise, Succeed, Goto, LocalInv
<1>3. QED
  BY <1>1, <1>2 DEF Step

\* So does everything else a process does.
LEMMA MovesUnspent ==
    ASSUME LocalInv, SharedInv, BudgetInv, NEW p \in Proc, Start(p) \/ Step(p) \/ Fail(p)
    PROVE  Unspent(mem'[p]) /\ Rehearses(p)'
<1>1. /\ Unspent(mem[p]) /\ Unspent(FreshState) /\ job[p] \in JobType /\ mem[p] \in StoryState
      /\ pc[p] \in InLock /\ Stage(p) \in Unconfigured => Dry(p)
  BY UnspentStates DEF BudgetInv, LocalInv, Rehearses
<1>2. CASE RunStage(p)
  BY <1>1, <1>2, RunsUnspent, StartsOnce DEF Step, Rehearses, Stage, Dry
<1>3. CASE Gone(p)
  BY <1>1, <1>3 DEF Gone, Goto, Rehearses, InLock, LocalInv
<1>4. CASE Start(p)
  <2>1. PICK r \in Requests :
           job' = [job EXCEPT ![p] =
              [cmd |-> r.cmd, story |-> r.story, dry |-> r.dry,
               stage |-> IF r.cmd = "resume" THEN "none" ELSE r.cmd]]
    BY <1>4 DEF Start
  <2>2. mem' = mem /\ pc'[p] = "starting" /\ (job'[p].cmd = "resume" => job'[p].stage = "none")
    BY <1>4, <2>1 DEF Start, Goto, LocalInv
  <2>3. QED
    BY <1>1, <2>2 DEF Rehearses, InLock, Stage
<1>5. CASE AcquireLock(p)
  <2>1. UNCHANGED <<mem, job>> /\ MayLock(p)
    BY <1>5 DEF AcquireLock
  <2>2. Stage(p) \in Unconfigured => Dry(p)
    BY <1>1, <2>1, PlatformsAssumption DEF MayLock, ConfigRejects, Unconfigured, NotebookStages, At,
       BudgetInv, Rehearses
  <2>3. pc'[p] # "starting"
    BY <1>5, StartsOnce DEF Step, Enter
  <2>4. QED
    BY <1>1, <2>1, <2>2, <2>3 DEF Rehearses, Stage, Dry
<1>6. CASE Load(p)
  <2>1. PICK s \in Stories : job' = [job EXCEPT ![p].story = s] /\ mem' = [mem EXCEPT ![p] = disk[s]]
    BY <1>6 DEF Load, Remember
  <2>2. /\ mem'[p] = disk[s] /\ Unspent(disk[s])
        /\ Stage(p)' = Stage(p) /\ Dry(p)' = Dry(p) /\ pc[p] \in InLock
    BY <1>1, <1>6, <2>1 DEF LocalInv, Load, At, InLock, BudgetInv, JobType, Stage, Dry
  <2>3. QED
    BY <1>1, <1>6, <2>2, StartsOnce DEF Step, Choose, Rehearses
<1>7. CASE ResumeStage(p)
  <2>1. PICK i \in DOMAIN STAGES : ~ConfigRejects(STAGES[i], Dry(p)) /\ job' = [job EXCEPT ![p].stage = STAGES[i]]
    BY <1>7 DEF ResumeStage
  <2>2. mem' = mem /\ Stage(p)' = STAGES[i] /\ Dry(p)' = Dry(p)
    BY <1>1, <1>7, <2>1 DEF ResumeStage, LocalInv, JobType, Stage, Dry
  <2>3. QED
    BY <1>1, <1>7, <2>1, <2>2, StartsOnce DEF Step, Choose, Rehearses, ConfigRejects, Unconfigured
<1>8. CASE SaveFails(p) \/ ReportFails(p)
  <2>1. job' = job /\ pc[p] \in {"saving", "reporting"}
    BY <1>8 DEF SaveFails, ReportFails, At
  <2>2. Rehearses(p)'
    BY <1>1, <1>8, <2>1, StartsOnce DEF Fail, Rehearses, InLock, Stage, Dry
  <2>3. CASE UNCHANGED mem
    BY <1>1, <2>2, <2>3
  <2>4. CASE Raise(p, mem[p], "SUBPROCESS")
    <3>1. mem'[p] = SetStatus(mem[p], Stage(p), "failed")
      BY <2>4 DEF Raise, Remember, LocalInv
    <3>2. Unspent(SetStatus(mem[p], Stage(p), "failed"))
      BY <1>1, StageTypes DEF SetStatus, Unspent, Unconfigured, StoryState, StageRecord
    <3>3. QED
      BY <2>2, <3>1, <3>2
  <2>5. QED
    BY <1>8, <2>3, <2>4 DEF SaveFails, ReportFails
<1>9. CASE \/ LoadFails(p) \/ ResumeConfigError(p) \/ ResumeBoundary(p) \/ ResumeComplete(p)
           \/ Save(p) \/ Report(p) \/ SaveFailure(p) \/ BoundarySaveFails(p) \/ SaveFailureFails(p)
  <2>1. UNCHANGED <<mem, job>> /\ pc[p] \in InLock
    BY <1>9 DEF LoadFails, ResumeConfigError, ResumeBoundary, ResumeComplete, Save, Report,
       SaveFailure, BoundarySaveFails, SaveFailureFails, At, InLock
  <2>2. Step(p) \/ Fail(p)
    BY <1>9 DEF Step, Choose, Finish, Fail
  <2>3. QED
    BY <1>1, <2>1, <2>2, StartsOnce DEF Rehearses, Stage, Dry
<1>10. QED
  BY <1>2, <1>3, <1>4, <1>5, <1>6, <1>7, <1>8, <1>9
     DEF Step, Enter, Choose, Finish, Fail, CommandConfigError, LockedOut, LockWriteFails, Release,
         Crash, Interrupt

LEMMA BudgetInvStep ==
    ASSUME LocalInv, SharedInv, BudgetInv, [Next]_vars
    PROVE  BudgetInv'
<1>1. ASSUME NEW p \in Proc, Start(p) \/ Step(p) \/ Fail(p), Bystanders(p) PROVE BudgetInv'
  <2>1. \A q \in Proc \ {p} : Unspent(mem'[q]) /\ Rehearses(q)'
    BY <1>1 DEF Bystanders, Frame, BudgetInv, Rehearses, Stage, Dry
  <2>2. \A s \in Stories : Unspent(disk'[s])
    BY <1>1 DEF Bystanders, BudgetInv, SharedInv
  <2>3. QED
    BY <1>1, <2>1, <2>2, MovesUnspent DEF BudgetInv
<1>2. CASE EnvironmentStep
  BY <1>2 DEF EnvironmentStep, Agrees, BudgetInv, Unspent, Rehearses, Stage, Dry
<1>3. QED
  BY <1>1, <1>2, SomebodyMoves

\* A notebook stage whose worker is not configured never spends an attempt, whoever
\* asks for it and whatever fails (cli.py: command_stage, resume).
THEOREM NothingSpentUnconfigured == Spec => []NoBudgetWithoutWorker
<1>1. Init => BudgetInv
  BY UnspentStates DEF Init, BudgetInv, Rehearses, InLock
<1>2. TypeInv /\ BudgetInv /\ [Next]_vars => BudgetInv'
  BY BudgetInvStep DEF TypeInv
<1>3. BudgetInv => NoBudgetWithoutWorker
  BY DEF BudgetInv, Unspent, Unconfigured, NoBudgetWithoutWorker
<1>4. QED
  BY <1>1, <1>2, <1>3, TypeInvariant, PTL DEF Spec

(***************************************************************************)
(* What an invocation is about to return agrees with the file it leaves.   *)
(***************************************************************************)
RanInto(p, m) ==
    m.stages[Stage(p)].status \in {"done"} \cup (IF Dry(p) THEN {"dry_run"} ELSE {})

\* What the exit code will say is settled when the stage is, and stays with the
\* invocation until the lock is released.
Tells(p) ==
    /\ pc[p] \in {"idle", "starting", "entered"} => mem[p] = FreshState
    /\ pc[p] \in {"starting", "entered"} /\ job[p].cmd = "resume" => Stage(p) = "none"
    /\ pc[p] \in {"choosing", "boundary"} => Stage(p) = "none"
    /\ pc[p] = "saving" => RanInto(p, mem[p])
    /\ pc[p] = "reporting" /\ Stage(p) # "none" => RanInto(p, disk[Story(p)])
    /\ pc[p] = "failing" => mem[p].stages[Stage(p)].status = "failed" /\ code[p] # "OK"
    /\ pc[p] = "closing" /\ mem[p] # FreshState => Story(p) \in Stories
    /\ pc[p] = "closing" /\ mem[p] # FreshState /\ Stage(p) # "none" =>
          /\ code[p] = "OK" => RanInto(p, disk[Story(p)])
          /\ code[p] \in {"SUBPROCESS", "ADAPTER_NOT_CONFIGURED"} /\ faults = 0 =>
                disk[Story(p)].stages[Stage(p)].status = "failed"
TellsInv == \A p \in Proc : Tells(p)

LEMMA RunTells ==
    ASSUME LocalInv, NEW p \in Proc, RunStage(p)
    PROVE  Tells(p)'
<1>1. /\ pc[p] \in {"running", "calling", "packaging"} /\ job' = job
  BY DEF RunStage, SkipDone, BudgetExhausted, RunWithoutAdapter, StageRefused,
     AdapterNotConfigured, CallAdapter, AdapterFails, AdapterReturns, BeginPackage, PackageFails,
     FinishPackage, AudioMismatch, MayAttempt, At
<1>2. Stage(p) \in Stages /\ mem[p] \in StoryState /\ Dry(p) \in BOOLEAN
  <2>1. job[p] \in JobType
    BY DEF LocalInv
  <2>2. QED
    BY <1>1, <2>1 DEF LocalInv, JobOK, JobType, Dry
<1>3. ~Exhausted(p) => Attempted(p) \in StoryState
  BY <1>2, BeginAttemptType DEF Attempted, Exhausted
<1>4. ASSUME pc'[p] \in {"running", "calling", "packaging"} PROVE Tells(p)'
  BY <1>4 DEF Tells
<1>5. ASSUME pc'[p] = "saving", RanInto(p, mem'[p]) PROVE Tells(p)'
  BY <1>1, <1>5 DEF Tells, RanInto, Stage, Dry
<1>6. ASSUME NEW m \in StoryState, NEW c, c # "OK", Raise(p, m, c) PROVE Tells(p)'
  <2>1. /\ pc'[p] = "failing" /\ mem'[p] = SetStatus(m, Stage(p), "failed") /\ code'[p] = c
    BY <1>6 DEF Raise, Remember, ExitCode, Goto, LocalInv
  <2>2. SetStatus(m, Stage(p), "failed").stages[Stage(p)].status = "failed"
    BY <1>2, SetStatusRevises DEF Statuses
  <2>3. QED
    BY <1>1, <1>6, <2>1, <2>2 DEF Tells, Stage
<1>7. CASE SkipDone(p)
  <2>1. pc'[p] = "saving" /\ mem' = mem /\ mem[p].stages[Stage(p)].status = "done"
    BY <1>7 DEF SkipDone, Goto, IsDone, LocalInv
  <2>2. QED
    BY <1>5, <2>1 DEF RanInto
<1>8. CASE RunWithoutAdapter(p)
  <2> DEFINE m == SetStatus(Attempted(p), Stage(p), IF Dry(p) THEN "dry_run" ELSE "done")
  <2>1. pc'[p] = "saving" /\ mem'[p] = m /\ ~Exhausted(p)
    BY <1>8 DEF RunWithoutAdapter, Remember, Goto, LocalInv, MayAttempt
  <2>2. m.stages[Stage(p)].status = (IF Dry(p) THEN "dry_run" ELSE "done")
    BY <1>2, <1>3, <2>1, SetStatusRevises DEF Statuses
  <2>3. QED
    BY <1>5, <2>1, <2>2 DEF RanInto
<1>9. CASE AdapterReturns(p) \/ FinishPackage(p)
  <2>1. PICK a \in SUBSET Artifacts : Succeed(p, a)
    BY <1>9 DEF AdapterReturns, FinishPackage, Artifacts
  <2>2. pc'[p] = "saving" /\ mem'[p] = MarkDone(mem[p], Stage(p), a)
    BY <2>1 DEF Succeed, Remember, Goto, LocalInv
  <2>3. QED
    BY <1>2, <1>5, <2>2, MarkDoneRevises DEF RanInto
<1>10. CASE CallAdapter(p) \/ BeginPackage(p)
  BY <1>4, <1>10 DEF CallAdapter, BeginPackage, Goto, LocalInv
<1>11. CASE BudgetExhausted(p) \/ AdapterFails(p) \/ PackageFails(p)
  BY <1>2, <1>6, <1>11 DEF BudgetExhausted, AdapterFails, PackageFails
<1>12. CASE StageRefused(p) \/ AdapterNotConfigured(p)
  BY <1>3, <1>6, <1>12 DEF StageRefused, AdapterNotConfigured, MayAttempt
<1>13. CASE AudioMismatch(p)
  <2> DEFINE m == [mem[p] EXCEPT !.artifacts = @ \cup {"package_dir"}]
  <2>1. m \in StoryState
    BY <1>2 DEF StoryState, Artifacts
  <2>2. Raise(p, m, "SUBPROCESS")
    BY <1>13 DEF AudioMismatch
  <2> HIDE DEF m
  <2>3. QED
    BY <1>6, <2>1, <2>2
<1>14. QED
  BY <1>7, <1>8, <1>9, <1>10, <1>11, <1>12, <1>13 DEF RunStage

LEMMA MovesTell ==
    ASSUME LocalInv, SharedInv, NEW p \in Proc, Tells(p), Start(p) \/ Step(p) \/ Fail(p)
    PROVE  Tells(p)'
<1>1. /\ mem[p] \in StoryState /\ job[p] \in JobType
      /\ pc[p] \in {"choosing", "saving", "failing", "reporting", "boundary"} => Story(p) \in Stories
      /\ pc[p] = "saving" => Stage(p) \in Stages
  BY DEF LocalInv, JobOK, InLock
<1>2. CASE RunStage(p)
  BY <1>2, RunTells
<1>3. CASE Gone(p)
  BY <1>3 DEF Gone, Goto, Tells, LocalInv
<1>4. CASE Start(p)
  <2>1. PICK r \in Requests :
           job' = [job EXCEPT ![p] =
              [cmd |-> r.cmd, story |-> r.story, dry |-> r.dry,
               stage |-> IF r.cmd = "resume" THEN "none" ELSE r.cmd]]
    BY <1>4 DEF Start
  <2>2. /\ mem' = mem /\ pc[p] = "idle" /\ pc'[p] = "starting"
        /\ (job'[p].cmd = "resume" => job'[p].stage = "none")
    BY <1>4, <2>1 DEF Start, Goto, At, LocalInv
  <2>3. QED
    BY <2>2 DEF Tells, Stage
<1>5. CASE AcquireLock(p)
  BY <1>5 DEF AcquireLock, MayLock, At, Goto, Tells, Stage, LocalInv
<1>6. CASE Load(p)
  <2>1. PICK s \in Stories : job' = [job EXCEPT ![p].story = s]
    BY <1>6 DEF Load
  <2>2. Stage(p)' = Stage(p) /\ pc[p] = "entered"
        /\ pc'[p] = (IF job[p].cmd = "resume" THEN "choosing" ELSE "running")
    BY <1>1, <1>6, <2>1 DEF Load, At, Goto, LocalInv, JobType, Stage
  <2>3. QED
    BY <2>2 DEF Tells
<1>7. CASE LoadFails(p) \/ ResumeConfigError(p)
  <2>1. /\ UNCHANGED <<mem, job>> /\ pc'[p] = "closing"
        /\ pc[p] = "entered" \/ (pc[p] = "choosing" /\ code'[p] = "CONFIG")
    BY <1>7 DEF LoadFails, ResumeConfigError, At, Goto, ExitCode, LocalInv
  <2>2. QED
    BY <1>1, <2>1 DEF Tells, Stage, Story
<1>8. CASE ResumeStage(p)
  BY <1>8 DEF ResumeStage, Goto, Tells, LocalInv
<1>9. CASE ResumeBoundary(p) \/ ResumeComplete(p)
  <2>1. pc[p] = "choosing" /\ pc'[p] \in {"boundary", "reporting"} /\ job' = job
    BY <1>9 DEF ResumeBoundary, ResumeComplete, At, Goto, LocalInv
  <2>2. QED
    BY <2>1 DEF Tells, Stage
<1>10. CASE Save(p)
  <2>1. /\ pc[p] \in {"saving", "boundary"} /\ pc'[p] = "reporting" /\ job' = job
        /\ disk'[Story(p)] = mem[p]
    BY <1>1, <1>10 DEF Save, WriteState, Goto, LocalInv, SharedInv
  <2>2. QED
    BY <2>1 DEF Tells, RanInto, Stage, Story, Dry
<1>11. CASE Report(p)
  <2>1. /\ pc[p] = "reporting" /\ pc'[p] = "closing" /\ code'[p] = "OK"
        /\ UNCHANGED <<job, disk, mem>>
    BY <1>11 DEF Report, At, Goto, ExitCode, LocalInv
  <2>2. QED
    BY <1>1, <2>1 DEF Tells, RanInto, Stage, Story, Dry
<1>12. CASE SaveFailure(p)
  <2>1. /\ pc[p] = "failing" /\ pc'[p] = "closing" /\ UNCHANGED <<job, code, mem>>
        /\ disk'[Story(p)] = mem[p]
    BY <1>1, <1>12 DEF SaveFailure, WriteState, At, Goto, LocalInv, SharedInv
  <2>2. QED
    BY <1>1, <2>1 DEF Tells, Stage, Story
<1>13. ASSUME NEW kind, Fault(kind) PROVE faults' # 0
  BY <1>13, BudgetAssumption DEF Fault, SharedInv
<1>14. ASSUME Raise(p, mem[p], "SUBPROCESS"), Stage(p) \in Stages, job' = job PROVE Tells(p)'
  <2>1. /\ pc'[p] = "failing" /\ mem'[p] = SetStatus(mem[p], Stage(p), "failed")
        /\ code'[p] = "SUBPROCESS"
    BY <1>14 DEF Raise, Remember, ExitCode, Goto, LocalInv
  <2>2. SetStatus(mem[p], Stage(p), "failed").stages[Stage(p)].status = "failed"
    BY <1>1, <1>14, SetStatusRevises DEF Statuses
  <2>3. QED
    BY <1>14, <2>1, <2>2 DEF Tells, Stage
<1>15. CASE SaveFails(p)
  BY <1>1, <1>14, <1>15 DEF SaveFails, At
<1>16. ASSUME pc'[p] = "closing", code'[p] = "SUBPROCESS", faults' # 0, job' = job,
              Story(p) \in Stories
       PROVE  Tells(p)'
  BY <1>16 DEF Tells, Story
<1>17. CASE BoundarySaveFails(p) \/ SaveFailureFails(p)
  BY <1>1, <1>13, <1>16, <1>17 DEF BoundarySaveFails, SaveFailureFails, At, ExitCode, Goto, LocalInv
<1>18. CASE ReportFails(p)
  <2>1. faults' # 0 /\ job' = job /\ pc[p] = "reporting"
    BY <1>13, <1>18 DEF ReportFails, At
  <2>2. CASE job[p].cmd = "resume"
    BY <1>1, <1>16, <1>18, <2>1, <2>2 DEF ReportFails, ExitCode, Goto, LocalInv
  <2>3. CASE job[p].cmd # "resume"
    BY <1>14, <1>18, <2>1, <2>3 DEF ReportFails, At, LocalInv, JobOK
  <2>4. QED
    BY <2>2, <2>3
<1>19. QED
  BY <1>2, <1>3, <1>4, <1>5, <1>6, <1>7, <1>8, <1>9, <1>10, <1>11, <1>12, <1>15, <1>17, <1>18
     DEF Step, Enter, Choose, Finish, Fail, CommandConfigError, LockedOut, LockWriteFails, Release,
         Crash, Interrupt

\* Whoever holds the lock is the only one to write records, and faults stay counted.
LEMMA TellsInvStep ==
    ASSUME LocalInv, SharedInv, MutualExclusion, TellsInv, [Next]_vars
    PROVE  TellsInv'
<1>1. faults' = 0 => faults = 0
  <2>1. faults' = faults \/ faults' = faults + 1
    BY DEF Next, Start, Step, Enter, CommandConfigError, AcquireLock, LockedOut, Choose, Load,
       LoadFails, ResumeStage, ResumeConfigError, ResumeBoundary, ResumeComplete, RunStage, SkipDone,
       BudgetExhausted, RunWithoutAdapter, StageRefused, AdapterNotConfigured, CallAdapter,
       AdapterFails, AdapterReturns, BeginPackage, PackageFails, FinishPackage, AudioMismatch,
       Finish, Save, Report, SaveFailure, Release, Fail, LockWriteFails, SaveFails,
       BoundarySaveFails, ReportFails, SaveFailureFails, Crash, Interrupt, Fault, RemoveStaleLock,
       WriteScript, vars
  <2>2. QED
    BY <2>1, BudgetAssumption DEF SharedInv
<1>2. ASSUME NEW q \in Proc, pc'[q] = pc[q], mem'[q] = mem[q], job'[q] = job[q],
             code'[q] = code[q], UNCHANGED disk \/ ~InCriticalSection(q)
      PROVE  Tells(q)'
  <2>1. Tells(q) /\ Stage(q)' = Stage(q) /\ Story(q)' = Story(q) /\ Dry(q)' = Dry(q)
    BY <1>2 DEF TellsInv, Stage, Story, Dry
  <2>2. CASE UNCHANGED disk
    BY <1>1, <1>2, <2>1, <2>2 DEF Tells, RanInto, Stage, Story, Dry
  <2>3. CASE ~InCriticalSection(q)
    BY <1>2, <2>1, <2>3 DEF Tells, InCriticalSection, InLock
  <2>4. QED
    BY <1>2, <2>2, <2>3
<1>3. ASSUME NEW p \in Proc, Start(p) \/ Step(p) \/ Fail(p), Bystanders(p) PROVE TellsInv'
  <2>1. \A q \in Proc \ {p} : UNCHANGED disk \/ ~InCriticalSection(q)
    BY <1>3 DEF Bystanders, MutualExclusion
  <2>2. \A q \in Proc \ {p} : Tells(q)'
    BY <1>2, <1>3, <2>1 DEF Bystanders, Frame
  <2>3. QED
    BY <1>3, <2>2, MovesTell DEF TellsInv
<1>4. CASE EnvironmentStep
  <2>1. SUFFICES ASSUME NEW q \in Proc PROVE Tells(q)'
    BY DEF TellsInv
  <2>2. Tells(q) /\ Stage(q)' = Stage(q) /\ Story(q)' = Story(q) /\ Dry(q)' = Dry(q)
    BY <1>4 DEF EnvironmentStep, TellsInv, Stage, Story, Dry
  <2>3. Story(q) \in Stories => disk'[Story(q)].stages = disk[Story(q)].stages
    BY <1>4 DEF EnvironmentStep, Agrees
  <2>4. pc[q] = "reporting" => Story(q) \in Stories
    BY DEF LocalInv, JobOK, InLock
  <2>5. QED
    BY <1>1, <1>4, <2>2, <2>3, <2>4 DEF EnvironmentStep, Tells, RanInto, Stage, Story, Dry
<1>5. QED
  BY <1>3, <1>4, SomebodyMoves

LEMMA TellsInvHolds == Spec => []TellsInv
<1>1. Init => TellsInv
  BY DEF Init, TellsInv, Tells
<1>2. TypeInv /\ MutualExclusion /\ TellsInv /\ [Next]_vars => TellsInv'
  BY TellsInvStep DEF TypeInv
<1>3. QED
  BY <1>1, <1>2, TypeInvariant, MutualExclusionHolds, PTL DEF Spec

\* The exit code agrees with the state file an invocation leaves behind, unless a
\* fault struck (cli.py: command_stage, resume).
THEOREM ExitCodesTell == Spec => []ExitCodeTellsRecord
<1>1. TellsInv => ExitCodeTellsRecord
  BY DEF TellsInv, Tells, RanInto, ExitCodeTellsRecord, At
<1>2. QED
  BY <1>1, TellsInvHolds, PTL

(***************************************************************************)
(* What later proofs keep needing: who has a copy, and what kind of value  *)
(* files, copies and counts are.                                           *)
(***************************************************************************)
LEMMA CopyByLabel ==
    ASSUME MutexContext, NEW p \in Proc
    PROVE  HasCopy(p) <=> pc[p] \in CopyLabels
BY DEF MutexContext, HasCopy, InCriticalSection, InLock, CopyLabels, At

Counts == [Stages -> Nat]
\* What is on the two sides of an account is a number.
LEMMA AccountTypes ==
    ASSUME SharedInv
    PROVE  /\ \A s \in Stories :
                disk[s] \in StoryState /\ calls[s] \in Counts /\ succeeded[s] \in Counts
           /\ faults \in Nat
BY BudgetAssumption DEF SharedInv, Counts
===============================================================================
