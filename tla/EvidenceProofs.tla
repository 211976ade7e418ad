---------------------------- MODULE EvidenceProofs ----------------------------
(***************************************************************************)
(* The proofs of what a completed stage is evidence of.  Its adapter ran   *)
(* and its artifact is there, and publishers only run on finished packages;*)
(* stages are completed in order and stay complete; and dry runs complete  *)
(* nothing.                                                                *)
(***************************************************************************)
EXTENDS RecordProofs

(***************************************************************************)
(* Records tell the truth about the world outside.  This holds of every    *)
(* state file and of every copy that may still be written back.            *)
(***************************************************************************)
\* m's done stages are backed by the work w and the package pk.
Backed(m, w, pk) ==
    \A st \in Stages \ {"extracted"} :
        m.stages[st].status = "done" =>
            /\ w[st] >= 1
            /\ st = "video_queued" => "generation_receipt_path" \in m.artifacts
            /\ st = "video_produced" => "package_dir" \in m.artifacts /\ pk = "valid"

FileBacked(s) == Backed(disk[s], succeeded[s], package[s])
CopyBacked(p) ==
    /\ HasCopy(p) => Backed(mem[p], succeeded[Story(p)], package[Story(p)])
    /\ pc[p] = "packaging" =>
          Stage(p) = "video_produced" /\ succeeded[Story(p)]["video_produced"] >= 1
    /\ pc[p] = "calling" /\ Stage(p) \in PublicationStages =>
          /\ package[Story(p)] = "valid"
          /\ disk[Story(p)].stages["video_produced"].status = "done"
PackageInv == (\A s \in Stories : FileBacked(s)) /\ (\A p \in Proc : CopyBacked(p))

\* A stage that is not done, or no longer, needs no backing.
LEMMA BackedWithoutStage ==
    ASSUME NEW m \in StoryState, NEW n \in StoryState, NEW st \in Stages, Extends(m, n, st),
           NEW status \in Statuses \ {"done"}, NEW w, NEW pk, Backed(m, w, pk)
    PROVE  Backed(SetStatus(n, st, status), w, pk)
<1>1. /\ Revises(n, SetStatus(n, st, status), st)
      /\ SetStatus(n, st, status).stages[st].status = status
  BY SetStatusRevises
<1>2. QED
  BY <1>1 DEF Backed, Extends, Revises, Evidence, Artifacts

\* More work, the same records, and a package that only matters to a stage
\* that is not done.
LEMMA BackedByMore ==
    ASSUME NEW m \in StoryState, NEW w \in Counts, NEW w2 \in Counts, NEW pk, NEW pk2,
           Backed(m, w, pk), \A st \in Stages : w[st] <= w2[st],
           pk2 \in {pk, "valid"} \/ m.stages["video_produced"].status # "done"
    PROVE  Backed(m, w2, pk2)
BY DEF Backed, Counts

(***************************************************************************)
(* One process moves; the stories it does not work on are left alone.      *)
(***************************************************************************)
WorldUntouched(p) ==
    /\ Frame(p)
    /\ \A s \in Stories \ {Story(p)} :
          disk'[s] = disk[s] /\ succeeded'[s] = succeeded[s] /\ package'[s] = package[s]

\* Work outside is only ever added, and only to the stage the process works on.
WorkGrows(p) ==
    /\ \A s \in Stories \ {Story(p)} : succeeded'[s] = succeeded[s]
    /\ succeeded'[Story(p)] \in Counts
    /\ \A st \in Stages : succeeded[Story(p)][st] <= succeeded'[Story(p)][st]

LEMMA WorkOnlyGrows ==
    ASSUME SharedInv, NEW p \in Proc, Story(p) \in Stories,
           UNCHANGED succeeded \/ (Stage(p) \in Stages /\ \E n \in {0, 1} : DoWork(p, n))
    PROVE  WorkGrows(p)
<1>1. succeeded[Story(p)] \in Counts
  BY AccountTypes
<1>2. CASE UNCHANGED succeeded
  BY <1>1, <1>2 DEF WorkGrows, Counts
<1>3. ASSUME Stage(p) \in Stages, NEW n \in {0, 1}, DoWork(p, n) PROVE WorkGrows(p)
  <2>1. /\ \A s \in Stories \ {Story(p)} : succeeded'[s] = succeeded[s]
        /\ succeeded'[Story(p)] = [succeeded[Story(p)] EXCEPT ![Stage(p)] = @ + n]
    BY <1>3 DEF DoWork, SharedInv
  <2>2. QED
    BY <1>1, <1>3, <2>1 DEF WorkGrows, Counts
<1>4. QED
  BY <1>2, <1>3

\* The piece of work that was counted is there.
LEMMA WorkIsThere ==
    ASSUME SharedInv, NEW p \in Proc, Story(p) \in Stories, Stage(p) \in Stages, DoWork(p, 1)
    PROVE  succeeded'[Story(p)][Stage(p)] >= 1
<1>1. succeeded[Story(p)] \in Counts
  BY AccountTypes
<1>2. succeeded'[Story(p)] = [succeeded[Story(p)] EXCEPT ![Stage(p)] = @ + 1]
  BY DEF DoWork, SharedInv
<1>3. QED
  BY <1>1, <1>2 DEF Counts

\* The holder of a copy may work on its own story as long as file and copy stay backed.
LEMMA HolderKeepsBacked ==
    ASSUME MutexContext, PackageInv, NEW p \in Proc, pc[p] \in CopyLabels,
           WorldUntouched(p), Story(p)' = Story(p) \/ pc'[p] \notin CopyLabels,
           Backed(disk'[Story(p)], succeeded'[Story(p)], package'[Story(p)]),
           pc'[p] \in CopyLabels =>
              Backed(mem'[p], succeeded'[Story(p)], package'[Story(p)]),
           pc'[p] = "packaging" =>
              Stage(p)' = "video_produced" /\ succeeded'[Story(p)]["video_produced"] >= 1,
           pc'[p] = "calling" /\ Stage(p)' \in PublicationStages =>
              /\ package'[Story(p)] = "valid"
              /\ disk'[Story(p)].stages["video_produced"].status = "done"
    PROVE  PackageInv'
<1>1. HasCopy(p) /\ (HasCopy(p)' => pc'[p] \in CopyLabels)
  BY CopyByLabel DEF MutexContext, HasCopy, InCriticalSection, InLock, CopyLabels, At
<1>2. \A q \in Proc \ {p} : pc[q] \notin InLock /\ pc'[q] \notin InLock
  BY <1>1, LockAssumption
     DEF WorldUntouched, Frame, HasCopy, InCriticalSection, MutexContext, MutualExclusion
<1>3. \A q \in Proc \ {p} : CopyBacked(q)'
  BY <1>2 DEF CopyBacked, HasCopy, InCriticalSection, InLock
<1>4. CopyBacked(p)'
  BY <1>1 DEF CopyBacked, CopyLabels
<1>5. \A s \in Stories : FileBacked(s)'
  BY DEF PackageInv, FileBacked, WorldUntouched
<1>6. QED
  BY <1>3, <1>4, <1>5 DEF PackageInv

\* A step that touches no file, no package and no count needs no backing.
LEMMA WorldUntouchedOutside ==
    ASSUME MutexContext, PackageInv, NEW p \in Proc, NEW l, Goto(p, l), l \notin CopyLabels,
           Frame(p), UNCHANGED <<disk, succeeded, package>>
    PROVE  PackageInv'
<1>1. ~HasCopy(p)' /\ pc'[p] \notin {"packaging", "calling"}
  BY DEF MutexContext, Goto, HasCopy, InCriticalSection, InLock, CopyLabels, At
<1>2. \A q \in Proc \ {p} :
         /\ HasCopy(q)' <=> HasCopy(q)
         /\ pc'[q] = pc[q] /\ mem'[q] = mem[q] /\ Story(q)' = Story(q) /\ Stage(q)' = Stage(q)
  BY DEF Frame, HasCopy, InCriticalSection, At, Story, Stage
<1>3. \A q \in Proc : CopyBacked(q)'
  BY <1>1, <1>2 DEF PackageInv, CopyBacked
<1>4. \A s \in Stories : FileBacked(s)'
  BY DEF PackageInv, FileBacked
<1>5. QED
  BY <1>3, <1>4 DEF PackageInv

\* What a process that has a copy knows of its story.
LEMMA PackageFacts ==
    ASSUME LocalInv, SharedInv, CopyInv, PackageInv, NEW p \in Proc, pc[p] \in CopyLabels
    PROVE  /\ Backed(disk[Story(p)], succeeded[Story(p)], package[Story(p)])
           /\ Backed(mem[p], succeeded[Story(p)], package[Story(p)])
           /\ Story(p) \in Stories /\ mem[p] \in StoryState /\ disk[Story(p)] \in StoryState
           /\ succeeded[Story(p)] \in Counts
           /\ pc[p] \in {"running", "calling", "packaging", "saving", "failing"} =>
                 Stage(p) \in Stages
BY CopyFacts, AccountTypes DEF PackageInv, CopyBacked, FileBacked

\* A handler keeps everything backed: the failed stage needs no backing.
LEMMA RaiseKeepsBacked ==
    ASSUME LocalInv, SharedInv, MutexContext, CopyInv, PackageInv,
           NEW p \in Proc, pc[p] \in CopyLabels, Stage(p) \in Stages,
           NEW n \in StoryState, NEW c, Extends(mem[p], n, Stage(p)), Raise(p, n, c),
           UNCHANGED <<disk, job>>, WorkGrows(p),
           \A s \in Stories \ {Story(p)} : package'[s] = package[s],
           package'[Story(p)] \in {package[Story(p)], "valid"}
    PROVE  PackageInv'
<1>1. /\ pc'[p] = "failing" /\ mem'[p] = SetStatus(n, Stage(p), "failed")
      /\ WorldUntouched(p) /\ Story(p)' = Story(p)
  BY DEF Raise, Remember, Goto, LocalInv, Frame, WorldUntouched, WorkGrows, Story
<1>2. /\ SetStatus(n, Stage(p), "failed") \in StoryState
      /\ Backed(SetStatus(n, Stage(p), "failed"), succeeded[Story(p)], package[Story(p)])
  BY PackageFacts, BackedWithoutStage, SetStatusType DEF Statuses
<1>3. /\ Backed(mem'[p], succeeded'[Story(p)], package'[Story(p)])
      /\ Backed(disk[Story(p)], succeeded'[Story(p)], package'[Story(p)])
  BY <1>1, <1>2, PackageFacts, BackedByMore DEF WorkGrows
<1>4. QED
  BY <1>1, <1>3, HolderKeepsBacked

\* run_stage keeps everything backed, one case per way it may go.
LEMMA PackageRunStage ==
    ASSUME LocalInv, SharedInv, MutexContext, CopyInv, PackageInv, NEW p \in Proc, RunStage(p)
    PROVE  PackageInv'
<1> DEFINE s == Story(p)
           st == Stage(p)
<1>1. /\ pc[p] \in {"running", "calling", "packaging"} /\ pc[p] \in CopyLabels
      /\ UNCHANGED <<disk, job>>
  BY DEF RunStage, SkipDone, BudgetExhausted, RunWithoutAdapter, StageRefused,
         AdapterNotConfigured, CallAdapter, AdapterFails, AdapterReturns, BeginPackage,
         PackageFails, FinishPackage, AudioMismatch, MayAttempt, At, CopyLabels
<1>2. /\ st \in Stages /\ s \in Stories /\ Dry(p) \in BOOLEAN
      /\ mem[p] \in StoryState /\ disk[s] \in StoryState /\ succeeded[s] \in Counts
      /\ Backed(disk[s], succeeded[s], package[s])
      /\ Backed(mem[p], succeeded[s], package[s])
  BY <1>1, CopyFacts, PackageFacts
<1>3. Story(p)' = s /\ Stage(p)' = st
  BY <1>1 DEF Story, Stage
<1>4. ~Exhausted(p) => Attempted(p) \in StoryState
  BY <1>2, BeginAttemptType DEF Attempted, Exhausted
<1>5. Extends(mem[p], Attempted(p), st) /\ Attempted(p).stages[st].status = "running"
  BY <1>2, BeginAttemptExtends DEF Attempted
<1>6. CASE SkipDone(p)
  <2>1. UNCHANGED <<mem, succeeded, package>> /\ pc'[p] = "saving" /\ WorldUntouched(p)
    BY <1>1, <1>6 DEF SkipDone, Goto, LocalInv, WorldUntouched, Frame
  <2>2. QED
    BY <1>1, <1>2, <1>3, <2>1, HolderKeepsBacked
<1>7. CASE BudgetExhausted(p) \/ AdapterFails(p) \/ PackageFails(p)
  <2>1. Raise(p, mem[p], "SUBPROCESS") /\ UNCHANGED package
    BY <1>7 DEF BudgetExhausted, AdapterFails, PackageFails
  <2>2. UNCHANGED succeeded \/ \E n \in {0, 1} : DoWork(p, n)
    BY <1>7 DEF BudgetExhausted, AdapterFails, PackageFails
  <2>3. WorkGrows(p)
    BY <1>2, <2>2, WorkOnlyGrows
  <2>4. QED
    BY <1>1, <1>2, <2>1, <2>3, ExtendsItself, RaiseKeepsBacked
<1>8. CASE StageRefused(p) \/ AdapterNotConfigured(p)
  <2>1. /\ ~Exhausted(p) /\ UNCHANGED <<succeeded, package>>
        /\ \E c \in ExitCodes : Raise(p, Attempted(p), c)
    BY <1>8 DEF StageRefused, AdapterNotConfigured, MayAttempt, ExitCodes
  <2>2. QED
    BY <1>1, <1>2, <1>4, <1>5, <2>1, WorkOnlyGrows, RaiseKeepsBacked
<1>9. CASE AudioMismatch(p)
  <2> DEFINE m == [mem[p] EXCEPT !.artifacts = @ \cup {"package_dir"}]
  <2>1. m \in StoryState /\ Extends(mem[p], m, st)
    BY <1>2 DEF StoryState, Artifacts, Extends
  <2>2. /\ Raise(p, m, "SUBPROCESS") /\ UNCHANGED succeeded
        /\ package' = [package EXCEPT ![s] = "valid"]
    BY <1>9 DEF AudioMismatch
  <2> HIDE DEF m
  <2>3. QED
    BY <1>1, <1>2, <2>1, <2>2, WorkOnlyGrows, RaiseKeepsBacked DEF SharedInv
<1>10. CASE RunWithoutAdapter(p)
  <2> DEFINE status == IF Dry(p) THEN "dry_run" ELSE "done"
             n == SetStatus(Attempted(p), st, status)
  <2>1. /\ ~Exhausted(p) /\ UNCHANGED <<succeeded, package>> /\ (Dry(p) \/ st = "extracted")
        /\ mem'[p] = n /\ pc'[p] = "saving" /\ WorldUntouched(p)
    BY <1>1, <1>10
       DEF RunWithoutAdapter, MayAttempt, Remember, Goto, LocalInv, WorldUntouched, Frame
  <2>2. Revises(Attempted(p), n, st) /\ n.stages[st].status = status
    BY <1>2, <1>4, <2>1, SetStatusRevises DEF Statuses
  <2> HIDE DEF n
  <2>3. Backed(n, succeeded[s], package[s])
    BY <1>2, <1>5, <2>1, <2>2 DEF Backed, Extends, Revises, Evidence, Artifacts
  <2>4. QED
    BY <1>1, <1>2, <1>3, <2>1, <2>3, HolderKeepsBacked
<1>11. CASE CallAdapter(p)
  <2>1. /\ ~Dry(p) /\ UNCHANGED <<succeeded, package>> /\ Ready(mem[p], s, st, FALSE)
        /\ mem'[p] = Attempted(p) /\ pc'[p] = "calling" /\ WorldUntouched(p)
        /\ pc[p] = "running"
    BY <1>1, <1>11
       DEF CallAdapter, MayAttempt, At, Remember, Goto, LocalInv, WorldUntouched, Frame
  <2>2. Backed(Attempted(p), succeeded[s], package[s])
    BY <1>2, <1>5 DEF Backed, Extends, Evidence, Artifacts
  <2>3. mem[p].stages = disk[s].stages
    BY <1>1, <2>1, CopyFacts DEF CopyInv, CopyOK, Agrees
  <2>4. st \in PublicationStages =>
           package[s] = "valid" /\ disk[s].stages["video_produced"].status = "done"
    BY <2>1, <2>3, PlatformsAssumption DEF Ready, NotebookStages
  <2>5. QED
    BY <1>1, <1>2, <1>3, <2>1, <2>2, <2>4, HolderKeepsBacked
<1>12. CASE BeginPackage(p)
  <2>1. /\ UNCHANGED mem /\ st = "video_produced" /\ pc[p] = "calling"
        /\ pc'[p] = "packaging" /\ Frame(p) /\ DoWork(p, 1)
        /\ package' = [package EXCEPT ![s] = "partial"]
    BY <1>1, <1>12 DEF BeginPackage, At, Goto, LocalInv, SharedInv, Frame
  <2>2. /\ mem[p].stages["video_produced"].status # "done"
        /\ disk[s].stages["video_produced"].status # "done"
    BY <1>1, <2>1, CopyFacts DEF CopyInv, CopyOK
  <2>3. WorkGrows(p) /\ succeeded'[s][st] >= 1
    BY <1>2, <2>1, WorkOnlyGrows, WorkIsThere
  <2>4. WorldUntouched(p)
    BY <1>1, <1>2, <2>1, <2>3 DEF SharedInv, WorldUntouched, WorkGrows
  <2>5. /\ Backed(disk[s], succeeded'[s], package'[s])
        /\ Backed(mem[p], succeeded'[s], package'[s])
    BY <1>2, <2>2, <2>3, BackedByMore DEF WorkGrows
  <2>6. QED
    BY <1>1, <1>2, <1>3, <2>1, <2>3, <2>4, <2>5, HolderKeepsBacked
<1>13. CASE AdapterReturns(p) \/ FinishPackage(p)
  <2>1. PICK a \in SUBSET Artifacts :
          /\ Succeed(p, a)
          /\ st = "video_queued" => "generation_receipt_path" \in a
          /\ st = "video_produced" => "package_dir" \in a /\ package'[s] = "valid"
    <3>1. CASE AdapterReturns(p)
      BY <3>1 DEF AdapterReturns, Artifacts
    <3>2. CASE FinishPackage(p)
      <4>1. st = "video_produced" /\ Succeed(p, {"package_dir"}) /\ package'[s] = "valid"
        BY <1>2, <3>2 DEF FinishPackage, At, PackageInv, CopyBacked, SharedInv
      <4>2. QED
        BY <4>1 DEF Artifacts
    <3>3. QED
      BY <1>13, <3>1, <3>2
  <2> DEFINE n == MarkDone(mem[p], st, a)
  <2>2. /\ Revises(mem[p], n, st) /\ n.stages[st].status = "done"
        /\ n.artifacts = mem[p].artifacts \cup a
    BY <1>2, MarkDoneRevises
  <2>3. mem'[p] = n /\ pc'[p] = "saving" /\ Frame(p)
    BY <1>1, <2>1 DEF Succeed, Remember, Goto, LocalInv, Frame
  <2> HIDE DEF n
  <2>4. WorkGrows(p) /\ succeeded'[s][st] >= 1
    <3>1. CASE AdapterReturns(p)
      BY <1>2, <3>1, WorkOnlyGrows, WorkIsThere DEF AdapterReturns
    <3>2. CASE FinishPackage(p)
      <4>1. UNCHANGED succeeded /\ st = "video_produced" /\ succeeded[s]["video_produced"] >= 1
        BY <3>2 DEF FinishPackage, At, PackageInv, CopyBacked
      <4>2. QED
        BY <1>2, <4>1, WorkOnlyGrows
    <3>3. QED
      BY <1>13, <3>1, <3>2
  <2>5. package'[s] \in {package[s], "valid"} /\ WorldUntouched(p)
    BY <1>1, <1>2, <1>13, <2>3, <2>4
       DEF AdapterReturns, FinishPackage, SharedInv, WorldUntouched, WorkGrows
  <2>6. Backed(disk[s], succeeded'[s], package'[s]) /\ Backed(mem[p], succeeded'[s], package'[s])
    BY <1>2, <2>4, <2>5, BackedByMore DEF WorkGrows
  <2>7. Backed(n, succeeded'[s], package'[s])
    BY <2>1, <2>2, <2>4, <2>6 DEF Backed, Revises
  <2>8. QED
    BY <1>1, <1>2, <1>3, <2>3, <2>5, <2>6, <2>7, HolderKeepsBacked
<1>14. QED
  BY <1>6, <1>7, <1>8, <1>9, <1>10, <1>11, <1>12, <1>13 DEF RunStage

\* A process with a copy moves on, or writes its copy, or leaves without it.
LEMMA HolderMovesOn ==
    ASSUME LocalInv, SharedInv, MutexContext, CopyInv, PackageInv,
           NEW p \in Proc, pc[p] \in CopyLabels, NEW l, l \notin {"calling", "packaging"}, Goto(p, l),
           UNCHANGED <<mem, package, succeeded>>,
           UNCHANGED disk \/ disk' = [disk EXCEPT ![Story(p)] = mem[p]],
           UNCHANGED job \/ \E st \in Stages : job' = [job EXCEPT ![p].stage = st]
    PROVE  PackageInv'
<1>1. /\ Backed(disk[Story(p)], succeeded[Story(p)], package[Story(p)])
      /\ Backed(mem[p], succeeded[Story(p)], package[Story(p)])
      /\ Story(p) \in Stories
  BY PackageFacts
<1>2. /\ pc'[p] = l /\ Story(p)' = Story(p) /\ mem'[p] = mem[p]
      /\ disk'[Story(p)] \in {disk[Story(p)], mem[p]}
  BY <1>1 DEF Goto, LocalInv, SharedInv, JobType, Story
<1>3. WorldUntouched(p)
  BY <1>1 DEF Goto, LocalInv, SharedInv, WorldUntouched, Frame
<1>4. QED
  BY <1>1, <1>2, <1>3, HolderKeepsBacked

\* Every action keeps everything backed.
LEMMA PackageStep ==
    ASSUME LocalInv, SharedInv, MutexContext, CopyInv, PackageInv, [Next]_vars
    PROVE  PackageInv'
<1>1. ASSUME NEW p \in Proc, Start(p) \/ Enter(p) \/ LoadFails(p) \/ LockWriteFails(p) \/ Release(p)
      PROVE  PackageInv'
  <2>1. /\ \E l \in {"idle", "starting", "entered", "closing"} : Goto(p, l)
        /\ Frame(p) /\ UNCHANGED <<disk, succeeded, package>>
    BY <1>1
       DEF Start, Enter, CommandConfigError, AcquireLock, LockedOut, LoadFails, LockWriteFails,
           Release, Gone, Goto, Frame, LocalInv
  <2>2. QED
    BY <2>1, WorldUntouchedOutside DEF CopyLabels
<1>2. ASSUME NEW p \in Proc, Load(p) PROVE PackageInv'
  <2>1. PICK s \in Stories :
           job' = [job EXCEPT ![p].story = s] /\ mem' = [mem EXCEPT ![p] = disk[s]]
    BY <1>2 DEF Load, Remember
  <2>2. PICK l \in {"choosing", "running"} : pc' = [pc EXCEPT ![p] = l]
    BY <1>2 DEF Load, Goto
  <2>3. /\ Story(p)' = s /\ mem'[p] = disk[s] /\ pc'[p] = l
        /\ UNCHANGED <<disk, succeeded, package>> /\ Frame(p)
    BY <1>2, <2>1, <2>2 DEF LocalInv, JobType, Story, Frame, Load
  <2>4. CopyBacked(p)'
    BY <2>3 DEF CopyBacked, PackageInv, FileBacked
  <2>5. \A q \in Proc \ {p} : CopyBacked(q)'
    BY <2>3 DEF Frame, PackageInv, CopyBacked, HasCopy, InCriticalSection, At, Story, Stage
  <2>6. QED
    BY <2>3, <2>4, <2>5 DEF PackageInv, FileBacked
<1>3. ASSUME NEW p \in Proc,
             \/ ResumeStage(p) \/ ResumeConfigError(p) \/ ResumeBoundary(p) \/ ResumeComplete(p)
             \/ Save(p) \/ BoundarySaveFails(p) \/ Report(p) \/ SaveFailure(p) \/ SaveFailureFails(p)
             \/ ReportFails(p) /\ job[p].cmd = "resume"
      PROVE  PackageInv'
  <2>1. /\ pc[p] \in CopyLabels /\ UNCHANGED <<mem, package, succeeded>>
        /\ \E l \in {"running", "boundary", "reporting", "closing"} : Goto(p, l)
        /\ UNCHANGED disk \/ disk' = [disk EXCEPT ![Story(p)] = mem[p]]
        /\ UNCHANGED job \/ \E st \in Stages : job' = [job EXCEPT ![p].stage = st]
    BY <1>3, StageTypes
       DEF ResumeStage, ResumeConfigError, ResumeBoundary, ResumeComplete, Save,
           BoundarySaveFails, Report, SaveFailure, SaveFailureFails, ReportFails, At, CopyLabels,
           WriteState
  <2>2. QED
    BY <2>1, HolderMovesOn
<1>4. ASSUME NEW p \in Proc, RunStage(p) PROVE PackageInv'
  BY <1>4, PackageRunStage
<1>5. ASSUME NEW p \in Proc, SaveFails(p) \/ (ReportFails(p) /\ job[p].cmd # "resume")
      PROVE  PackageInv'
  <2>1. /\ pc[p] \in {"saving", "reporting"} /\ pc[p] \in CopyLabels
        /\ Raise(p, mem[p], "SUBPROCESS") /\ UNCHANGED <<disk, package, job, succeeded>>
    BY <1>5 DEF SaveFails, ReportFails, At, CopyLabels
  <2>2. mem[p] \in StoryState /\ Stage(p) \in Stages
    BY <1>5, <2>1, CopyFacts DEF SaveFails, ReportFails, LocalInv, JobOK, At
  <2>3. QED
    BY <2>1, <2>2, PackageFacts, WorkOnlyGrows, ExtendsItself, RaiseKeepsBacked
<1>6. ASSUME NEW p \in Proc, Crash(p) \/ Interrupt(p), pc[p] \in CopyLabels PROVE PackageInv'
  <2>1. /\ Goto(p, "idle") /\ UNCHANGED <<disk, package>>
        /\ \/ UNCHANGED succeeded
           \/ /\ pc[p] = "calling"
              /\ \E n \in {0, 1} :
                    succeeded' = [succeeded EXCEPT ![Story(p)][Stage(p)] = @ + n]
    BY <1>6 DEF Crash, Interrupt, Gone, OrphanMayFinish, DoWork, At
  <2>2. /\ Backed(disk[Story(p)], succeeded[Story(p)], package[Story(p)])
        /\ Story(p) \in Stories /\ disk[Story(p)] \in StoryState
        /\ succeeded[Story(p)] \in Counts
        /\ pc[p] = "calling" => Stage(p) \in Stages
    BY <1>6, PackageFacts
  <2>3. \/ succeeded'[Story(p)] = succeeded[Story(p)]
        \/ /\ Stage(p) \in Stages
           /\ \E n \in {0, 1} :
                 succeeded'[Story(p)] = [succeeded[Story(p)] EXCEPT ![Stage(p)] = @ + n]
    BY <2>1, <2>2 DEF SharedInv
  <2>4. /\ succeeded'[Story(p)] \in Counts
        /\ \A x \in Stages : succeeded[Story(p)][x] <= succeeded'[Story(p)][x]
    BY <2>2, <2>3 DEF Counts
  <2>5. Backed(disk[Story(p)], succeeded'[Story(p)], package[Story(p)])
    BY <2>2, <2>4, BackedByMore
  <2>6. WorldUntouched(p)
    <3>1. Frame(p)
      BY <1>6 DEF Crash, Interrupt, Gone, Goto, LocalInv, Frame
    <3>2. \A s \in Stories \ {Story(p)} : succeeded'[s] = succeeded[s]
      BY <2>1, <2>2 DEF SharedInv
    <3>3. QED
      BY <2>1, <3>1, <3>2 DEF WorldUntouched
  <2>7. pc'[p] = "idle"
    BY <2>1 DEF Goto, LocalInv
  <2>8. QED
    BY <1>6, <2>1, <2>5, <2>6, <2>7, HolderKeepsBacked DEF CopyLabels
<1>7. ASSUME NEW p \in Proc, Crash(p) \/ Interrupt(p), pc[p] \notin CopyLabels PROVE PackageInv'
  <2>1. Goto(p, "idle") /\ Frame(p) /\ UNCHANGED <<disk, succeeded, package>>
    BY <1>7
       DEF Crash, Interrupt, Gone, Goto, OrphanMayFinish, At, CopyLabels, LocalInv, Frame
  <2>2. QED
    BY <2>1, WorldUntouchedOutside DEF CopyLabels
<1>8. CASE EnvironmentStep
  <2>1. ASSUME NEW s \in Stories PROVE FileBacked(s)'
    <3>1. /\ disk'[s].stages = disk[s].stages
          /\ disk'[s].artifacts \cap Evidence = disk[s].artifacts \cap Evidence
      BY <1>8 DEF EnvironmentStep, Agrees
    <3>2. {"generation_receipt_path", "package_dir"} \subseteq Evidence
      BY DEF Evidence, Artifacts
    <3>3. QED
      BY <1>8, <3>1, <3>2 DEF EnvironmentStep, PackageInv, FileBacked, Backed
  <2>2. ASSUME NEW q \in Proc PROVE CopyBacked(q)'
    <3>1. HasCopy(q)' <=> HasCopy(q)
      BY <1>8 DEF EnvironmentStep, HasCopy, InCriticalSection, At
    <3>2. pc[q] = "calling" => disk'[Story(q)].stages = disk[Story(q)].stages
      BY <1>8 DEF EnvironmentStep, Agrees, LocalInv, JobOK, InLock
    <3>3. QED
      BY <1>8, <3>1, <3>2 DEF EnvironmentStep, PackageInv, CopyBacked, Story, Stage
  <2>3. QED
    BY <2>1, <2>2 DEF PackageInv
<1>9. CASE RemoveStaleLock \/ UNCHANGED vars \/ \E s \in Stories : WriteScript(s)
  BY <1>8, <1>9, EnvironmentActs
<1>10. ASSUME NEW p \in Proc, Crash(p) \/ Interrupt(p) PROVE PackageInv'
  BY <1>6, <1>7, <1>10
<1>11. ASSUME NEW p \in Proc, ReportFails(p) PROVE PackageInv'
  BY <1>3, <1>5, <1>11
<1>12. ASSUME NEW p \in Proc, Step(p) PROVE PackageInv'
  BY <1>1, <1>2, <1>3, <1>4, <1>12 DEF Step, Choose, Finish
<1>13. ASSUME NEW p \in Proc, Fail(p) PROVE PackageInv'
  BY <1>1, <1>3, <1>5, <1>10, <1>11, <1>13 DEF Fail
<1>14. QED
  BY <1>1, <1>9, <1>12, <1>13 DEF Next

\* Files and copies are backed in every behaviour.
LEMMA PackageInvariant == Spec => []PackageInv
<1>1. Init => PackageInv
  <2> SUFFICES ASSUME Init PROVE PackageInv
    OBVIOUS
  <2>1. \A p \in Proc : ~HasCopy(p) /\ pc[p] = "idle"
    BY DEF Init, HasCopy, InCriticalSection, InLock
  <2>2. \A s \in Stories, st \in Stages : disk[s].stages[st].status = "pending"
    BY DEF Init, FreshState, PendingRecord
  <2>3. QED
    BY <2>1, <2>2 DEF PackageInv, CopyBacked, FileBacked, Backed
<1>2. TypeInv /\ MutualExclusion /\ CopyInv /\ PackageInv /\ [Next]_vars => PackageInv'
  BY PackageStep DEF TypeInv, LocalInv, MutexContext
<1>3. QED
  BY <1>1, <1>2, TypeInvariant, MutualExclusionHolds, CopyInvariant, PTL DEF Spec

\* A stage recorded as done had its adapter do the work, and the artifact the
\* next stage relies on is registered and complete.
THEOREM DoneIsBackedHolds == Spec => []DoneIsBacked
<1>1. PackageInv => DoneIsBacked
  BY DEF PackageInv, FileBacked, Backed, DoneIsBacked
<1>2. QED
  BY <1>1, PackageInvariant, PTL

\* No publisher runs on a package that is missing, or being rewritten, or whose
\* production is not recorded.
THEOREM FinishedPackagesPublished == Spec => []PublishesFinishedPackage
<1>1. PackageInv => PublishesFinishedPackage
  BY DEF PackageInv, CopyBacked, PublishesFinishedPackage, At
<1>2. QED
  BY <1>1, PackageInvariant, PTL

(***************************************************************************)
(* Progress is kept and made in order, and dry runs only simulate, when no *)
(* save and no report fails: a failure that strikes after a stage was      *)
(* completed is recorded on the completed stage, so all three are lost     *)
(* with such a fault.                                                      *)
(***************************************************************************)
NoLateFailure == "save" \notin Faults /\ "report" \notin Faults

IsDoneIn(m, st) == m.stages[st].status = "done"

\* Done stages stand on done stages.
Ordered(m) ==
    /\ IsDoneIn(m, "video_produced") => IsDoneIn(m, "video_queued")
    /\ \A st \in PublicationStages : IsDoneIn(m, st) => IsDoneIn(m, "video_produced")

\* What st needs done before it may be done.
MayFollow(m, st) ==
    /\ st = "video_produced" => IsDoneIn(m, "video_queued")
    /\ st \in PublicationStages => IsDoneIn(m, "video_produced")

\* A copy is ordered and has every done stage of the file.
CopyOrdered(p) ==
    /\ HasCopy(p) =>
          /\ Ordered(mem[p])
          /\ \A st \in Stages : IsDoneIn(disk[Story(p)], st) => IsDoneIn(mem[p], st)
    /\ pc[p] \in {"calling", "packaging"} => MayFollow(mem[p], Stage(p))
OrderInv == (\A s \in Stories : Ordered(disk[s])) /\ (\A p \in Proc : CopyOrdered(p))

\* The five stages that the order is about are different stages.
LEMMA OrderedStages ==
    /\ {"video_queued", "video_produced"} \subseteq Stages
    /\ PublicationStages \subseteq Stages
    /\ PublicationStages \cap {"extracted", "video_queued", "video_produced"} = {}
BY StageTypes, PlatformsAssumption DEF NotebookStages

\* Working on a stage that is not done keeps the order, and done stages done,
\* as long as what it needs is done when it becomes done.
LEMMA WorkKeepsOrder ==
    ASSUME NEW m, NEW n, NEW st \in Stages, Ordered(m), ~IsDoneIn(m, st),
           \A x \in Stages \ {st} : n.stages[x] = m.stages[x],
           IsDoneIn(n, st) => MayFollow(m, st)
    PROVE  Ordered(n) /\ (\A x \in Stages : IsDoneIn(m, x) => IsDoneIn(n, x))
BY OrderedStages DEF Ordered, IsDoneIn, MayFollow

(***************************************************************************)
(* Only the holder of the lock writes files and copies.                    *)
(***************************************************************************)
DiskUntouched(p) == Frame(p) /\ \A s \in Stories \ {Story(p)} : disk'[s] = disk[s]

\* The holder of a copy may work on its own story.
LEMMA HolderKeepsOrder ==
    ASSUME MutexContext, OrderInv, NEW p \in Proc, pc[p] \in CopyLabels, DiskUntouched(p),
           Story(p)' = Story(p) \/ pc'[p] \notin CopyLabels,
           Ordered(disk'[Story(p)]),
           pc'[p] \in CopyLabels =>
              /\ Ordered(mem'[p])
              /\ \A st \in Stages : IsDoneIn(disk'[Story(p)], st) => IsDoneIn(mem'[p], st),
           pc'[p] \in {"calling", "packaging"} => MayFollow(mem'[p], Stage(p)')
    PROVE  OrderInv'
<1>1. HasCopy(p) /\ (HasCopy(p)' => pc'[p] \in CopyLabels)
  BY CopyByLabel DEF MutexContext, HasCopy, InCriticalSection, InLock, CopyLabels, At
<1>2. \A q \in Proc \ {p} : pc[q] \notin InLock /\ pc'[q] \notin InLock
  BY <1>1, LockAssumption
     DEF DiskUntouched, Frame, HasCopy, InCriticalSection, MutexContext, MutualExclusion
<1>3. \A q \in Proc \ {p} : CopyOrdered(q)'
  BY <1>2 DEF CopyOrdered, HasCopy, InCriticalSection, InLock
<1>4. CopyOrdered(p)'
  BY <1>1 DEF CopyOrdered, CopyLabels
<1>5. \A s \in Stories : Ordered(disk[s])'
  BY DEF OrderInv, DiskUntouched
<1>6. QED
  BY <1>3, <1>4, <1>5 DEF OrderInv

\* A step that touches no file and ends without a copy keeps the order.
LEMMA OutsideKeepsOrder ==
    ASSUME MutexContext, OrderInv, NEW p \in Proc, NEW l, Goto(p, l), l \notin CopyLabels,
           Frame(p), UNCHANGED disk
    PROVE  OrderInv'
<1>1. ~HasCopy(p)' /\ pc'[p] \notin {"packaging", "calling"}
  BY DEF MutexContext, Goto, HasCopy, InCriticalSection, InLock, CopyLabels, At
<1>2. \A q \in Proc \ {p} :
         /\ HasCopy(q)' <=> HasCopy(q)
         /\ pc'[q] = pc[q] /\ mem'[q] = mem[q] /\ Story(q)' = Story(q) /\ Stage(q)' = Stage(q)
  BY DEF Frame, HasCopy, InCriticalSection, At, Story, Stage
<1>3. \A q \in Proc : CopyOrdered(q)'
  BY <1>1, <1>2 DEF OrderInv, CopyOrdered
<1>4. QED
  BY <1>3 DEF OrderInv

\* What a process that has a copy knows of the order.
LEMMA OrderFacts ==
    ASSUME LocalInv, SharedInv, CopyInv, OrderInv, NEW p \in Proc, pc[p] \in CopyLabels
    PROVE  /\ Ordered(disk[Story(p)]) /\ Ordered(mem[p])
           /\ \A st \in Stages : IsDoneIn(disk[Story(p)], st) => IsDoneIn(mem[p], st)
           /\ Story(p) \in Stories /\ mem[p] \in StoryState /\ Dry(p) \in BOOLEAN
           /\ pc[p] \in {"running", "calling", "packaging", "saving", "failing"} =>
                 Stage(p) \in Stages
BY CopyFacts DEF OrderInv, CopyOrdered

\* A process works on a stage of its copy that is not done, and keeps the copy.
LEMMA WorkOnCopyKeepsOrder ==
    ASSUME LocalInv, SharedInv, MutexContext, CopyInv, OrderInv,
           NEW p \in Proc, pc[p] \in CopyLabels, Stage(p) \in Stages, NEW l \in CopyLabels,
           Goto(p, l), UNCHANGED <<disk, job>>, Frame(p),
           ~IsDoneIn(mem[p], Stage(p)),
           \A x \in Stages \ {Stage(p)} : mem'[p].stages[x] = mem[p].stages[x],
           IsDoneIn(mem'[p], Stage(p)) => MayFollow(mem[p], Stage(p)),
           l \in {"calling", "packaging"} => MayFollow(mem[p], Stage(p))
    PROVE  OrderInv'
<1>1. /\ Ordered(disk[Story(p)]) /\ Ordered(mem[p])
      /\ \A st \in Stages : IsDoneIn(disk[Story(p)], st) => IsDoneIn(mem[p], st)
  BY OrderFacts
<1>2. /\ Ordered(mem'[p])
      /\ \A st \in Stages : IsDoneIn(mem[p], st) => IsDoneIn(mem'[p], st)
  BY <1>1, WorkKeepsOrder
<1>3. /\ pc'[p] = l /\ Story(p)' = Story(p) /\ Stage(p)' = Stage(p) /\ DiskUntouched(p)
  BY DEF Goto, LocalInv, Story, Stage, DiskUntouched
<1>4. MayFollow(mem[p], Stage(p)) => MayFollow(mem'[p], Stage(p))
  BY <1>2, OrderedStages DEF MayFollow
<1>5. QED
  BY <1>1, <1>2, <1>3, <1>4, HolderKeepsOrder

\* A handler fails a stage that was not done.
LEMMA RaiseKeepsOrder ==
    ASSUME LocalInv, SharedInv, MutexContext, CopyInv, OrderInv,
           NEW p \in Proc, pc[p] \in CopyLabels, Stage(p) \in Stages,
           NEW n \in StoryState, NEW c, Extends(mem[p], n, Stage(p)), Raise(p, n, c),
           UNCHANGED <<disk, job>>, ~IsDoneIn(mem[p], Stage(p))
    PROVE  OrderInv'
<1>1. /\ Goto(p, "failing") /\ mem'[p] = SetStatus(n, Stage(p), "failed") /\ Frame(p)
  BY DEF Raise, Remember, Goto, LocalInv, Frame
<1>2. /\ \A x \in Stages \ {Stage(p)} : mem'[p].stages[x] = mem[p].stages[x]
      /\ ~IsDoneIn(mem'[p], Stage(p))
  BY <1>1, SetStatusRevises DEF Revises, Extends, Statuses, IsDoneIn
<1>3. QED
  BY <1>1, <1>2, WorkOnCopyKeepsOrder DEF CopyLabels

\* run_stage keeps the order, one case per way it may go.
LEMMA OrderRunStage ==
    ASSUME LocalInv, SharedInv, MutexContext, CopyInv, OrderInv, NEW p \in Proc, RunStage(p)
    PROVE  OrderInv'
<1> DEFINE st == Stage(p)
<1>1. /\ pc[p] \in {"running", "calling", "packaging"} /\ pc[p] \in CopyLabels
      /\ UNCHANGED <<disk, job>>
  BY DEF RunStage, SkipDone, BudgetExhausted, RunWithoutAdapter, StageRefused,
         AdapterNotConfigured, CallAdapter, AdapterFails, AdapterReturns, BeginPackage,
         PackageFails, FinishPackage, AudioMismatch, MayAttempt, At, CopyLabels
<1>2. /\ st \in Stages /\ mem[p] \in StoryState /\ Dry(p) \in BOOLEAN
      /\ Ordered(disk[Story(p)]) /\ Ordered(mem[p])
      /\ \A x \in Stages : IsDoneIn(disk[Story(p)], x) => IsDoneIn(mem[p], x)
  BY <1>1, OrderFacts
<1>3. ~SkipDone(p) => ~IsDoneIn(mem[p], st)
  <2>1. pc[p] \in {"calling", "packaging"} => mem[p].stages[st].status = "running"
    BY <1>1, CopyFacts DEF CopyInv, CopyOK
  <2>2. pc[p] = "running" /\ ~SkipDone(p) => ~IsDone(p)
    BY DEF RunStage, BudgetExhausted, RunWithoutAdapter, StageRefused, AdapterNotConfigured,
           CallAdapter, AdapterFails, AdapterReturns, BeginPackage, PackageFails, FinishPackage,
           AudioMismatch, MayAttempt, At
  <2>3. QED
    BY <1>1, <2>1, <2>2 DEF IsDone, IsDoneIn
<1>4. pc[p] \in {"calling", "packaging"} => MayFollow(mem[p], st)
  BY DEF OrderInv, CopyOrdered
<1>5. /\ ~Exhausted(p) => Attempted(p) \in StoryState
      /\ Extends(mem[p], Attempted(p), st) /\ Attempted(p).stages[st].status = "running"
  BY <1>2, BeginAttemptType, BeginAttemptExtends DEF Attempted, Exhausted
<1>6. CASE SkipDone(p)
  <2>1. /\ UNCHANGED mem /\ pc'[p] = "saving" /\ DiskUntouched(p)
        /\ Story(p)' = Story(p)
    BY <1>1, <1>6 DEF SkipDone, Goto, LocalInv, DiskUntouched, Frame, Story
  <2>2. QED
    BY <1>1, <1>2, <2>1, HolderKeepsOrder
<1>7. CASE BudgetExhausted(p) \/ AdapterFails(p) \/ PackageFails(p)
  <2>1. Raise(p, mem[p], "SUBPROCESS") /\ ~SkipDone(p)
    BY <1>7 DEF BudgetExhausted, AdapterFails, PackageFails, SkipDone, At
  <2>2. QED
    BY <1>1, <1>2, <1>3, <2>1, ExtendsItself, RaiseKeepsOrder
<1>8. CASE StageRefused(p) \/ AdapterNotConfigured(p)
  <2>1. /\ ~Exhausted(p) /\ ~SkipDone(p) /\ \E c \in ExitCodes : Raise(p, Attempted(p), c)
    BY <1>8 DEF StageRefused, AdapterNotConfigured, MayAttempt, ExitCodes, SkipDone
  <2>2. QED
    BY <1>1, <1>2, <1>3, <1>5, <2>1, RaiseKeepsOrder
<1>9. CASE AudioMismatch(p)
  <2> DEFINE m == [mem[p] EXCEPT !.artifacts = @ \cup {"package_dir"}]
  <2>1. m \in StoryState /\ Extends(mem[p], m, st)
    BY <1>2 DEF StoryState, Artifacts, Extends
  <2>2. Raise(p, m, "SUBPROCESS") /\ ~SkipDone(p)
    BY <1>9 DEF AudioMismatch, SkipDone, At
  <2> HIDE DEF m
  <2>3. QED
    BY <1>1, <1>2, <1>3, <2>1, <2>2, RaiseKeepsOrder
<1>10. CASE RunWithoutAdapter(p)
  <2> DEFINE status == IF Dry(p) THEN "dry_run" ELSE "done"
             n == SetStatus(Attempted(p), st, status)
  <2>1. /\ ~Exhausted(p) /\ ~SkipDone(p) /\ (Dry(p) \/ st = "extracted")
        /\ mem'[p] = n /\ Goto(p, "saving") /\ Frame(p)
    BY <1>10 DEF RunWithoutAdapter, MayAttempt, Remember, Goto, LocalInv, Frame, SkipDone
  <2>2. Revises(Attempted(p), n, st) /\ n.stages[st].status = status
    BY <1>2, <1>5, <2>1, SetStatusRevises DEF Statuses
  <2> HIDE DEF n
  <2>3. /\ \A x \in Stages \ {st} : mem'[p].stages[x] = mem[p].stages[x]
        /\ IsDoneIn(mem'[p], st) => MayFollow(mem[p], st)
    BY <1>5, <2>1, <2>2, OrderedStages DEF Revises, Extends, IsDoneIn, MayFollow
  <2>4. QED
    BY <1>1, <1>2, <1>3, <2>1, <2>3, WorkOnCopyKeepsOrder DEF CopyLabels
<1>11. CASE CallAdapter(p)
  <2>1. /\ ~SkipDone(p) /\ mem'[p] = Attempted(p) /\ Goto(p, "calling") /\ Frame(p)
        /\ ~Dry(p) /\ Ready(mem[p], Story(p), st, FALSE)
    BY <1>11 DEF CallAdapter, MayAttempt, Remember, Goto, LocalInv, Frame, SkipDone
  <2>2. MayFollow(mem[p], st)
    BY <2>1, OrderedStages DEF Ready, SatisfiesPrerequisite, MayFollow, IsDoneIn
  <2>3. \A x \in Stages \ {st} : mem'[p].stages[x] = mem[p].stages[x]
    BY <1>5, <2>1 DEF Extends
  <2>4. QED
    BY <1>1, <1>2, <1>3, <2>1, <2>2, <2>3, WorkOnCopyKeepsOrder DEF CopyLabels
<1>12. CASE BeginPackage(p)
  <2>1. ~SkipDone(p) /\ UNCHANGED mem /\ Goto(p, "packaging") /\ Frame(p) /\ pc[p] = "calling"
    BY <1>12 DEF BeginPackage, At, Goto, LocalInv, Frame, SkipDone
  <2>2. QED
    BY <1>1, <1>2, <1>3, <1>4, <2>1, WorkOnCopyKeepsOrder DEF CopyLabels
<1>13. CASE AdapterReturns(p) \/ FinishPackage(p)
  <2>1. PICK a \in SUBSET Artifacts : Succeed(p, a)
    BY <1>13 DEF AdapterReturns, FinishPackage, Artifacts
  <2>2. /\ ~SkipDone(p) /\ pc[p] \in {"calling", "packaging"}
        /\ mem'[p] = MarkDone(mem[p], st, a) /\ Goto(p, "saving") /\ Frame(p)
    BY <1>13, <2>1
       DEF AdapterReturns, FinishPackage, Succeed, Remember, At, Goto, LocalInv, Frame, SkipDone
  <2>3. \A x \in Stages \ {st} : mem'[p].stages[x] = mem[p].stages[x]
    BY <1>2, <2>2, MarkDoneRevises DEF Revises
  <2>4. QED
    BY <1>1, <1>2, <1>3, <1>4, <2>2, <2>3, WorkOnCopyKeepsOrder DEF CopyLabels
<1>14. QED
  BY <1>6, <1>7, <1>8, <1>9, <1>10, <1>11, <1>12, <1>13 DEF RunStage

\* A process with a copy moves on, writes its copy, or leaves without it.
LEMMA HolderMovesInOrder ==
    ASSUME LocalInv, SharedInv, MutexContext, CopyInv, OrderInv,
           NEW p \in Proc, pc[p] \in CopyLabels, NEW l, l \notin {"calling", "packaging"}, Goto(p, l),
           UNCHANGED mem,
           UNCHANGED disk \/ disk' = [disk EXCEPT ![Story(p)] = mem[p]],
           UNCHANGED job \/ \E st \in Stages : job' = [job EXCEPT ![p].stage = st]
    PROVE  OrderInv'
<1>1. /\ Ordered(disk[Story(p)]) /\ Ordered(mem[p]) /\ Story(p) \in Stories
      /\ \A st \in Stages : IsDoneIn(disk[Story(p)], st) => IsDoneIn(mem[p], st)
  BY OrderFacts
<1>2. /\ pc'[p] = l /\ Story(p)' = Story(p) /\ mem'[p] = mem[p]
      /\ disk'[Story(p)] \in {disk[Story(p)], mem[p]}
  BY <1>1 DEF Goto, LocalInv, SharedInv, JobType, Story
<1>3. DiskUntouched(p)
  BY <1>1 DEF Goto, LocalInv, SharedInv, DiskUntouched, Frame
<1>4. QED
  BY <1>1, <1>2, <1>3, HolderKeepsOrder

\* Every action keeps the order.
LEMMA OrderStep ==
    ASSUME NoLateFailure, LocalInv, SharedInv, MutexContext, CopyInv, OrderInv, [Next]_vars
    PROVE  OrderInv'
<1>1. ASSUME NEW p \in Proc, Start(p) \/ Enter(p) \/ LoadFails(p) \/ LockWriteFails(p) \/ Release(p)
      PROVE  OrderInv'
  <2>1. /\ \E l \in {"idle", "starting", "entered", "closing"} : Goto(p, l)
        /\ Frame(p) /\ UNCHANGED disk
    BY <1>1
       DEF Start, Enter, CommandConfigError, AcquireLock, LockedOut, LoadFails, LockWriteFails,
           Release, Gone, Goto, Frame, LocalInv
  <2>2. QED
    BY <2>1, OutsideKeepsOrder DEF CopyLabels
<1>2. ASSUME NEW p \in Proc, Load(p) PROVE OrderInv'
  <2>1. PICK s \in Stories :
           job' = [job EXCEPT ![p].story = s] /\ mem' = [mem EXCEPT ![p] = disk[s]]
    BY <1>2 DEF Load, Remember
  <2>2. PICK l \in {"choosing", "running"} : pc' = [pc EXCEPT ![p] = l]
    BY <1>2 DEF Load, Goto
  <2>3. Story(p)' = s /\ mem'[p] = disk[s] /\ pc'[p] = l /\ UNCHANGED disk /\ Frame(p)
    BY <1>2, <2>1, <2>2 DEF LocalInv, JobType, Story, Frame, Load
  <2>4. CopyOrdered(p)'
    BY <2>3 DEF CopyOrdered, OrderInv
  <2>5. \A q \in Proc \ {p} : CopyOrdered(q)'
    BY <2>3 DEF Frame, OrderInv, CopyOrdered, HasCopy, InCriticalSection, At, Story, Stage
  <2>6. QED
    BY <2>3, <2>4, <2>5 DEF OrderInv
<1>3. ASSUME NEW p \in Proc,
             \/ ResumeStage(p) \/ ResumeConfigError(p) \/ ResumeBoundary(p) \/ ResumeComplete(p)
             \/ Save(p) \/ Report(p) \/ SaveFailure(p)
      PROVE  OrderInv'
  <2>1. /\ pc[p] \in CopyLabels /\ UNCHANGED mem
        /\ \E l \in {"running", "boundary", "reporting", "closing"} : Goto(p, l)
        /\ UNCHANGED disk \/ disk' = [disk EXCEPT ![Story(p)] = mem[p]]
        /\ UNCHANGED job \/ \E st \in Stages : job' = [job EXCEPT ![p].stage = st]
    BY <1>3, StageTypes
       DEF ResumeStage, ResumeConfigError, ResumeBoundary, ResumeComplete, Save, Report,
           SaveFailure, At, CopyLabels, WriteState
  <2>2. QED
    BY <2>1, HolderMovesInOrder
<1>4. ASSUME NEW p \in Proc, RunStage(p) PROVE OrderInv'
  BY <1>4, OrderRunStage
<1>5. ASSUME NEW p \in Proc
      PROVE  ~SaveFails(p) /\ ~ReportFails(p) /\ ~BoundarySaveFails(p) /\ ~SaveFailureFails(p)
  BY DEF NoLateFailure, SaveFails, ReportFails, BoundarySaveFails, SaveFailureFails, Fault
<1>6. ASSUME NEW p \in Proc, Crash(p) \/ Interrupt(p) PROVE OrderInv'
  <2>1. Goto(p, "idle") /\ Frame(p) /\ UNCHANGED disk
    BY <1>6 DEF Crash, Interrupt, Gone, Goto, LocalInv, Frame
  <2>2. QED
    BY <2>1, OutsideKeepsOrder DEF CopyLabels
<1>7. CASE EnvironmentStep
  <2>1. \A s \in Stories : disk'[s].stages = disk[s].stages
    BY <1>7 DEF EnvironmentStep, Agrees
  <2>2. ASSUME NEW q \in Proc PROVE CopyOrdered(q)'
    <3>1. HasCopy(q)' <=> HasCopy(q)
      BY <1>7 DEF EnvironmentStep, HasCopy, InCriticalSection, At
    <3>2. HasCopy(q) => disk'[Story(q)].stages = disk[Story(q)].stages
      BY <2>1 DEF HasCopy, InCriticalSection, At, LocalInv, JobOK
    <3>3. QED
      BY <1>7, <3>1, <3>2 DEF EnvironmentStep, OrderInv, CopyOrdered, IsDoneIn, Story, Stage
  <2>3. QED
    BY <2>1, <2>2 DEF OrderInv, Ordered, IsDoneIn
<1>8. CASE RemoveStaleLock \/ UNCHANGED vars \/ \E s \in Stories : WriteScript(s)
  BY <1>7, <1>8, EnvironmentActs
<1>9. QED
  BY <1>1, <1>2, <1>3, <1>4, <1>5, <1>6, <1>8 DEF Next, Step, Choose, Finish, Fail

\* The order holds in every behaviour.
LEMMA OrderInvariant == NoLateFailure => (Spec => []OrderInv)
<1> SUFFICES ASSUME NoLateFailure PROVE Spec => []OrderInv
  OBVIOUS
<1>1. Init => OrderInv
  <2> SUFFICES ASSUME Init PROVE OrderInv
    OBVIOUS
  <2>1. \A p \in Proc : ~HasCopy(p) /\ pc[p] = "idle"
    BY DEF Init, HasCopy, InCriticalSection, InLock
  <2>2. \A s \in Stories, st \in Stages : ~IsDoneIn(disk[s], st)
    BY DEF Init, FreshState, PendingRecord, IsDoneIn
  <2>3. QED
    BY <2>1, <2>2, OrderedStages DEF OrderInv, CopyOrdered, Ordered
<1>2. TypeInv /\ MutualExclusion /\ CopyInv /\ OrderInv /\ [Next]_vars => OrderInv'
  BY OrderStep DEF TypeInv, LocalInv, MutexContext
<1>3. QED
  BY <1>1, <1>2, TypeInvariant, MutualExclusionHolds, CopyInvariant, PTL DEF Spec

\* A stage downstream is recorded as done only on top of done stages upstream,
\* whatever is killed or interrupted, as long as no save and no report raises.
THEOREM StagesInOrder == NoLateFailure => (Spec => []PipelineOrder)
<1> SUFFICES ASSUME NoLateFailure PROVE Spec => []PipelineOrder
  OBVIOUS
<1>1. OrderInv => PipelineOrder
  BY DEF OrderInv, Ordered, IsDoneIn, PipelineOrder
<1>2. QED
  BY <1>1, OrderInvariant, PTL

\* A completed stage is never un-done, whatever is killed or interrupted, as long
\* as no save and no report raises.
THEOREM CompletedStays == NoLateFailure => (Spec => CompletedStaysComplete)
<1> SUFFICES ASSUME NoLateFailure PROVE Spec => CompletedStaysComplete
  OBVIOUS
<1> DEFINE Kept == \A s \in Stories, st \in Stages :
         disk[s].stages[st].status = "done" => disk'[s].stages[st].status = "done"
<1>1. TypeInv /\ OrderInv /\ [Next]_vars => [Kept]_vars
  <2> SUFFICES ASSUME LocalInv, SharedInv, OrderInv, Next PROVE Kept
    BY DEF TypeInv, vars
  <2>1. CASE UNCHANGED disk
    BY <2>1
  <2>2. ASSUME NEW p \in Proc, Save(p) \/ SaveFailure(p) PROVE Kept
    <3>1. /\ disk' = [disk EXCEPT ![Story(p)] = mem[p]]
          /\ HasCopy(p)
      BY <2>2 DEF Save, SaveFailure, WriteState, HasCopy, InCriticalSection, InLock, At
    <3>2. QED
      BY <3>1 DEF SharedInv, OrderInv, CopyOrdered, IsDoneIn
  <2>3. ASSUME NEW t \in Stories, WriteScript(t) PROVE Kept
    <3>1. \A s \in Stories : disk'[s].stages = disk[s].stages
      BY <2>3 DEF WriteScript, SharedInv, StoryState
    <3>2. QED
      BY <3>1
  <2>4. QED
    BY <2>1, <2>2, <2>3, WritersOfState
<1>2. QED
  BY <1>1, TypeInvariant, OrderInvariant, PTL DEF Spec, CompletedStaysComplete

(***************************************************************************)
(* Dry runs simulate: what one has changed in its copy is only that a      *)
(* stage which is not done was tried.                                      *)
(***************************************************************************)
SameEvidence(m, n) ==
    \A st \in Stages :
        /\ n.stages[st].attempts = m.stages[st].attempts
        /\ IsDoneIn(n, st) <=> IsDoneIn(m, st)
Simulating(p) ==
    Dry(p) =>
        /\ pc[p] \notin {"calling", "packaging"}
        /\ pc[p] \in {"saving", "failing"} => SameEvidence(disk[Story(p)], mem[p])
SimulationInv == \A p \in Proc : Simulating(p)

\* What a step of a dry run may do to the files and the adapters.
LeavesEvidence ==
    /\ UNCHANGED <<calls, succeeded, package>>
    /\ \A s \in Stories : SameEvidence(disk[s], disk'[s])

LEMMA DryRunStage ==
    ASSUME LocalInv, NEW p \in Proc, CopyOK(p), Simulating(p), RunStage(p)
    PROVE  Simulating(p)' /\ (Dry(p) => LeavesEvidence)
<1>1. /\ pc[p] \in {"running", "calling", "packaging"} /\ job' = job /\ disk' = disk
      /\ Dry(p) => pc[p] = "running"
  BY DEF RunStage, SkipDone, BudgetExhausted, RunWithoutAdapter, StageRefused,
     AdapterNotConfigured, CallAdapter, AdapterFails, AdapterReturns, BeginPackage, PackageFails,
     FinishPackage, AudioMismatch, MayAttempt, At, Simulating
<1>2. CASE ~Dry(p)
  BY <1>1, <1>2 DEF Simulating, Dry
<1>3. CASE Dry(p)
  <2> DEFINE d == disk[Story(p)]
             st == Stage(p)
  <2>1. /\ st \in Stages /\ mem[p] \in StoryState
        /\ mem[p].stages = d.stages /\ d.stages \in [Stages -> StageRecord]
    BY <1>1, <1>3 DEF Agrees, StoryState, LocalInv, JobOK, CopyOK, HasCopy, InCriticalSection, InLock, At
  <2>2. ASSUME NEW n \in StoryState, SameEvidence(d, n), ~IsDoneIn(n, st),
               NEW status \in Statuses \ {"done"}
        PROVE  SameEvidence(d, SetStatus(n, st, status))
    BY <2>1, <2>2, SetStatusRevises DEF Revises, SameEvidence, IsDoneIn
  <2>3. ~IsDone(p) => /\ Attempted(p) \in StoryState /\ SameEvidence(d, Attempted(p))
                      /\ ~IsDoneIn(Attempted(p), st)
    <3>1. Attempted(p) = BeginAttempt(mem[p], st, TRUE) /\ Attempted(p) \in StoryState
      BY <1>3, <2>1, BeginAttemptType DEF Attempted, Dry, LocalInv, JobType
    <3>2. /\ \A x \in Stages \ {st} : Attempted(p).stages[x] = d.stages[x]
          /\ Attempted(p).stages[st] = [status |-> "running", attempts |-> d.stages[st].attempts]
      BY <2>1, <3>1 DEF BeginAttempt, StoryState
    <3>3. ~IsDone(p) => ~IsDoneIn(d, st)
      BY <2>1 DEF IsDone, IsDoneIn
    <3>4. /\ Attempted(p).stages[st].attempts = d.stages[st].attempts
          /\ ~IsDoneIn(Attempted(p), st)
      BY <3>2 DEF IsDoneIn
    <3>5. ~IsDone(p) => SameEvidence(d, Attempted(p))
      BY <3>2, <3>3, <3>4 DEF SameEvidence, IsDoneIn
    <3>6. QED
      BY <3>1, <3>4, <3>5
  <2>4. /\ UNCHANGED <<calls, succeeded, package>>
        /\ pc'[p] \in {"saving", "failing"} /\ SameEvidence(d, mem'[p])
    <3>1. CASE SkipDone(p)
      BY <2>1, <3>1 DEF SkipDone, Goto, LocalInv, SameEvidence, IsDoneIn
    <3>2. CASE RunWithoutAdapter(p)
      <4>1. /\ UNCHANGED <<calls, succeeded, package>> /\ ~IsDone(p) /\ pc'[p] = "saving"
            /\ mem'[p] = SetStatus(Attempted(p), st, "dry_run")
        BY <1>3, <3>2 DEF RunWithoutAdapter, Remember, Goto, LocalInv, MayAttempt
      <4>2. QED
        BY <2>2, <2>3, <4>1 DEF Statuses
    <3>3. CASE StageRefused(p)
      <4>1. /\ UNCHANGED <<calls, succeeded, package>> /\ ~IsDone(p) /\ pc'[p] = "failing"
            /\ mem'[p] = SetStatus(Attempted(p), st, "failed")
        BY <3>3 DEF StageRefused, Raise, Remember, Goto, LocalInv, MayAttempt
      <4>2. QED
        BY <2>2, <2>3, <4>1 DEF Statuses
    <3>4. QED
      BY <1>1, <1>3, <3>1, <3>2, <3>3
         DEF RunStage, BudgetExhausted, Exhausted, AdapterNotConfigured, CallAdapter, AdapterFails,
             AdapterReturns, BeginPackage, PackageFails, FinishPackage, AudioMismatch, At
  <2>5. \A s \in Stories : SameEvidence(disk[s], disk'[s])
    BY <1>1 DEF SameEvidence
  <2>6. Simulating(p)'
    BY <1>1, <2>4 DEF Simulating, Story, Dry
  <2>7. QED
    BY <2>4, <2>5, <2>6 DEF LeavesEvidence
<1>4. QED
  BY <1>2, <1>3

LEMMA DryMoves ==
    ASSUME NoLateFailure, LocalInv, SharedInv, NEW p \in Proc, CopyOK(p), Simulating(p),
           Start(p) \/ Step(p) \/ Fail(p)
    PROVE  Simulating(p)' /\ (Dry(p) /\ ~Start(p) => LeavesEvidence)
<1>1. ASSUME UNCHANGED disk PROVE \A s \in Stories : SameEvidence(disk[s], disk'[s])
  BY <1>1 DEF SameEvidence
<1>2. ASSUME pc'[p] \notin {"calling", "packaging", "saving", "failing"} PROVE Simulating(p)'
  BY <1>2 DEF Simulating
<1>3. CASE RunStage(p)
  BY <1>3, DryRunStage
<1>4. CASE Start(p)
  BY <1>2, <1>4 DEF Start, Goto, LocalInv
<1>5. CASE Enter(p) \/ Choose(p) \/ Report(p) \/ Release(p) \/ LockWriteFails(p)
  <2>1. UNCHANGED <<disk, calls, succeeded, package>>
        /\ pc'[p] \notin {"calling", "packaging", "saving", "failing"}
    BY <1>5 DEF Enter, CommandConfigError, AcquireLock, LockedOut, Choose, Load, LoadFails,
       ResumeStage, ResumeConfigError, ResumeBoundary, ResumeComplete, Report, Release,
       LockWriteFails, Gone, Goto, LocalInv
  <2>2. QED
    BY <1>1, <1>2, <2>1 DEF LeavesEvidence
<1>6. CASE Crash(p) \/ Interrupt(p)
  <2>1. UNCHANGED <<disk, calls, package>> /\ pc'[p] = "idle"
        /\ (pc[p] # "calling" => UNCHANGED succeeded)
    BY <1>6 DEF Crash, Interrupt, OrphanMayFinish, At, Gone, Goto, LocalInv
  <2>2. QED
    BY <1>1, <1>2, <2>1 DEF LeavesEvidence, Simulating
<1>7. CASE Save(p) \/ SaveFailure(p)
  <2>1. /\ UNCHANGED <<calls, succeeded, package>> /\ pc'[p] \in {"reporting", "closing"}
        /\ pc[p] \in {"saving", "boundary", "failing"}
        /\ disk' = [disk EXCEPT ![Story(p)] = mem[p]]
    BY <1>7 DEF Save, SaveFailure, WriteState, At, Goto, LocalInv
  <2>2. Dry(p) => SameEvidence(disk[Story(p)], mem[p])
    BY <2>1 DEF Simulating, CopyOK, Agrees, HasCopy, InCriticalSection, InLock, At, SameEvidence,
       IsDoneIn
  <2>3. Dry(p) => \A s \in Stories : SameEvidence(disk[s], disk'[s])
    BY <2>1, <2>2 DEF SharedInv, SameEvidence
  <2>4. QED
    BY <1>2, <2>1, <2>3 DEF LeavesEvidence
<1>8. QED
  BY <1>3, <1>4, <1>5, <1>6, <1>7
     DEF Step, Finish, Fail, NoLateFailure, SaveFails, BoundarySaveFails, ReportFails,
         SaveFailureFails, Fault

LEMMA SimulationStep ==
    ASSUME NoLateFailure, LocalInv, SharedInv, MutualExclusion, CopyInv, SimulationInv, [Next]_vars
    PROVE  /\ SimulationInv'
           /\ \A p \in Proc : Dry(p) /\ pc'[p] # pc[p] => Start(p) \/ LeavesEvidence
<1>1. ASSUME NEW q \in Proc, pc'[q] = pc[q], mem'[q] = mem[q], job'[q] = job[q],
             UNCHANGED disk \/ ~InCriticalSection(q)
      PROVE  Simulating(q)'
  BY <1>1 DEF SimulationInv, Simulating, InCriticalSection, InLock, Story, Dry
<1>2. ASSUME NEW p \in Proc, Start(p) \/ Step(p) \/ Fail(p), Bystanders(p)
      PROVE  /\ SimulationInv'
             /\ \A q \in Proc : Dry(q) /\ pc'[q] # pc[q] => Start(q) \/ LeavesEvidence
  <2>1. Simulating(p)' /\ (Dry(p) => Start(p) \/ LeavesEvidence)
    BY <1>2, DryMoves DEF CopyInv, SimulationInv
  <2>2. \A q \in Proc \ {p} : UNCHANGED disk \/ ~InCriticalSection(q)
    BY <1>2 DEF Bystanders, MutualExclusion
  <2>3. \A q \in Proc \ {p} : Simulating(q)' /\ pc'[q] = pc[q]
    BY <1>1, <1>2, <2>2 DEF Bystanders, Frame
  <2>4. QED
    BY <2>1, <2>3 DEF SimulationInv
<1>3. ASSUME EnvironmentStep PROVE SimulationInv' /\ pc' = pc
  <2>1. ASSUME NEW q \in Proc PROVE Simulating(q)'
    <3>1. pc[q] \in {"saving", "failing"} => disk'[Story(q)].stages = disk[Story(q)].stages
      BY <1>3 DEF EnvironmentStep, Agrees, LocalInv, JobOK, InLock
    <3>2. QED
      BY <1>3, <3>1
         DEF EnvironmentStep, SimulationInv, Simulating, SameEvidence, IsDoneIn, Story, Dry
  <2>2. QED
    BY <1>3, <2>1 DEF EnvironmentStep, SimulationInv
<1>4. QED
  BY <1>2, <1>3, SomebodyMoves

\* A dry run starts no adapter, spends no attempt and leaves every record as done as
\* it found it, as long as no save and no report raises (runner.py: _execute_stage).
THEOREM DryRunsSimulate == NoLateFailure => (Spec => DryRunsAreSimulations)
<1> SUFFICES ASSUME NoLateFailure PROVE Spec => DryRunsAreSimulations
  OBVIOUS
<1> DEFINE Simulates ==
       \A p \in Proc : Dry(p) /\ pc'[p] # pc[p] =>
         /\ UNCHANGED <<calls, succeeded, package>>
         /\ \A s \in Stories, st \in Stages :
              /\ disk'[s].stages[st].attempts = disk[s].stages[st].attempts
              /\ disk'[s].stages[st].status = "done" <=> disk[s].stages[st].status = "done"
<1>1. Init => SimulationInv
  BY DEF Init, SimulationInv, Simulating
<1>2. TypeInv /\ MutualExclusion /\ CopyInv /\ SimulationInv /\ [Next]_vars => SimulationInv'
  BY SimulationStep DEF TypeInv
<1>3. TypeInv /\ MutualExclusion /\ CopyInv /\ SimulationInv /\ [Next]_vars => [Simulates]_vars
  <2> SUFFICES ASSUME LocalInv, SharedInv, MutualExclusion, CopyInv, SimulationInv, [Next]_vars,
                      NEW p \in Proc, Dry(p), pc'[p] # pc[p]
               PROVE  /\ UNCHANGED <<calls, succeeded, package>>
                      /\ \A s \in Stories, st \in Stages :
                           /\ disk'[s].stages[st].attempts = disk[s].stages[st].attempts
                           /\ disk'[s].stages[st].status = "done" <=>
                                 disk[s].stages[st].status = "done"
    BY DEF TypeInv
  <2>1. CASE LeavesEvidence
    BY <2>1 DEF LeavesEvidence, SameEvidence, IsDoneIn
  <2>2. CASE Start(p)
    BY <2>2 DEF Start
  <2>3. QED
    BY <2>1, <2>2, SimulationStep
<1>4. Spec => []SimulationInv
  BY <1>1, <1>2, TypeInvariant, MutualExclusionHolds, CopyInvariant, PTL DEF Spec
<1>5. QED
  BY <1>3, <1>4, TypeInvariant, MutualExclusionHolds, CopyInvariant, PTL
     DEF Spec, DryRunsAreSimulations
===============================================================================
