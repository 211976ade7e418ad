----------------------------- MODULE LedgerProofs -----------------------------
(***************************************************************************)
(* The proofs that repetition is bounded: an adapter is started once per   *)
(* recorded attempt, and every piece of its work is accounted for by an    *)
(* attempt, up to one more for every fault.  The account of a story is     *)
(* kept by whoever has a copy of its state file, and by the file itself    *)
(* when nobody has.                                                        *)
(***************************************************************************)
EXTENDS EvidenceProofs

\* A story's account: c adapter starts by stage, f faults.
Balanced(m, c, f) == \A st \in Stages : c[st] <= m.stages[st].attempts + f

CopyBalanced(p) == HasCopy(p) => Balanced(mem[p], calls[Story(p)], faults)
FileBalanced(s) ==
    (\A p \in Proc : HasCopy(p) => Story(p) # s) => Balanced(disk[s], calls[s], faults)
LedgerInv == (\A p \in Proc : CopyBalanced(p)) /\ (\A s \in Stories : FileBalanced(s))

\* An account stays balanced if each side moves no further than the other.
LEMMA BalanceMoves ==
    ASSUME NEW m \in StoryState, NEW n \in StoryState, NEW c \in Counts, NEW c2 \in Counts,
           NEW f \in Nat, NEW g \in Nat, Balanced(m, c, f),
           \A st \in Stages :
              c2[st] + m.stages[st].attempts + f <= c[st] + n.stages[st].attempts + g
    PROVE  Balanced(n, c2, g)
<1> SUFFICES ASSUME NEW st \in Stages PROVE c2[st] <= n.stages[st].attempts + g
  BY DEF Balanced
<1>1. /\ m.stages[st].attempts \in Nat /\ n.stages[st].attempts \in Nat
      /\ c[st] \in Nat /\ c2[st] \in Nat
  BY BudgetAssumption DEF StoryState, StageRecord, Counts
<1>2. QED
  BY <1>1 DEF Balanced

\* One fault pays for a copy that is lost.
LEMMA FaultPaysForCopy ==
    ASSUME NEW d \in StoryState, NEW m \in StoryState, NEW st, Extends(d, m, st),
           NEW c \in Counts, NEW f \in Nat, Balanced(m, c, f)
    PROVE  Balanced(d, c, f + 1)
<1> SUFFICES ASSUME NEW x \in Stages
    PROVE c[x] + m.stages[x].attempts + f <= c[x] + d.stages[x].attempts + (f + 1)
  BY BalanceMoves
<1>1. m.stages[x].attempts \in Nat /\ d.stages[x].attempts \in Nat /\ c[x] \in Nat
  BY BudgetAssumption DEF StoryState, StageRecord, Counts
<1>2. m.stages[x].attempts <= d.stages[x].attempts + 1
  BY <1>1 DEF Extends
<1>3. QED
  BY <1>1, <1>2

\* An account is of the records alone, and more faults only relax it.
LEMMA FaultsForgive ==
    ASSUME NEW m \in StoryState, NEW n, n.stages = m.stages, NEW c \in Counts,
           NEW f \in Nat, NEW g \in Nat, f <= g, Balanced(m, c, f)
    PROVE  Balanced(n, c, g)
<1>1. \A st \in Stages : m.stages[st].attempts \in Nat
  BY BudgetAssumption DEF StoryState, StageRecord
<1>2. QED
  BY <1>1 DEF Balanced, Counts

(***************************************************************************)
(* Who keeps the account.                                                  *)
(***************************************************************************)
\* Nothing happens to the accounts of the other stories.
OthersUntouched(p) ==
    /\ Frame(p)
    /\ \A s \in Stories \ {Story(p)} : disk'[s] = disk[s] /\ calls'[s] = calls[s]
    /\ faults' \in Nat /\ faults' >= faults

\* p keeps its copy, and with it the account of its story.
LEMMA CopyStaysBalanced ==
    ASSUME SharedInv, MutexContext, MutexContext', LedgerInv, NEW p \in Proc,
           pc[p] \in CopyLabels, pc'[p] \in CopyLabels, Story(p)' = Story(p), OthersUntouched(p),
           Balanced(mem'[p], calls'[Story(p)], faults')
    PROVE  LedgerInv'
<1>1. HasCopy(p) /\ HasCopy(p)'
  BY CopyByLabel DEF MutexContext, HasCopy, InCriticalSection, InLock, CopyLabels, At
<1>2. \A q \in Proc \ {p} : ~HasCopy(q) /\ ~HasCopy(q)'
  BY <1>1, LockAssumption
     DEF OthersUntouched, Frame, HasCopy, InCriticalSection, At, MutexContext, MutualExclusion
<1>3. \A q \in Proc : CopyBalanced(q)'
  BY <1>1, <1>2 DEF CopyBalanced
<1>4. ASSUME NEW s \in Stories \ {Story(p)} PROVE FileBalanced(s)'
  <2>1. Balanced(disk[s], calls[s], faults)
    BY <1>1, <1>2, <1>4 DEF LedgerInv, FileBalanced
  <2>2. Balanced(disk[s], calls[s], faults')
    BY <1>4, <2>1, AccountTypes, FaultsForgive DEF OthersUntouched
  <2>3. QED
    BY <1>4, <2>2 DEF OthersUntouched, FileBalanced
<1>5. \A s \in Stories : FileBalanced(s)'
  BY <1>1, <1>4 DEF FileBalanced
<1>6. QED
  BY <1>3, <1>5 DEF LedgerInv

\* p gives its copy up: the account goes back to the file.
LEMMA FileTakesOver ==
    ASSUME SharedInv, MutexContext, LedgerInv, NEW p \in Proc, NEW l, Goto(p, l), l \notin CopyLabels,
           pc[p] \in CopyLabels, OthersUntouched(p),
           Balanced(disk'[Story(p)], calls'[Story(p)], faults')
    PROVE  LedgerInv'
<1>1. HasCopy(p) /\ ~HasCopy(p)'
  BY CopyByLabel DEF MutexContext, Goto, HasCopy, InCriticalSection, InLock, CopyLabels, At
<1>2. \A q \in Proc \ {p} : ~HasCopy(q) /\ ~HasCopy(q)'
  BY <1>1, LockAssumption
     DEF OthersUntouched, Frame, HasCopy, InCriticalSection, At, MutexContext, MutualExclusion
<1>3. \A q \in Proc : CopyBalanced(q)'
  BY <1>1, <1>2 DEF CopyBalanced
<1>4. ASSUME NEW s \in Stories \ {Story(p)} PROVE FileBalanced(s)'
  <2>1. Balanced(disk[s], calls[s], faults)
    BY <1>1, <1>2, <1>4 DEF LedgerInv, FileBalanced
  <2>2. Balanced(disk[s], calls[s], faults')
    BY <1>4, <2>1, AccountTypes, FaultsForgive DEF OthersUntouched
  <2>3. QED
    BY <1>4, <2>2 DEF OthersUntouched, FileBalanced
<1>5. \A s \in Stories : FileBalanced(s)'
  BY <1>4 DEF FileBalanced
<1>6. QED
  BY <1>3, <1>5 DEF LedgerInv

\* A step in which no invocation gets, works on or gives up a copy.
LEMMA CopiesRest ==
    ASSUME LocalInv, SharedInv, MutexContext, LedgerInv,
           \A q \in Proc :
              /\ HasCopy(q)' <=> HasCopy(q)
              /\ HasCopy(q) => mem'[q] = mem[q] /\ Story(q)' = Story(q),
           \A s \in Stories : disk'[s].stages = disk[s].stages,
           UNCHANGED calls, faults' \in Nat, faults <= faults'
    PROVE  LedgerInv'
<1>1. ASSUME NEW q \in Proc PROVE CopyBalanced(q)'
  <2>1. SUFFICES ASSUME HasCopy(q)' PROVE Balanced(mem'[q], calls'[Story(q)'], faults')
    BY DEF CopyBalanced
  <2>2. HasCopy(q) /\ pc[q] \in CopyLabels
    BY <2>1, CopyByLabel
  <2>3. Story(q) \in Stories /\ mem[q] \in StoryState
    BY <2>2 DEF LocalInv, JobOK, CopyLabels, InLock
  <2>4. Balanced(mem[q], calls[Story(q)], faults)
    BY <2>2 DEF LedgerInv, CopyBalanced
  <2>5. QED
    BY <2>2, <2>3, <2>4, AccountTypes, FaultsForgive
<1>2. ASSUME NEW s \in Stories PROVE FileBalanced(s)'
  <2>1. SUFFICES ASSUME \A q \in Proc : HasCopy(q)' => Story(q)' # s
        PROVE Balanced(disk'[s], calls[s], faults')
    BY DEF FileBalanced
  <2>2. Balanced(disk[s], calls[s], faults)
    BY <2>1 DEF LedgerInv, FileBalanced
  <2>3. QED
    BY <2>2, AccountTypes, FaultsForgive
<1>3. QED
  BY <1>1, <1>2 DEF LedgerInv

\* p has no copy before or after.
LEMMA NoCopyInvolved ==
    ASSUME LocalInv, SharedInv, MutexContext, LedgerInv, NEW p \in Proc, NEW l, Goto(p, l),
           l \notin CopyLabels, pc[p] \notin CopyLabels, Frame(p),
           UNCHANGED <<disk, calls>>, faults' \in Nat, faults <= faults'
    PROVE  LedgerInv'
<1>1. ~HasCopy(p) /\ ~HasCopy(p)'
  BY CopyByLabel DEF MutexContext, Goto, HasCopy, InCriticalSection, InLock, CopyLabels, At
<1>2. \A q \in Proc \ {p} :
         /\ HasCopy(q)' <=> HasCopy(q)
         /\ mem'[q] = mem[q] /\ Story(q)' = Story(q)
  BY DEF Frame, HasCopy, InCriticalSection, At, Story
<1>3. QED
  BY <1>1, <1>2, CopiesRest

\* What is known of the account while p has a copy.
LEMMA LedgerFacts ==
    ASSUME LocalInv, SharedInv, MutexContext, CopyInv, LedgerInv,
           NEW p \in Proc, pc[p] \in CopyLabels
    PROVE  /\ Balanced(mem[p], calls[Story(p)], faults)
           /\ Story(p) \in Stories /\ mem[p] \in StoryState /\ disk[Story(p)] \in StoryState
           /\ calls[Story(p)] \in Counts /\ faults \in Nat
           /\ Extends(disk[Story(p)], mem[p], Stage(p))
BY CopyFacts, AccountTypes DEF LedgerInv, CopyBalanced

\* The copy moves on: it takes back no attempt and no adapter is started.
LEMMA CopyMovesOn ==
    ASSUME LocalInv, SharedInv, MutexContext, MutexContext', CopyInv, LedgerInv,
           NEW p \in Proc, NEW l \in CopyLabels, Goto(p, l), pc[p] \in CopyLabels,
           Stage(p) \in Stages, NEW n \in StoryState, NEW k \in StoryState,
           Extends(mem[p], n, Stage(p)), Revises(n, k, Stage(p)), mem' = [mem EXCEPT ![p] = k],
           UNCHANGED <<disk, job, calls>>, faults' \in Nat, faults <= faults'
    PROVE  LedgerInv'
<1>1. mem'[p] = k /\ pc'[p] \in CopyLabels /\ OthersUntouched(p) /\ Story(p)' = Story(p)
  BY DEF Goto, LocalInv, Frame, OthersUntouched, Story
<1>2. /\ mem[p] \in StoryState /\ calls[Story(p)] \in Counts /\ faults \in Nat
      /\ Balanced(mem[p], calls[Story(p)], faults)
  BY LedgerFacts
<1>3. ASSUME NEW x \in Stages
      PROVE  calls[Story(p)][x] + mem[p].stages[x].attempts + faults
                 <= calls[Story(p)][x] + k.stages[x].attempts + faults'
  <2>1. mem[p].stages[x].attempts \in Nat /\ k.stages[x].attempts \in Nat /\ calls[Story(p)][x] \in Nat
    BY <1>2, BudgetAssumption DEF StoryState, StageRecord, Counts
  <2>2. k.stages[x].attempts >= mem[p].stages[x].attempts
    BY <2>1 DEF Extends, Revises
  <2>3. QED
    BY <1>2, <2>1, <2>2
<1>4. Balanced(k, calls[Story(p)], faults')
  BY <1>2, <1>3, BalanceMoves
<1>5. QED
  BY <1>1, <1>4, CopyStaysBalanced

\* A handler keeps the ledger.
LEMMA RaiseKeepsLedger ==
    ASSUME LocalInv, SharedInv, MutexContext, MutexContext', CopyInv, LedgerInv,
           NEW p \in Proc, pc[p] \in CopyLabels, Stage(p) \in Stages,
           NEW n \in StoryState, NEW c, Extends(mem[p], n, Stage(p)), Raise(p, n, c),
           UNCHANGED <<disk, job, calls>>, faults' \in Nat, faults <= faults'
    PROVE  LedgerInv'
<1>1. /\ SetStatus(n, Stage(p), "failed") \in StoryState
      /\ Revises(n, SetStatus(n, Stage(p), "failed"), Stage(p))
  BY SetStatusType, SetStatusRevises DEF Statuses
<1>2. Goto(p, "failing") /\ mem' = [mem EXCEPT ![p] = SetStatus(n, Stage(p), "failed")]
  BY DEF Raise, Remember
<1>3. QED
  BY <1>1, <1>2, CopyMovesOn DEF CopyLabels

\* A fault is counted.
LEMMA FaultCounts ==
    ASSUME SharedInv, NEW kind, Fault(kind)
    PROVE  faults' \in Nat /\ faults' = faults + 1 /\ faults <= faults'
BY BudgetAssumption DEF SharedInv, Fault

\* run_stage keeps the ledger, one case per way it may go.
LEMMA LedgerRunStage ==
    ASSUME LocalInv, SharedInv, MutexContext, MutexContext', CopyInv, LedgerInv,
           NEW p \in Proc, RunStage(p)
    PROVE  LedgerInv'
<1> DEFINE s == Story(p)
           st == Stage(p)
<1>1. /\ pc[p] \in {"running", "calling", "packaging"} /\ pc[p] \in CopyLabels
      /\ UNCHANGED <<disk, job, faults>>
  BY DEF RunStage, SkipDone, BudgetExhausted, RunWithoutAdapter, StageRefused,
         AdapterNotConfigured, CallAdapter, AdapterFails, AdapterReturns, BeginPackage,
         PackageFails, FinishPackage, AudioMismatch, MayAttempt, At, CopyLabels
<1>2. /\ st \in Stages /\ s \in Stories /\ Dry(p) \in BOOLEAN /\ mem[p] \in StoryState
      /\ Balanced(mem[p], calls[s], faults) /\ calls[s] \in Counts /\ faults \in Nat
  BY <1>1, CopyFacts, LedgerFacts
<1>3. ~Exhausted(p) => Attempted(p) \in StoryState
  BY <1>2, BeginAttemptType DEF Attempted, Exhausted
<1>4. /\ Extends(mem[p], Attempted(p), st)
      /\ ~Dry(p) => Attempted(p).stages[st].attempts = mem[p].stages[st].attempts + 1
  BY <1>2, BeginAttemptExtends DEF Attempted, BeginAttempt, StoryState, StageRecord
<1>5. CASE SkipDone(p) \/ BeginPackage(p)
  <2>1. UNCHANGED <<mem, calls>> /\ pc'[p] \in CopyLabels /\ OthersUntouched(p) /\ Story(p)' = Story(p)
    BY <1>1, <1>2, <1>5
       DEF SkipDone, BeginPackage, Goto, LocalInv, CopyLabels, OthersUntouched, Frame, Story
  <2>2. QED
    BY <1>1, <1>2, <2>1, CopyStaysBalanced
<1>6. CASE BudgetExhausted(p) \/ AdapterFails(p) \/ PackageFails(p)
  <2>1. Raise(p, mem[p], "SUBPROCESS") /\ UNCHANGED calls
    BY <1>6 DEF BudgetExhausted, AdapterFails, PackageFails
  <2>2. QED
    BY <1>1, <1>2, <2>1, ExtendsItself, RaiseKeepsLedger
<1>7. CASE StageRefused(p) \/ AdapterNotConfigured(p)
  <2>1. /\ ~Exhausted(p) /\ UNCHANGED calls
        /\ \E c \in ExitCodes : Raise(p, Attempted(p), c)
    BY <1>7 DEF StageRefused, AdapterNotConfigured, MayAttempt, ExitCodes
  <2>2. QED
    BY <1>1, <1>2, <1>3, <1>4, <2>1, RaiseKeepsLedger
<1>8. CASE AudioMismatch(p)
  <2> DEFINE m == [mem[p] EXCEPT !.artifacts = @ \cup {"package_dir"}]
  <2>1. m \in StoryState /\ Extends(mem[p], m, st)
    BY <1>2 DEF StoryState, Artifacts, Extends
  <2>2. Raise(p, m, "SUBPROCESS") /\ UNCHANGED calls
    BY <1>8 DEF AudioMismatch
  <2> HIDE DEF m
  <2>3. QED
    BY <1>1, <1>2, <2>1, <2>2, RaiseKeepsLedger
<1>9. CASE RunWithoutAdapter(p)
  <2> DEFINE n == SetStatus(Attempted(p), st, IF Dry(p) THEN "dry_run" ELSE "done")
  <2>1. /\ ~Exhausted(p) /\ UNCHANGED calls /\ Goto(p, "saving") /\ mem' = [mem EXCEPT ![p] = n]
    BY <1>9 DEF RunWithoutAdapter, MayAttempt, Remember
  <2>2. n \in StoryState /\ Revises(Attempted(p), n, st)
    BY <1>2, <1>3, <2>1, SetStatusType, SetStatusRevises DEF Statuses
  <2> HIDE DEF n
  <2>3. "saving" \in CopyLabels /\ faults' \in Nat /\ faults <= faults'
    BY <1>1, <1>2 DEF CopyLabels
  <2>4. QED
    BY <1>1, <1>2, <1>3, <1>4, <2>1, <2>2, <2>3, CopyMovesOn
<1>10. CASE CallAdapter(p)
  <2>1. /\ ~Exhausted(p) /\ ~Dry(p) /\ calls' = [calls EXCEPT ![s][st] = @ + 1]
    BY <1>10 DEF CallAdapter, MayAttempt
  <2>2. calls'[s] = [calls[s] EXCEPT ![st] = @ + 1] /\ calls'[s] \in Counts
    BY <1>2, <2>1 DEF SharedInv, Counts
  <2>3. mem'[p] = Attempted(p) /\ pc'[p] \in CopyLabels /\ OthersUntouched(p) /\ Story(p)' = Story(p)
    BY <1>1, <1>2, <1>10, <2>1
       DEF CallAdapter, Remember, Goto, LocalInv, SharedInv, CopyLabels, OthersUntouched, Frame, Story
  <2>4. Attempted(p) \in StoryState
    BY <1>3, <2>1
  <2>5. ASSUME NEW x \in Stages
        PROVE  calls'[s][x] + mem[p].stages[x].attempts + faults
                   <= calls[s][x] + Attempted(p).stages[x].attempts + faults
    <3>1. /\ calls[s][x] \in Nat /\ mem[p].stages[x].attempts \in Nat
          /\ calls'[s][x] = IF x = st THEN calls[s][x] + 1 ELSE calls[s][x]
      BY <1>2, <2>2, BudgetAssumption DEF Counts, StoryState, StageRecord
    <3>2. Attempted(p).stages[x].attempts =
             IF x = st THEN mem[p].stages[x].attempts + 1 ELSE mem[p].stages[x].attempts
      BY <1>4, <2>1 DEF Extends
    <3>3. QED
      BY <1>2, <3>1, <3>2
  <2>6. Balanced(Attempted(p), calls'[s], faults)
    BY <1>2, <2>2, <2>4, <2>5, BalanceMoves
  <2>7. QED
    BY <1>1, <1>2, <2>3, <2>6, CopyStaysBalanced
<1>11. CASE AdapterReturns(p) \/ FinishPackage(p)
  <2>1. PICK a \in SUBSET Artifacts : Succeed(p, a)
    BY <1>11 DEF AdapterReturns, FinishPackage, Artifacts
  <2> DEFINE n == MarkDone(mem[p], st, a)
  <2>2. n \in StoryState /\ Revises(mem[p], n, st)
    BY <1>2, MarkDoneType, MarkDoneRevises
  <2>3. mem' = [mem EXCEPT ![p] = n] /\ Goto(p, "saving") /\ UNCHANGED calls
    BY <1>11, <2>1 DEF AdapterReturns, FinishPackage, Succeed, Remember
  <2> HIDE DEF n
  <2>4. "saving" \in CopyLabels /\ faults' \in Nat /\ faults <= faults'
    BY <1>1, <1>2 DEF CopyLabels
  <2>5. QED
    BY <1>1, <1>2, <2>2, <2>3, <2>4, ExtendsItself, CopyMovesOn
<1>12. QED
  BY <1>5, <1>6, <1>7, <1>8, <1>9, <1>10, <1>11 DEF RunStage

\* Every action keeps the ledger.
LEMMA LedgerStep ==
    ASSUME LocalInv, SharedInv, MutexContext, MutexContext', CopyInv, LedgerInv, [Next]_vars
    PROVE  LedgerInv'
<1>1. ASSUME NEW p \in Proc, Start(p) \/ Enter(p) \/ LoadFails(p) \/ LockWriteFails(p) \/ Release(p)
      PROVE  LedgerInv'
  <2>1. faults' \in Nat /\ faults <= faults'
    BY <1>1, AccountTypes, FaultCounts
       DEF Start, Enter, CommandConfigError, AcquireLock, LockedOut, LoadFails, LockWriteFails, Release
  <2>2. /\ \E l \in {"idle", "starting", "entered", "closing"} : Goto(p, l)
        /\ pc[p] \notin CopyLabels /\ Frame(p) /\ UNCHANGED <<disk, calls>>
    BY <1>1
       DEF Start, Enter, CommandConfigError, AcquireLock, LockedOut, LoadFails, LockWriteFails,
           Release, MayLock, Gone, Goto, At, Frame, LocalInv, CopyLabels
  <2>3. QED
    BY <2>1, <2>2, NoCopyInvolved DEF CopyLabels
<1>2. ASSUME NEW p \in Proc, Load(p) PROVE LedgerInv'
  <2>1. PICK s \in Stories :
           job' = [job EXCEPT ![p].story = s] /\ mem' = [mem EXCEPT ![p] = disk[s]]
    BY <1>2 DEF Load, Remember
  <2>2. PICK l \in {"choosing", "running"} : pc' = [pc EXCEPT ![p] = l]
    BY <1>2 DEF Load, Goto
  <2>3. /\ Story(p)' = s /\ mem'[p] = disk[s] /\ pc[p] = "entered" /\ pc'[p] = l
        /\ UNCHANGED <<disk, calls, faults>> /\ Frame(p)
    BY <1>2, <2>1, <2>2 DEF LocalInv, JobType, Story, Frame, Load, At
  <2>4. \A q \in Proc : ~HasCopy(q) /\ (HasCopy(q)' => q = p)
    BY <2>3, LockAssumption
       DEF Frame, HasCopy, InCriticalSection, InLock, At, MutexContext, MutualExclusion
  <2>5. \A t \in Stories : Balanced(disk[t], calls[t], faults)
    BY <2>4 DEF LedgerInv, FileBalanced
  <2>6. \A q \in Proc : CopyBalanced(q)'
    BY <2>3, <2>4, <2>5 DEF CopyBalanced
  <2>7. \A t \in Stories : FileBalanced(t)'
    BY <2>3, <2>5 DEF FileBalanced
  <2>8. QED
    BY <2>6, <2>7 DEF LedgerInv
<1>3. ASSUME NEW p \in Proc, ResumeStage(p) \/ ResumeBoundary(p) \/ ResumeComplete(p) \/ Save(p)
      PROVE  LedgerInv'
  <2>1. /\ pc[p] \in CopyLabels /\ UNCHANGED <<mem, calls, faults>>
        /\ \E l \in CopyLabels : Goto(p, l)
        /\ UNCHANGED disk \/ disk' = [disk EXCEPT ![Story(p)] = mem[p]]
        /\ UNCHANGED job \/ \E st \in Stages : job' = [job EXCEPT ![p].stage = st]
    BY <1>3, StageTypes
       DEF ResumeStage, ResumeBoundary, ResumeComplete, Save, At, CopyLabels, WriteState
  <2>2. Balanced(mem[p], calls[Story(p)], faults) /\ faults \in Nat /\ Story(p) \in Stories
    BY <2>1, LedgerFacts
  <2>3. /\ pc'[p] \in CopyLabels /\ Story(p)' = Story(p)
    BY <2>1 DEF Goto, LocalInv, JobType, Story
  <2>4. OthersUntouched(p)
    BY <2>1, <2>2 DEF Goto, LocalInv, SharedInv, OthersUntouched, Frame
  <2>5. QED
    BY <2>1, <2>2, <2>3, <2>4, CopyStaysBalanced
<1>4. ASSUME NEW p \in Proc, RunStage(p) PROVE LedgerInv'
  BY <1>4, LedgerRunStage
<1>5. ASSUME NEW p \in Proc, SaveFails(p) PROVE LedgerInv'
  <2>1. /\ pc[p] = "saving" /\ pc[p] \in CopyLabels /\ Raise(p, mem[p], "SUBPROCESS")
        /\ UNCHANGED <<disk, job, calls>> /\ faults' \in Nat /\ faults <= faults'
    BY <1>5, FaultCounts DEF SaveFails, At, CopyLabels
  <2>2. mem[p] \in StoryState /\ Stage(p) \in Stages
    BY <2>1, CopyFacts
  <2>3. QED
    BY <2>1, <2>2, ExtendsItself, RaiseKeepsLedger
<1>6. ASSUME NEW p \in Proc, ReportFails(p), job[p].cmd # "resume" PROVE LedgerInv'
  <2>1. /\ pc[p] = "reporting" /\ pc[p] \in CopyLabels /\ Raise(p, mem[p], "SUBPROCESS")
        /\ UNCHANGED <<disk, job, calls>> /\ faults' \in Nat /\ faults <= faults'
    BY <1>6, FaultCounts DEF ReportFails, At, CopyLabels
  <2>2. mem[p] \in StoryState /\ Stage(p) \in Stages
    BY <1>6, <2>1, CopyFacts DEF LocalInv, JobOK, At
  <2>3. QED
    BY <2>1, <2>2, ExtendsItself, RaiseKeepsLedger
<1>7. ASSUME NEW p \in Proc,
             \/ ResumeConfigError(p) \/ Report(p) \/ SaveFailure(p) \/ BoundarySaveFails(p)
             \/ ReportFails(p) /\ job[p].cmd = "resume"
      PROVE  LedgerInv'
  <2>1. /\ pc[p] \in CopyLabels /\ Goto(p, "closing") /\ UNCHANGED calls
        /\ UNCHANGED disk \/ disk' = [disk EXCEPT ![Story(p)] = mem[p]]
        /\ faults' \in Nat /\ faults <= faults'
    BY <1>7, AccountTypes, FaultCounts
       DEF ResumeConfigError, Report, SaveFailure, BoundarySaveFails, ReportFails, At, CopyLabels,
           WriteState
  <2>2. /\ mem[p] \in StoryState /\ Story(p) \in Stories /\ calls[Story(p)] \in Counts
        /\ faults \in Nat /\ Balanced(mem[p], calls[Story(p)], faults)
    BY <2>1, LedgerFacts
  <2>3. disk'[Story(p)].stages = mem[p].stages
    <3>1. CASE SaveFailure(p)
      BY <2>2, <3>1 DEF SaveFailure, WriteState, SharedInv
    <3>2. CASE ~SaveFailure(p)
      <4>1. pc[p] \in {"choosing", "boundary", "reporting"} /\ UNCHANGED disk
        BY <1>7, <3>2
           DEF ResumeConfigError, Report, BoundarySaveFails, ReportFails, At
      <4>2. QED
        BY <4>1 DEF CopyInv, CopyOK, Agrees, HasCopy, InCriticalSection, InLock, At
    <3>3. QED
      BY <3>1, <3>2
  <2>4. Balanced(disk'[Story(p)], calls[Story(p)], faults')
    BY <2>1, <2>2, <2>3, FaultsForgive
  <2>5. OthersUntouched(p)
    BY <1>7, <2>1
       DEF ResumeConfigError, Report, SaveFailure, BoundarySaveFails, ReportFails, Goto,
           LocalInv, SharedInv, OthersUntouched, Frame
  <2>6. QED
    BY <2>1, <2>4, <2>5, FileTakesOver DEF CopyLabels
<1>8. ASSUME NEW p \in Proc, SaveFailureFails(p) \/ Crash(p) \/ Interrupt(p), pc[p] \in CopyLabels
      PROVE  LedgerInv'
  <2>1. /\ \E l \in {"closing", "idle"} : Goto(p, l)
        /\ UNCHANGED <<disk, calls>> /\ faults' \in Nat /\ faults' = faults + 1
    BY <1>8, FaultCounts DEF SaveFailureFails, Crash, Interrupt, Gone
  <2>2. /\ Balanced(mem[p], calls[Story(p)], faults)
        /\ mem[p] \in StoryState /\ disk[Story(p)] \in StoryState
        /\ calls[Story(p)] \in Counts /\ faults \in Nat
        /\ Extends(disk[Story(p)], mem[p], Stage(p))
    BY <1>8, LedgerFacts
  <2>3. Balanced(disk[Story(p)], calls[Story(p)], faults + 1)
    BY <2>2, FaultPaysForCopy
  <2>4. OthersUntouched(p)
    <3>1. Frame(p)
      BY <1>8 DEF SaveFailureFails, Crash, Interrupt, Gone, Goto, LocalInv, Frame
    <3>2. QED
      BY <2>1, <2>2, <3>1 DEF OthersUntouched
  <2>5. QED
    BY <1>8, <2>1, <2>3, <2>4, FileTakesOver DEF CopyLabels
<1>9. ASSUME NEW p \in Proc, Crash(p) \/ Interrupt(p), pc[p] \notin CopyLabels PROVE LedgerInv'
  <2>1. /\ Goto(p, "idle") /\ Frame(p) /\ UNCHANGED <<disk, calls>>
        /\ faults' \in Nat /\ faults <= faults'
    BY <1>9, FaultCounts DEF Crash, Interrupt, Gone, Goto, LocalInv, Frame
  <2>2. QED
    BY <1>9, <2>1, NoCopyInvolved DEF CopyLabels
<1>10. ASSUME RemoveStaleLock \/ UNCHANGED vars \/ \E t \in Stories : WriteScript(t) PROVE LedgerInv'
  <2>1. EnvironmentStep
    BY <1>10, EnvironmentActs
  <2>2. /\ \A q \in Proc : (HasCopy(q)' <=> HasCopy(q)) /\ mem'[q] = mem[q] /\ Story(q)' = Story(q)
        /\ \A s \in Stories : disk'[s].stages = disk[s].stages
        /\ UNCHANGED <<calls, faults>>
    BY <2>1 DEF EnvironmentStep, Agrees, HasCopy, InCriticalSection, At, Story
  <2>3. faults' \in Nat /\ faults <= faults'
    BY <2>2, AccountTypes
  <2>4. QED
    BY <2>2, <2>3, CopiesRest
<1>11. QED
  <2>1. ASSUME NEW p \in Proc, SaveFailureFails(p) PROVE pc[p] \in CopyLabels
    BY <2>1 DEF SaveFailureFails, At, CopyLabels
  <2>2. QED
    BY <1>1, <1>2, <1>3, <1>4, <1>5, <1>6, <1>7, <1>8, <1>9, <1>10, <2>1
       DEF Next, Step, Choose, Finish, Fail

\* The ledger is balanced in every behaviour.
LEMMA LedgerInvariant == Spec => []LedgerInv
<1>1. Init => LedgerInv
  <2> SUFFICES ASSUME Init PROVE LedgerInv
    OBVIOUS
  <2>1. \A p \in Proc : ~HasCopy(p)
    BY DEF Init, HasCopy, InCriticalSection, InLock
  <2>2. \A s \in Stories : Balanced(disk[s], calls[s], faults)
    BY DEF Init, Balanced, FreshState, PendingRecord
  <2>3. QED
    BY <2>1, <2>2 DEF LedgerInv, CopyBalanced, FileBalanced
<1>2. TypeInv /\ MutualExclusion /\ TypeInv' /\ MutualExclusion' /\ CopyInv /\ LedgerInv /\ [Next]_vars
      => LedgerInv'
  BY LedgerStep DEF TypeInv, LocalInv, MutexContext
<1>3. QED
  BY <1>1, <1>2, TypeInvariant, MutualExclusionHolds, CopyInvariant, PTL DEF Spec

\* Whoever keeps the account of a story keeps it balanced.
LEMMA SomebodyBalances ==
    ASSUME TypeInv, LedgerInv, NEW s \in Stories
    PROVE  \E m \in StoryState : Balanced(m, calls[s], faults)
<1>1. CASE \A p \in Proc : HasCopy(p) => Story(p) # s
  BY <1>1 DEF TypeInv, SharedInv, LedgerInv, FileBalanced
<1>2. CASE \E p \in Proc : HasCopy(p) /\ Story(p) = s
  BY <1>2 DEF TypeInv, LocalInv, LedgerInv, CopyBalanced
<1>3. QED
  BY <1>1, <1>2

\* Adapters are started at most max_retries times per stage, and once more for
\* every fault, which may have lost the count.
THEOREM CallsStayWithinBudget == Spec => []CallsWithinBudget
<1>1. TypeInv /\ LedgerInv => CallsWithinBudget
  <2> SUFFICES ASSUME TypeInv, LedgerInv, NEW s \in Stories, NEW st \in Stages
      PROVE calls[s][st] <= MaxRetries + faults
    BY DEF CallsWithinBudget
  <2>1. PICK m \in StoryState : Balanced(m, calls[s], faults)
    BY SomebodyBalances
  <2>2. m.stages[st].attempts \in 0..MaxRetries /\ calls[s][st] \in Nat /\ faults \in Nat
    BY AccountTypes DEF TypeInv, SharedInv, StoryState, StageRecord
  <2>3. QED
    BY <2>1, <2>2, BudgetAssumption DEF Balanced
<1>2. QED
  BY <1>1, TypeInvariant, LedgerInvariant, PTL

(***************************************************************************)
(* The contract of StageAttempts.                                          *)
(***************************************************************************)

\* The record of p's stage in its copy, and in the state file.
InCopy(p) == mem[p].stages[Stage(p)]
InFile(p) == disk[Story(p)].stages[Stage(p)]

\* An adapter runs for an attempt that is not counted yet.  Until it is, the file
\* does not have the stage as done; a copy that counts nothing new changes nothing
\* about done, except by a late failure.
AttemptOK(p) ==
    /\ pc[p] \in {"calling", "packaging"} => InCopy(p).attempts # InFile(p).attempts
    /\ pc[p] \in {"saving", "failing"} /\ InCopy(p).attempts # InFile(p).attempts =>
          InFile(p).status # "done"
    /\ pc[p] = "saving" /\ InCopy(p).attempts = InFile(p).attempts =>
          (InCopy(p).status = "done" <=> InFile(p).status = "done")
    /\ pc[p] = "failing" /\ InCopy(p).attempts = InFile(p).attempts /\ InFile(p).status = "done" =>
          LateFailure
AttemptsInv == \A p \in Proc : AttemptOK(p)

\* p fails its stage: what is new about the attempt stays.
LEMMA RaiseKeepsAttempt ==
    ASSUME LocalInv, SharedInv, NEW p \in Proc, pc[p] \in CopyLabels, Stage(p) \in Stages,
           UNCHANGED <<disk, job>>, NEW m \in StoryState, NEW c, Raise(p, m, c),
           InFile(p).status = "done" => LateFailure /\ m.stages[Stage(p)].attempts = InFile(p).attempts
    PROVE  AttemptOK(p)'
<1>1. /\ pc'[p] = "failing" /\ mem'[p] = SetStatus(m, Stage(p), "failed")
      /\ Story(p)' = Story(p) /\ Stage(p)' = Stage(p)
  BY DEF Raise, Remember, Goto, LocalInv, Story, Stage
<1>2. mem'[p].stages[Stage(p)].attempts = m.stages[Stage(p)].attempts
  BY <1>1, SetStatusRevises DEF Revises, Statuses
<1>3. InFile(p)' = InFile(p) /\ InCopy(p)' = mem'[p].stages[Stage(p)]
  BY <1>1 DEF InFile, InCopy
<1>4. QED
  BY <1>1, <1>2, <1>3 DEF AttemptOK

\* run_stage.
LEMMA RunKeepsAttempt ==
    ASSUME LocalInv, SharedInv, CopyInv, NEW p \in Proc, AttemptOK(p), RunStage(p)
    PROVE  AttemptOK(p)'
<1> DEFINE st == Stage(p)
<1>1. /\ pc[p] \in {"running", "calling", "packaging"} /\ UNCHANGED <<disk, job>>
      /\ Story(p)' = Story(p) /\ Stage(p)' = Stage(p) /\ InFile(p)' = InFile(p)
      /\ InCopy(p)' = mem'[p].stages[st]
  BY DEF RunStage, SkipDone, BudgetExhausted, RunWithoutAdapter, StageRefused,
     AdapterNotConfigured, CallAdapter, AdapterFails, AdapterReturns, BeginPackage, PackageFails,
     FinishPackage, AudioMismatch, MayAttempt, At, Story, Stage, InFile, InCopy
<1>2. /\ HasCopy(p) /\ st \in Stages /\ mem[p] \in StoryState /\ Dry(p) \in BOOLEAN
      /\ InFile(p) \in StageRecord /\ pc[p] \in CopyLabels
  <2>1. pc[p] \in CopyLabels
    BY <1>1 DEF CopyLabels
  <2>2. QED
    BY <1>1, <2>1, CopyFacts DEF StoryState, InFile
<1>3. pc[p] = "running" => InCopy(p) = InFile(p)
  BY <1>2 DEF CopyInv, CopyOK, Agrees, InCopy, InFile
<1>4. pc[p] \in {"calling", "packaging"} =>
         InFile(p).status # "done" /\ InCopy(p).attempts # InFile(p).attempts
  BY <1>2 DEF CopyInv, CopyOK, AttemptOK, InFile
<1>5. ASSUME MayAttempt(p)
      PROVE  /\ InFile(p).status # "done" /\ Attempted(p) \in StoryState
             /\ Attempted(p).stages[st].attempts =
                  IF Dry(p) THEN InFile(p).attempts ELSE InFile(p).attempts + 1
  BY <1>2, <1>3, <1>5, BeginAttemptType
     DEF MayAttempt, At, IsDone, Exhausted, Attempted, BeginAttempt, InCopy, StoryState, StageRecord
<1>6. ASSUME NEW m \in StoryState, NEW c, Raise(p, m, c), InFile(p).status # "done"
      PROVE  AttemptOK(p)'
  BY <1>1, <1>2, <1>6, RaiseKeepsAttempt
<1>7. CASE SkipDone(p)
  <2>1. pc'[p] = "saving" /\ mem' = mem /\ pc[p] = "running"
    BY <1>7 DEF SkipDone, At, Goto, LocalInv
  <2>2. QED
    BY <1>1, <1>3, <2>1 DEF AttemptOK, InCopy
<1>8. CASE RunWithoutAdapter(p)
  <2> DEFINE status == IF Dry(p) THEN "dry_run" ELSE "done"
  <2>1. /\ MayAttempt(p) /\ pc'[p] = "saving" /\ mem'[p] = SetStatus(Attempted(p), st, status)
    BY <1>8 DEF RunWithoutAdapter, Remember, Goto, LocalInv
  <2>2. /\ mem'[p].stages[st].status = status
        /\ mem'[p].stages[st].attempts = Attempted(p).stages[st].attempts
    BY <1>2, <1>5, <2>1, SetStatusRevises DEF Revises, Statuses
  <2>3. InFile(p).attempts \in Nat
    BY <1>2, BudgetAssumption DEF StageRecord
  <2>4. QED
    BY <1>1, <1>2, <1>5, <2>1, <2>2, <2>3 DEF AttemptOK
<1>9. CASE AdapterReturns(p) \/ FinishPackage(p)
  <2>1. PICK a \in SUBSET Artifacts : Succeed(p, a)
    BY <1>9 DEF AdapterReturns, FinishPackage, Artifacts
  <2>2. pc'[p] = "saving" /\ mem'[p] = MarkDone(mem[p], st, a)
    BY <2>1 DEF Succeed, Remember, Goto, LocalInv
  <2>3. mem'[p].stages[st].attempts = InCopy(p).attempts
    BY <1>2, <2>2, MarkDoneRevises DEF Revises, InCopy
  <2>4. pc[p] \in {"calling", "packaging"}
    BY <1>9 DEF AdapterReturns, FinishPackage, At
  <2>5. QED
    BY <1>1, <1>4, <2>2, <2>3, <2>4 DEF AttemptOK
<1>10. CASE CallAdapter(p)
  <2>1. MayAttempt(p) /\ ~Dry(p) /\ pc'[p] = "calling" /\ mem'[p] = Attempted(p)
    BY <1>10 DEF CallAdapter, Remember, Goto, LocalInv
  <2>2. InFile(p).attempts \in Nat
    BY <1>2, BudgetAssumption DEF StageRecord
  <2>3. QED
    BY <1>1, <1>5, <2>1, <2>2 DEF AttemptOK
<1>11. CASE BeginPackage(p)
  <2>1. pc[p] = "calling" /\ pc'[p] = "packaging" /\ mem' = mem
    BY <1>11 DEF BeginPackage, At, Goto, LocalInv
  <2>2. QED
    BY <1>1, <1>4, <2>1 DEF AttemptOK, InCopy
<1>12. CASE BudgetExhausted(p)
  BY <1>2, <1>3, <1>6, <1>12 DEF BudgetExhausted, At, IsDone, InCopy
<1>13. CASE AdapterFails(p) \/ PackageFails(p)
  BY <1>2, <1>4, <1>6, <1>13 DEF AdapterFails, PackageFails, At
<1>14. CASE StageRefused(p) \/ AdapterNotConfigured(p)
  BY <1>5, <1>6, <1>14 DEF StageRefused, AdapterNotConfigured
<1>15. CASE AudioMismatch(p)
  <2> DEFINE m == [mem[p] EXCEPT !.artifacts = @ \cup {"package_dir"}]
  <2>1. m \in StoryState
    BY <1>2 DEF StoryState, Artifacts
  <2>2. Raise(p, m, "SUBPROCESS") /\ InFile(p).status # "done"
    BY <1>4, <1>15 DEF AudioMismatch, At
  <2> HIDE DEF m
  <2>3. QED
    BY <1>6, <2>1, <2>2
<1>16. QED
  BY <1>7, <1>8, <1>9, <1>10, <1>11, <1>12, <1>13, <1>14, <1>15 DEF RunStage

LEMMA MovesKeepAttempt ==
    ASSUME LocalInv, SharedInv, CopyInv, NEW p \in Proc, AttemptOK(p), Start(p) \/ Step(p) \/ Fail(p)
    PROVE  AttemptOK(p)'
<1>1. ASSUME NEW l, Goto(p, l), l \notin {"calling", "packaging", "saving", "failing"}
      PROVE  AttemptOK(p)'
  BY <1>1 DEF Goto, LocalInv, AttemptOK
<1>2. CASE RunStage(p)
  BY <1>2, RunKeepsAttempt
<1>3. CASE SaveFails(p)
  <2>1. /\ pc[p] = "saving" /\ Raise(p, mem[p], "SUBPROCESS") /\ LateFailure
        /\ UNCHANGED <<disk, job>>
    BY <1>3 DEF SaveFails, At, Fault, LateFailure
  <2>2. Stage(p) \in Stages /\ mem[p] \in StoryState
    BY <2>1, CopyFacts DEF CopyLabels
  <2>3. InFile(p).status = "done" => InCopy(p).attempts = InFile(p).attempts
    BY <2>1 DEF AttemptOK
  <2>4. QED
    BY <2>1, <2>2, <2>3, RaiseKeepsAttempt DEF CopyLabels, InCopy
<1>4. CASE ReportFails(p) /\ job[p].cmd # "resume"
  <2>1. /\ pc[p] = "reporting" /\ Raise(p, mem[p], "SUBPROCESS") /\ LateFailure
        /\ UNCHANGED <<disk, job>>
    BY <1>4 DEF ReportFails, At, Fault, LateFailure
  <2>2. Stage(p) \in Stages
    BY <1>4, <2>1 DEF LocalInv, JobOK, At
  <2>3. mem[p] \in StoryState /\ mem[p].stages = disk[Story(p)].stages
    BY <2>1, CopyFacts DEF CopyLabels, CopyInv, CopyOK, Agrees
  <2>4. QED
    BY <2>1, <2>2, <2>3, RaiseKeepsAttempt DEF CopyLabels, InFile
<1>5. CASE ReportFails(p) /\ job[p].cmd = "resume"
  BY <1>1, <1>5 DEF ReportFails
<1>6. CASE Load(p)
  BY <1>1, <1>6 DEF Load
<1>7. QED
  BY <1>1, <1>2, <1>3, <1>4, <1>5, <1>6
     DEF Step, Start, Enter, CommandConfigError, AcquireLock, LockedOut, Choose, LoadFails,
         ResumeStage, ResumeConfigError, ResumeBoundary, ResumeComplete, Finish, Save, Report,
         SaveFailure, Release, Fail, LockWriteFails, BoundarySaveFails, SaveFailureFails, Crash,
         Interrupt, Gone

LEMMA AttemptsInvHolds == Spec => []AttemptsInv
<1>1. Init => AttemptsInv
  BY DEF Init, AttemptsInv, AttemptOK
<1>2. ASSUME LocalInv, SharedInv, MutualExclusion, CopyInv, AttemptsInv, [Next]_vars
      PROVE  AttemptsInv'
  <2>1. ASSUME NEW q \in Proc, pc'[q] = pc[q], mem'[q] = mem[q], job'[q] = job[q],
               (\A s \in Stories : disk'[s].stages = disk[s].stages) \/ ~InCriticalSection(q)
        PROVE  AttemptOK(q)'
    <3>1. AttemptOK(q) /\ Stage(q)' = Stage(q) /\ Story(q)' = Story(q)
      BY <1>2, <2>1 DEF AttemptsInv, Stage, Story
    <3>2. CASE ~InCriticalSection(q)
      BY <2>1, <3>2 DEF AttemptOK, InCriticalSection, InLock
    <3>3. CASE InCriticalSection(q) /\ Story(q) \in Stories
      BY <2>1, <3>1, <3>3 DEF AttemptOK, InCopy, InFile
    <3>4. CASE InCriticalSection(q) /\ Story(q) \notin Stories
      BY <1>2, <2>1, <3>4 DEF LocalInv, JobOK, InCriticalSection, InLock, AttemptOK
    <3>5. QED
      BY <3>2, <3>3, <3>4
  <2>2. ASSUME NEW p \in Proc, Start(p) \/ Step(p) \/ Fail(p), Bystanders(p) PROVE AttemptsInv'
    <3>1. \A q \in Proc \ {p} : UNCHANGED disk \/ ~InCriticalSection(q)
      BY <1>2, <2>2 DEF Bystanders, MutualExclusion
    <3>2. \A q \in Proc \ {p} : AttemptOK(q)'
      BY <2>1, <2>2, <3>1 DEF Bystanders, Frame
    <3>3. QED
      BY <1>2, <2>2, <3>2, MovesKeepAttempt DEF AttemptsInv
  <2>3. CASE EnvironmentStep
    <3>1. \A s \in Stories : disk'[s].stages = disk[s].stages
      BY <2>3 DEF EnvironmentStep, Agrees
    <3>2. QED
      BY <2>1, <2>3, <3>1 DEF EnvironmentStep, AttemptsInv
  <2>4. QED
    BY <1>2, <2>2, <2>3, SomebodyMoves
<1>3. QED
  BY <1>1, <1>2, TypeInvariant, MutualExclusionHolds, CopyInvariant, PTL DEF Spec, TypeInv

\* What the contract reads of the state files and of the outside world.
Spent == [i \in StageItems |-> disk[i[1]].stages[i[2]].attempts]
Leaves == [i \in StageItems |-> Credit(i)]
Works == [i \in StageItems |-> succeeded[i[1]][i[2]]]
Files == <<DoneItems, Spent, Works>>

\* Nobody but p is inside the lock.
Alone(p) == \A q \in Proc \ {p} : ~InCriticalSection(q)

\* What the contract reads of p when it is alone.
Claim(p) == IF Attempting(p) THEN {Item(p)} ELSE {}
LeaveOf(p) == [i \in StageItems |-> IF MayYetWork(p) /\ Item(p) = i THEN 1 ELSE 0]
View(p) == ActiveItems = Claim(p) /\ Leaves = LeaveOf(p)

LEMMA ItemPairs ==
    /\ \A i \in StageItems : i[1] \in Stories /\ i[2] \in Stages /\ i = <<i[1], i[2]>>
    /\ \A s \in Stories, st \in Stages :
          <<s, st>> \in StageItems /\ <<s, st>>[1] = s /\ <<s, st>>[2] = st
BY DEF StageItems

LEMMA HolderView ==
    ASSUME NEW p \in Proc
    PROVE  /\ Alone(p) => View(p)
           /\ Alone(p)' => View(p)'
<1>1. ASSUME Alone(p) PROVE View(p)
  <2>1. \A q \in Proc \ {p} : ~Attempting(q) /\ ~MayYetWork(q)
    BY <1>1 DEF Alone, Attempting, HasCopy, MayYetWork, At, InCriticalSection, InLock
  <2>2. ActiveItems = Claim(p)
    BY <2>1 DEF ActiveItems, Claim
  <2>3. \A i \in StageItems : Credit(i) = IF MayYetWork(p) /\ Item(p) = i THEN 1 ELSE 0
    BY <2>1 DEF Credit
  <2>4. QED
    BY <2>2, <2>3 DEF View, Leaves, LeaveOf
<1>2. ASSUME Alone(p)' PROVE View(p)'
  <2>1. \A q \in Proc \ {p} : ~Attempting(q)' /\ ~MayYetWork(q)'
    BY <1>2 DEF Alone, Attempting, HasCopy, MayYetWork, At, InCriticalSection, InLock
  <2>2. ActiveItems' = Claim(p)'
    BY <2>1 DEF ActiveItems, Claim
  <2>3. \A i \in StageItems : Credit(i)' = IF MayYetWork(p)' /\ Item(p)' = i THEN 1 ELSE 0
    BY <2>1 DEF Credit
  <2>4. QED
    BY <2>2, <2>3 DEF View, Leaves, LeaveOf
<1>3. QED
  BY <1>1, <1>2

\* The mover inside the lock is alone, before and after.
LEMMA HolderAlone ==
    ASSUME MutexContext, NEW p \in Proc, InCriticalSection(p), Frame(p)
    PROVE  Alone(p) /\ Alone(p)' /\ View(p) /\ View(p)'
<1>1. Alone(p)
  BY DEF MutexContext, MutualExclusion, Alone
<1>2. Alone(p)'
  BY <1>1 DEF Alone, Frame, InCriticalSection
<1>3. QED
  BY <1>1, <1>2, HolderView

LEMMA FilesStay ==
    ASSUME UNCHANGED succeeded, \A s \in Stories : disk'[s].stages = disk[s].stages
    PROVE  UNCHANGED Files
BY ItemPairs DEF Files, DoneItems, Spent, Works

\* A step that begins, ends and uses nothing.
LEMMA NothingBegun ==
    ASSUME UNCHANGED Files,
           NEW p \in Proc, Frame(p), \A s \in Stories : disk'[s].stages = disk[s].stages,
           LocalInv,
           Attempting(p)' <=> Attempting(p), MayYetWork(p)' <=> MayYetWork(p),
           Attempting(p) \/ MayYetWork(p) => Item(p)' = Item(p)
    PROVE  /\ faults' = faults => UNCHANGED Attempts!avars
           /\ faults' = faults + 1 => Attempts!Suffer
<1>1. ASSUME NEW q \in Proc
      PROVE  /\ Attempting(q)' <=> Attempting(q)
             /\ MayYetWork(q)' <=> MayYetWork(q)
             /\ Attempting(q) \/ MayYetWork(q) => Item(q)' = Item(q)
  <2>1. CASE q # p
    <3>1. /\ pc'[q] = pc[q] /\ mem'[q] = mem[q] /\ Story(q)' = Story(q) /\ Stage(q)' = Stage(q)
          /\ HasCopy(q)' <=> HasCopy(q)
      BY <2>1 DEF Frame, Story, Stage, HasCopy, InCriticalSection, At
    <3>2. HasCopy(q) => Story(q) \in Stories
      BY DEF LocalInv, JobOK, HasCopy, InCriticalSection, At
    <3>3. QED
      BY <3>1, <3>2 DEF Attempting, MayYetWork, At, Item
  <2>2. QED
    BY <2>1
<1>2. ActiveItems' = ActiveItems
  BY <1>1 DEF ActiveItems
<1>3. \A i \in StageItems : Credit(i)' = Credit(i)
  BY <1>1 DEF Credit
<1>4. Leaves' = Leaves
  BY <1>3 DEF Leaves
<1>5. QED
  BY <1>2, <1>4 DEF Attempts!avars, Attempts!Suffer, Files, Spent, Leaves, Works

\* The four ways in which the invocation inside the lock moves an attempt on.
LEMMA BeginsAttempt ==
    ASSUME NEW p \in Proc, View(p), View(p)', UNCHANGED <<Files, faults>>, NEW i \in StageItems,
           Item(p) = i, Item(p)' = i, ~Attempting(p), Attempting(p)', ~MayYetWork(p),
           i \notin DoneItems, Spent[i] < MaxRetries
    PROVE  Attempts!Begin(i)
<1>1. ActiveItems = {} /\ ActiveItems' = {i}
  BY DEF View, Claim
<1>2. Leaves' \in {Leaves, [Leaves EXCEPT ![i] = @ + 1]}
  BY DEF View, LeaveOf
<1>3. QED
  BY <1>1, <1>2 DEF Attempts!Begin, Files, Spent, Leaves, Works

LEMMA UsesLeave ==
    ASSUME NEW p \in Proc, View(p), View(p)', NEW i \in StageItems,
           Item(p) = i, MayYetWork(p), ~MayYetWork(p)'
    PROVE  Leaves[i] > 0 /\ Leaves' = [Leaves EXCEPT ![i] = @ - 1]
BY DEF View, LeaveOf

LEMMA WorksOnAttempt ==
    ASSUME NEW p \in Proc, View(p), View(p)', UNCHANGED <<DoneItems, Spent, faults>>,
           NEW i \in StageItems, Item(p) = i, Item(p)' = i,
           Attempting(p), Attempting(p)', MayYetWork(p), ~MayYetWork(p)',
           Works' \in {Works, [Works EXCEPT ![i] = @ + 1]}
    PROVE  Attempts!Work(i)
<1>1. UNCHANGED ActiveItems
  BY DEF View, Claim
<1>2. Leaves[i] > 0 /\ Leaves' = [Leaves EXCEPT ![i] = @ - 1]
  BY UsesLeave
<1>3. CASE Works' = Works
  <2>1. Attempts!Forgo(i)
    BY <1>2, <1>3 DEF Attempts!Forgo, Leaves, Works
  <2>2. QED
    BY <1>1, <2>1 DEF Attempts!Work, Spent
<1>4. CASE Works' = [Works EXCEPT ![i] = @ + 1]
  <2>1. Attempts!Perform(i)
    BY <1>2, <1>4 DEF Attempts!Perform, Leaves, Works
  <2>2. QED
    BY <1>1, <2>1 DEF Attempts!Work, Spent
<1>5. QED
  BY <1>3, <1>4

LEMMA EndsAttempt ==
    ASSUME NEW p \in Proc, View(p), View(p)', UNCHANGED <<Works, faults>>,
           NEW i \in StageItems, Item(p) = i, Attempting(p), ~Attempting(p)',
           ~MayYetWork(p), ~MayYetWork(p)', Spent' = [Spent EXCEPT ![i] = @ + 1]
    PROVE  Attempts!End(i)
<1>1. ActiveItems = {i} /\ ActiveItems' = {} /\ Leaves' = Leaves
  BY DEF View, Claim, LeaveOf
<1>2. QED
  BY <1>1 DEF Attempts!End, Spent, Leaves, Works

LEMMA AbandonsAttempt ==
    ASSUME NEW p \in Proc, View(p), View(p)', UNCHANGED <<DoneItems, Spent>>,
           NEW i \in StageItems, Item(p) = i, Attempting(p), ~Attempting(p)',
           ~MayYetWork(p)', faults' = faults + 1,
           \/ UNCHANGED Works
           \/ MayYetWork(p) /\ Works' = [Works EXCEPT ![i] = @ + 1]
    PROVE  Attempts!Abandon(i)
<1>1. ActiveItems = {i} /\ ActiveItems' = {}
  BY DEF View, Claim
<1>2. Attempts!Perform(i) \/ Attempts!Forgo(i) \/ UNCHANGED <<Leaves, Works>>
  <2>1. CASE MayYetWork(p)
    <3>1. Leaves[i] > 0 /\ Leaves' = [Leaves EXCEPT ![i] = @ - 1]
      BY <2>1, UsesLeave
    <3>2. QED
      BY <3>1 DEF Attempts!Perform, Attempts!Forgo, Leaves, Works
  <2>2. CASE ~MayYetWork(p)
    BY <2>2 DEF View, LeaveOf
  <2>3. QED
    BY <2>1, <2>2
<1>3. QED
  BY <1>1, <1>2 DEF Attempts!Abandon, Spent, Leaves, Works

\* One more piece of work on one stage of one story.
LEMMA WorkCounted ==
    ASSUME SharedInv, NEW s \in Stories, NEW st \in Stages, NEW i \in StageItems, i = <<s, st>>,
           succeeded' = [succeeded EXCEPT ![s][st] = @ + 1]
    PROVE  Works' = [Works EXCEPT ![i] = @ + 1]
<1>1. \A x \in Stories, y \in Stages :
         succeeded'[x][y] = IF x = s /\ y = st THEN succeeded[x][y] + 1 ELSE succeeded[x][y]
  BY DEF SharedInv
<1>2. \A j \in StageItems : Works'[j] = IF j = i THEN Works[j] + 1 ELSE Works[j]
  BY <1>1, ItemPairs DEF Works
<1>3. Works \in [StageItems -> {Works[j] : j \in StageItems}]
  BY DEF Works
<1>4. QED
  BY <1>2 DEF Works

LEMMA RunKeepsAttempts ==
    ASSUME LocalInv, SharedInv, MutexContext, CopyInv, AttemptsInv, NEW p \in Proc, RunStage(p),
           Frame(p)
    PROVE  [Attempts!Next]_Attempts!avars
<1> DEFINE st == Stage(p)
<1>1. /\ pc[p] \in {"running", "calling", "packaging"} /\ UNCHANGED <<disk, job, faults>>
      /\ Story(p)' = Story(p) /\ Stage(p)' = Stage(p) /\ Item(p)' = Item(p)
      /\ InFile(p)' = InFile(p) /\ InCopy(p)' = mem'[p].stages[st]
  BY DEF RunStage, SkipDone, BudgetExhausted, RunWithoutAdapter, StageRefused,
     AdapterNotConfigured, CallAdapter, AdapterFails, AdapterReturns, BeginPackage, PackageFails,
     FinishPackage, AudioMismatch, MayAttempt, At, Story, Stage, Item, InFile, InCopy
<1>2. /\ HasCopy(p) /\ InCriticalSection(p) /\ Story(p) \in Stories /\ st \in Stages
      /\ mem[p] \in StoryState /\ Dry(p) \in BOOLEAN /\ InFile(p) \in StageRecord
      /\ pc[p] \in CopyLabels
  <2>1. pc[p] \in CopyLabels
    BY <1>1 DEF CopyLabels
  <2>2. QED
    BY <1>1, <2>1, CopyFacts DEF StoryState, InFile
<1>3. View(p) /\ View(p)'
  BY <1>2, HolderAlone
<1>4. PICK i \in StageItems : i = Item(p) /\ i[1] = Story(p) /\ i[2] = st
  BY <1>2, ItemPairs DEF Item
<1>5. /\ DoneItems' = DoneItems /\ Spent' = Spent /\ (i \in DoneItems <=> InFile(p).status = "done")
      /\ Spent[i] = InFile(p).attempts
  BY <1>1, <1>4 DEF DoneItems, Spent, InFile
<1>6. Attempting(p) <=> InCopy(p).attempts # InFile(p).attempts
  BY <1>2 DEF Attempting, InCopy, InFile
<1>7. ASSUME pc'[p] \in CopyLabels
      PROVE  Attempting(p)' <=> InCopy(p)'.attempts # InFile(p).attempts
  BY <1>1, <1>2, <1>7 DEF Attempting, InCopy, InFile, HasCopy, InCriticalSection, InLock,
     CopyLabels, At
<1>8. pc[p] = "running" => InCopy(p) = InFile(p) /\ ~Attempting(p)
  BY <1>2, <1>6 DEF CopyInv, CopyOK, Agrees, InCopy, InFile
<1>9. pc[p] \in {"calling", "packaging"} => Attempting(p)
  BY <1>6 DEF AttemptsInv, AttemptOK
<1>10. ASSUME MayAttempt(p)
       PROVE  /\ pc[p] = "running" /\ InFile(p).status # "done" /\ Attempted(p) \in StoryState
              /\ ~Dry(p) => InFile(p).attempts < MaxRetries
              /\ Attempted(p).stages[st].attempts =
                   IF Dry(p) THEN InFile(p).attempts ELSE InFile(p).attempts + 1
  <2>1. pc[p] = "running" /\ InFile(p).status # "done" /\ ~Exhausted(p)
    BY <1>8, <1>10 DEF MayAttempt, At, IsDone, InCopy
  <2>2. ~Dry(p) => InFile(p).attempts < MaxRetries
    BY <1>2, <1>8, <2>1, BudgetAssumption DEF Exhausted, InCopy, StageRecord
  <2>3. Attempted(p) \in StoryState
    BY <1>2, <2>1, BeginAttemptType DEF Exhausted, Attempted
  <2>4. Attempted(p).stages[st].attempts =
           IF Dry(p) THEN InFile(p).attempts ELSE InFile(p).attempts + 1
    BY <1>2, <1>8, <2>1 DEF Attempted, BeginAttempt, InCopy, StoryState, StageRecord
  <2>5. QED
    BY <2>1, <2>2, <2>3, <2>4
\* What each kind of step comes to.
<1>11. ASSUME UNCHANGED succeeded, InCopy(p)'.attempts = InCopy(p).attempts,
              pc'[p] \in CopyLabels, MayYetWork(p)' <=> MayYetWork(p)
       PROVE  UNCHANGED Attempts!avars
  <2>1. UNCHANGED Files
    BY <1>1, <1>11, FilesStay
  <2>2. Attempting(p)' <=> Attempting(p)
    BY <1>6, <1>7, <1>11
  <2>3. \A s \in Stories : disk'[s].stages = disk[s].stages
    BY <1>1
  <2>4. QED
    BY <1>1, <1>11, <2>1, <2>2, <2>3, NothingBegun
<1>12. ASSUME MayAttempt(p), ~Dry(p), UNCHANGED succeeded, pc'[p] \in CopyLabels,
              InCopy(p)'.attempts = Attempted(p).stages[st].attempts
       PROVE  Attempts!Next
  <2>1. InFile(p).attempts \in Nat
    BY <1>2, BudgetAssumption DEF StageRecord
  <2>2. Attempting(p)' /\ ~Attempting(p) /\ ~MayYetWork(p)
    BY <1>7, <1>8, <1>10, <1>12, <2>1 DEF MayYetWork, At
  <2>3. UNCHANGED Files
    BY <1>1, <1>12, FilesStay
  <2>4. Attempts!Begin(i)
    BY <1>1, <1>3, <1>4, <1>5, <1>10, <1>12, <2>2, <2>3, BeginsAttempt
  <2>5. QED
    BY <2>4 DEF Attempts!Next
<1>13. ASSUME pc[p] = "calling", pc'[p] \in {"packaging", "saving", "failing"},
              InCopy(p)'.attempts = InCopy(p).attempts,
              Works' \in {Works, [Works EXCEPT ![i] = @ + 1]}
       PROVE  Attempts!Next
  <2>1. MayYetWork(p) /\ ~MayYetWork(p)' /\ Attempting(p) /\ Attempting(p)'
    BY <1>6, <1>7, <1>9, <1>13 DEF MayYetWork, At, CopyLabels
  <2>2. Attempts!Work(i)
    BY <1>1, <1>3, <1>4, <1>5, <1>13, <2>1, WorksOnAttempt
  <2>3. QED
    BY <2>2 DEF Attempts!Next
<1>14. ASSUME NEW m \in StoryState, NEW c, Raise(p, m, c)
       PROVE  pc'[p] = "failing" /\ InCopy(p)'.attempts = m.stages[st].attempts
  <2>1. pc'[p] = "failing" /\ mem'[p] = SetStatus(m, st, "failed")
    BY <1>14 DEF Raise, Remember, Goto, LocalInv
  <2>2. QED
    BY <1>1, <1>2, <2>1, SetStatusRevises DEF Revises, Statuses
\* One step per action.
<1>15. CASE SkipDone(p)
  <2>1. pc'[p] = "saving" /\ mem' = mem /\ pc[p] = "running" /\ UNCHANGED succeeded
    BY <1>15 DEF SkipDone, At, Goto, LocalInv
  <2>2. QED
    BY <1>1, <1>11, <2>1 DEF MayYetWork, At, InCopy, CopyLabels
<1>16. CASE BudgetExhausted(p)
  <2>1. Raise(p, mem[p], "SUBPROCESS") /\ pc[p] = "running" /\ UNCHANGED succeeded
    BY <1>16 DEF BudgetExhausted, At
  <2>2. pc'[p] = "failing" /\ InCopy(p)'.attempts = InCopy(p).attempts
    BY <1>2, <1>14, <2>1 DEF InCopy
  <2>3. QED
    BY <1>11, <2>1, <2>2 DEF MayYetWork, At, CopyLabels
<1>17. CASE RunWithoutAdapter(p)
  <2> DEFINE status == IF Dry(p) THEN "dry_run" ELSE "done"
  <2>1. /\ MayAttempt(p) /\ pc'[p] = "saving" /\ UNCHANGED succeeded
        /\ mem'[p] = SetStatus(Attempted(p), st, status)
    BY <1>17 DEF RunWithoutAdapter, Remember, Goto, LocalInv
  <2>2. InCopy(p)'.attempts = Attempted(p).stages[st].attempts
    BY <1>1, <1>2, <1>10, <2>1, SetStatusRevises DEF Revises, Statuses
  <2>3. CASE Dry(p)
    BY <1>8, <1>10, <1>11, <2>1, <2>2, <2>3 DEF MayYetWork, At, CopyLabels
  <2>4. CASE ~Dry(p)
    BY <1>12, <2>1, <2>2, <2>4 DEF CopyLabels
  <2>5. QED
    BY <2>3, <2>4
<1>18. CASE StageRefused(p) \/ AdapterNotConfigured(p)
  <2>1. /\ MayAttempt(p) /\ UNCHANGED succeeded
        /\ \E c \in ExitCodes : Raise(p, Attempted(p), c)
    BY <1>18 DEF StageRefused, AdapterNotConfigured, ExitCodes
  <2>2. pc'[p] = "failing" /\ InCopy(p)'.attempts = Attempted(p).stages[st].attempts
    BY <1>10, <1>14, <2>1
  <2>3. CASE Dry(p)
    BY <1>8, <1>10, <1>11, <2>1, <2>2, <2>3 DEF MayYetWork, At, CopyLabels
  <2>4. CASE ~Dry(p)
    BY <1>12, <2>1, <2>2, <2>4 DEF CopyLabels
  <2>5. QED
    BY <2>3, <2>4
<1>19. CASE CallAdapter(p)
  <2>1. MayAttempt(p) /\ ~Dry(p) /\ pc'[p] = "calling" /\ mem'[p] = Attempted(p) /\ UNCHANGED succeeded
    BY <1>19 DEF CallAdapter, Remember, Goto, LocalInv
  <2>2. QED
    BY <1>1, <1>12, <2>1 DEF CopyLabels
<1>20. CASE AdapterFails(p)
  <2>1. Raise(p, mem[p], "SUBPROCESS") /\ pc[p] = "calling"
    BY <1>20 DEF AdapterFails, At
  <2>2. pc'[p] = "failing" /\ InCopy(p)'.attempts = InCopy(p).attempts
    BY <1>2, <1>14, <2>1 DEF InCopy
  <2>3. PICK n \in {0, 1} : DoWork(p, n)
    BY <1>20 DEF AdapterFails
  <2>4. Works' \in {Works, [Works EXCEPT ![i] = @ + 1]}
    <3>1. CASE n = 0
      <4>1. succeeded' = succeeded
        BY <1>2, <2>3, <3>1 DEF DoWork, SharedInv
      <4>2. QED
        BY <4>1 DEF Works
    <3>2. CASE n = 1
      BY <1>2, <1>4, <2>3, <3>2, WorkCounted DEF DoWork, Item
    <3>3. QED
      BY <3>1, <3>2
  <2>5. QED
    BY <1>13, <2>1, <2>2, <2>4
<1>21. CASE PackageFails(p) \/ AudioMismatch(p)
  <2> DEFINE m == [mem[p] EXCEPT !.artifacts = @ \cup {"package_dir"}]
  <2>1. m \in StoryState /\ m.stages = mem[p].stages
    BY <1>2 DEF StoryState, Artifacts
  <2>2. /\ Raise(p, m, "SUBPROCESS") \/ Raise(p, mem[p], "SUBPROCESS")
        /\ pc[p] = "packaging" /\ UNCHANGED succeeded
    BY <1>21 DEF PackageFails, AudioMismatch, At
  <2> HIDE DEF m
  <2>3. pc'[p] = "failing" /\ InCopy(p)'.attempts = InCopy(p).attempts
    BY <1>2, <1>14, <2>1, <2>2 DEF InCopy
  <2>4. QED
    BY <1>11, <2>2, <2>3 DEF MayYetWork, At, CopyLabels
<1>22. CASE AdapterReturns(p)
  <2>1. PICK a \in SUBSET Artifacts : Succeed(p, a)
    BY <1>22 DEF AdapterReturns, Artifacts
  <2>2. /\ pc[p] = "calling" /\ pc'[p] = "saving" /\ mem'[p] = MarkDone(mem[p], st, a)
        /\ succeeded' = [succeeded EXCEPT ![Story(p)][st] = @ + 1]
    BY <1>22, <2>1 DEF AdapterReturns, DoWork, At, Succeed, Remember, Goto, LocalInv
  <2>3. InCopy(p)'.attempts = InCopy(p).attempts
    BY <1>1, <1>2, <2>2, MarkDoneRevises DEF Revises, InCopy
  <2>4. Works' = [Works EXCEPT ![i] = @ + 1]
    BY <1>2, <1>4, <2>2, WorkCounted DEF Item
  <2>5. QED
    BY <1>13, <2>2, <2>3, <2>4
<1>23. CASE BeginPackage(p)
  <2>1. /\ pc[p] = "calling" /\ pc'[p] = "packaging" /\ mem' = mem
        /\ succeeded' = [succeeded EXCEPT ![Story(p)][st] = @ + 1]
    BY <1>23 DEF BeginPackage, DoWork, At, Goto, LocalInv
  <2>2. InCopy(p)'.attempts = InCopy(p).attempts
    BY <1>1, <2>1 DEF InCopy
  <2>3. Works' = [Works EXCEPT ![i] = @ + 1]
    BY <1>2, <1>4, <2>1, WorkCounted DEF Item
  <2>4. QED
    BY <1>13, <2>1, <2>2, <2>3
<1>24. CASE FinishPackage(p)
  <2>1. /\ Succeed(p, {"package_dir"}) /\ {"package_dir"} \in SUBSET Artifacts
        /\ UNCHANGED succeeded /\ pc[p] = "packaging"
    BY <1>24 DEF FinishPackage, At, Artifacts
  <2>2. pc'[p] = "saving" /\ mem'[p] = MarkDone(mem[p], st, {"package_dir"})
    BY <2>1 DEF Succeed, Remember, Goto, LocalInv
  <2>3. InCopy(p)'.attempts = InCopy(p).attempts
    BY <1>1, <1>2, <2>1, <2>2, MarkDoneRevises DEF Revises, InCopy
  <2>4. QED
    BY <1>11, <2>1, <2>2, <2>3 DEF MayYetWork, At, CopyLabels
<1>25. QED
  BY <1>15, <1>16, <1>17, <1>18, <1>19, <1>20, <1>21, <1>22, <1>23, <1>24 DEF RunStage

\* Where an invocation neither works on an attempt nor has one to record.
WorkLabels == {"calling", "packaging", "saving", "failing"}

LEMMA AtRest ==
    ASSUME NEW p \in Proc
    PROVE  /\ CopyInv /\ pc[p] \notin WorkLabels => ~Attempting(p) /\ ~MayYetWork(p)
           /\ CopyInv' /\ pc'[p] \notin WorkLabels => ~Attempting(p)' /\ ~MayYetWork(p)'
BY DEF CopyInv, CopyOK, Agrees, WorkLabels, Attempting, MayYetWork, HasCopy, InCriticalSection, InLock, At

\* The steps that lead to a stage, and away from one, are none of the contract's.
LEMMA RestKeepsAttempts ==
    ASSUME LocalInv, CopyInv, CopyInv', NEW p \in Proc, Frame(p),
           pc[p] \notin WorkLabels, pc'[p] \notin WorkLabels,
           \A s \in Stories : disk'[s].stages = disk[s].stages, UNCHANGED succeeded
    PROVE  /\ faults' = faults => UNCHANGED Attempts!avars
           /\ faults' = faults + 1 => Attempts!Suffer
<1>1. UNCHANGED Files
  BY FilesStay
<1>2. QED
  BY <1>1, AtRest, NothingBegun

LEMMA PreparationKeepsAttempts ==
    ASSUME LocalInv, CopyInv, CopyInv', NEW p \in Proc, Frame(p), Start(p) \/ Enter(p) \/ Choose(p)
    PROVE  UNCHANGED Attempts!avars
<1>1. pc[p] \notin WorkLabels
  BY DEF Start, Enter, CommandConfigError, AcquireLock, LockedOut, MayLock, Choose, Load, LoadFails,
     ResumeStage, ResumeConfigError, ResumeBoundary, ResumeComplete, At, WorkLabels
<1>2. pc'[p] \notin WorkLabels
  BY DEF Start, Enter, CommandConfigError, AcquireLock, LockedOut, Choose, Load, LoadFails,
     ResumeStage, ResumeConfigError, ResumeBoundary, ResumeComplete, Gone, Goto, LocalInv, WorkLabels
<1>3. UNCHANGED <<disk, succeeded, faults>>
  BY DEF Start, Enter, CommandConfigError, AcquireLock, LockedOut, Choose, Load, LoadFails,
     ResumeStage, ResumeConfigError, ResumeBoundary, ResumeComplete
<1>4. QED
  BY <1>1, <1>2, <1>3, RestKeepsAttempts

\* The copy becomes the state file: it differs in its own stage only.
LEMMA FileMoves ==
    ASSUME SharedInv, LocalInv, CopyInv, NEW p \in Proc, pc[p] \in CopyLabels, WriteState(p),
           NEW i \in StageItems, i = Item(p)
    PROVE  /\ \A j \in StageItems :
                Spent'[j] = IF j = i THEN InCopy(p).attempts ELSE Spent[j]
           /\ \A j \in StageItems :
                j \in DoneItems' <=> IF j = i THEN InCopy(p).status = "done" ELSE j \in DoneItems
           /\ Spent[i] = InFile(p).attempts
           /\ i \in DoneItems <=> InFile(p).status = "done"
           /\ Spent[i] \in Nat
           /\ InCopy(p).attempts \in {Spent[i], Spent[i] + 1}
<1>1. /\ Story(p) \in Stories /\ Extends(disk[Story(p)], mem[p], Stage(p))
      /\ mem[p] \in StoryState /\ disk[Story(p)] \in StoryState
  BY CopyFacts
<1>2. /\ i[1] = Story(p) /\ i[2] = Stage(p) /\ Stage(p) \in Stages
  BY ItemPairs DEF Item
<1>3. \A s \in Stories, st \in Stages :
         disk'[s].stages[st] =
            IF s = Story(p) /\ st = Stage(p) THEN InCopy(p) ELSE disk[s].stages[st]
  BY <1>1, <1>2 DEF WriteState, Extends, InCopy, SharedInv
<1>4. \A j \in StageItems :
         /\ j = i <=> j[1] = Story(p) /\ j[2] = Stage(p)
         /\ j[1] \in Stories /\ j[2] \in Stages
  BY <1>2, ItemPairs
<1>5. \A j \in StageItems : disk'[j[1]].stages[j[2]] =
                               IF j = i THEN InCopy(p) ELSE disk[j[1]].stages[j[2]]
  BY <1>3, <1>4
<1>6. /\ \A j \in StageItems : Spent'[j] = IF j = i THEN InCopy(p).attempts ELSE Spent[j]
      /\ Spent[i] = InFile(p).attempts
  BY <1>2, <1>5 DEF Spent, InFile
<1>7. /\ \A j \in StageItems :
           j \in DoneItems' <=> IF j = i THEN InCopy(p).status = "done" ELSE j \in DoneItems
      /\ i \in DoneItems <=> InFile(p).status = "done"
  BY <1>2, <1>5 DEF DoneItems, InFile
<1>8. Spent[i] \in Nat /\ InCopy(p).attempts \in {Spent[i], Spent[i] + 1}
  BY <1>1, <1>2, <1>6, BudgetAssumption DEF InFile, InCopy, Extends, StoryState, StageRecord
<1>9. QED
  BY <1>6, <1>7, <1>8

\* save_state: the attempt is recorded with its outcome, or nothing new is.
LEMMA SaveKeepsAttempts ==
    ASSUME LocalInv, SharedInv, MutexContext, CopyInv, CopyInv', AttemptsInv, TellsInv,
           DoneIsBacked', NEW p \in Proc, Frame(p), Save(p) \/ SaveFailure(p), pc[p] # "boundary"
    PROVE  [Attempts!Next]_Attempts!avars
<1>1. /\ pc[p] \in {"saving", "failing"} /\ pc'[p] \in {"reporting", "closing"} /\ WriteState(p)
      /\ UNCHANGED <<mem, job, succeeded, faults>>
  BY DEF Save, SaveFailure, At, Goto, LocalInv
<1>2. /\ pc[p] \in CopyLabels /\ InCriticalSection(p) /\ HasCopy(p)
      /\ Story(p) \in Stories /\ Stage(p) \in Stages
  <2>1. pc[p] \in CopyLabels
    BY <1>1 DEF CopyLabels
  <2>2. QED
    BY <1>1, <2>1, CopyFacts
<1>3. View(p) /\ View(p)'
  BY <1>2, HolderAlone
<1>4. PICK i \in StageItems : i = Item(p) /\ i = <<Story(p), Stage(p)>>
  BY <1>2, ItemPairs DEF Item
<1>5. /\ \A j \in StageItems : Spent'[j] = IF j = i THEN InCopy(p).attempts ELSE Spent[j]
      /\ \A j \in StageItems :
           j \in DoneItems' <=> IF j = i THEN InCopy(p).status = "done" ELSE j \in DoneItems
      /\ Spent[i] = InFile(p).attempts
      /\ i \in DoneItems <=> InFile(p).status = "done"
      /\ Spent[i] \in Nat
      /\ InCopy(p).attempts \in {Spent[i], Spent[i] + 1}
  BY <1>1, <1>2, <1>4, FileMoves
<1>6. DoneItems \subseteq StageItems /\ DoneItems' \subseteq StageItems
  BY DEF DoneItems
<1>7. UNCHANGED Works
  BY <1>1 DEF Works
<1>8. ~MayYetWork(p) /\ ~MayYetWork(p)' /\ ~Attempting(p)'
  BY <1>1, AtRest DEF MayYetWork, At, WorkLabels
<1>9. Attempting(p) <=> InCopy(p).attempts # InFile(p).attempts
  BY <1>2 DEF Attempting, InCopy, InFile
<1>10. CASE Attempting(p)
  <2>1. Spent' = [Spent EXCEPT ![i] = @ + 1]
    BY <1>5, <1>9, <1>10 DEF Spent
  <2>2. Attempts!End(i)
    BY <1>1, <1>3, <1>4, <1>7, <1>8, <1>10, <2>1, EndsAttempt
  <2>3. i \notin DoneItems
    BY <1>1, <1>5, <1>9, <1>10 DEF AttemptsInv, AttemptOK
  <2>4. CASE InCopy(p).status = "done"
    <3>1. DoneItems' = DoneItems \cup {i}
      BY <1>5, <1>6, <2>4
    <3>2. i \in Stories \X (Stages \ {"extracted"}) => Works[i] > 0
      <4>1. SUFFICES ASSUME Stage(p) # "extracted" PROVE Works[i] > 0
        BY <1>4
      <4>2. disk'[Story(p)].stages[Stage(p)].status = "done"
        BY <1>1, <1>2, <2>4 DEF WriteState, InCopy, SharedInv
      <4>3. succeeded[Story(p)][Stage(p)] >= 1
        BY <1>1, <1>2, <4>1, <4>2 DEF DoneIsBacked
      <4>4. Works[i] = succeeded[Story(p)][Stage(p)] /\ Works[i] \in Nat
        BY <1>2, <1>4, ItemPairs DEF Works, SharedInv
      <4>5. QED
        BY <4>3, <4>4
    <3>3. Attempts!Succeed(i)
      BY <2>2, <3>1, <3>2 DEF Attempts!Succeed, Works
    <3>4. ActiveItems = {i}
      BY <1>3, <1>4, <1>10 DEF View, Claim
    <3>5. QED
      BY <3>3, <3>4 DEF Attempts!Next
  <2>5. CASE InCopy(p).status # "done"
    <3>1. DoneItems' = DoneItems
      BY <1>5, <1>6, <2>3, <2>5
    <3>2. Attempts!Fail(i)
      BY <2>2, <3>1 DEF Attempts!Fail
    <3>3. ActiveItems = {i}
      BY <1>3, <1>4, <1>10 DEF View, Claim
    <3>4. QED
      BY <3>2, <3>3 DEF Attempts!Next
  <2>6. QED
    BY <2>4, <2>5
<1>11. CASE ~Attempting(p)
  <2>1. Spent' = Spent /\ ActiveItems = {} /\ ActiveItems' = {} /\ Leaves' = Leaves
    BY <1>3, <1>5, <1>8, <1>9, <1>11 DEF Spent, View, Claim, LeaveOf
  <2>2. CASE InCopy(p).status = "done" <=> i \in DoneItems
    <3>1. DoneItems' = DoneItems
      BY <1>5, <1>6, <2>2
    <3>2. QED
      BY <1>1, <1>7, <2>1, <3>1 DEF Attempts!avars, Spent, Leaves, Works
  <2>3. CASE ~(InCopy(p).status = "done" <=> i \in DoneItems)
    <3>1. pc[p] = "failing"
      BY <1>1, <1>5, <1>9, <1>11, <2>3 DEF AttemptsInv, AttemptOK
    <3>2. InCopy(p).status # "done" /\ i \in DoneItems
      BY <2>3, <3>1 DEF TellsInv, Tells, InCopy
    <3>3. LateFailure
      BY <1>5, <1>9, <1>11, <3>1, <3>2 DEF AttemptsInv, AttemptOK
    <3>4. DoneItems' = DoneItems \ {i}
      BY <1>5, <1>6, <3>2
    <3>5. Attempts!Undo(i)
      BY <1>1, <1>7, <2>1, <3>2, <3>3, <3>4 DEF Attempts!Undo, Spent, Leaves, Works
    <3>6. QED
      BY <3>5 DEF Attempts!Next
  <2>4. QED
    BY <2>2, <2>3
<1>12. QED
  BY <1>10, <1>11

LEMMA FinishKeepsAttempts ==
    ASSUME LocalInv, SharedInv, MutexContext, CopyInv, CopyInv', AttemptsInv, TellsInv,
           DoneIsBacked', NEW p \in Proc, Frame(p), Finish(p)
    PROVE  [Attempts!Next]_Attempts!avars
<1>1. CASE Report(p) \/ Release(p)
  <2>1. pc[p] \notin WorkLabels /\ pc'[p] \notin WorkLabels /\ UNCHANGED <<disk, succeeded, faults>>
    BY <1>1 DEF Report, Release, Gone, At, Goto, LocalInv, WorkLabels
  <2>2. QED
    BY <2>1, RestKeepsAttempts
<1>2. CASE Save(p) /\ pc[p] = "boundary"
  <2>1. /\ pc[p] \notin WorkLabels /\ pc'[p] \notin WorkLabels /\ UNCHANGED <<succeeded, faults>>
        /\ disk' = [disk EXCEPT ![Story(p)] = mem[p]]
    BY <1>2 DEF Save, WriteState, Goto, LocalInv, WorkLabels
  <2>2. mem[p].stages = disk[Story(p)].stages
    BY <1>2, CopyFacts DEF CopyInv, CopyOK, Agrees, CopyLabels
  <2>3. \A s \in Stories : disk'[s].stages = disk[s].stages
    BY <2>1, <2>2 DEF SharedInv
  <2>4. QED
    BY <2>1, <2>3, RestKeepsAttempts
<1>3. CASE (Save(p) \/ SaveFailure(p)) /\ pc[p] # "boundary"
  BY <1>3, SaveKeepsAttempts
<1>4. QED
  BY <1>1, <1>2, <1>3 DEF Finish, SaveFailure, At

\* The process is cut short: what it has begun is lost with it, and so is its leave,
\* unless the adapter that outlives it does the work.
LEMMA CutShortKeepsAttempts ==
    ASSUME LocalInv, SharedInv, MutexContext, CopyInv, CopyInv', AttemptsInv,
           NEW p \in Proc, Frame(p), Crash(p) \/ Interrupt(p)
    PROVE  Attempts!Next
<1>1. /\ InCriticalSection(p) /\ pc'[p] = "idle" /\ UNCHANGED disk /\ faults' = faults + 1
      /\ OrphanMayFinish(p)
  BY DEF Crash, Interrupt, Fault, Gone, Goto, LocalInv, InCriticalSection
<1>2. View(p) /\ View(p)' /\ ~Attempting(p)' /\ ~MayYetWork(p)'
  BY <1>1, HolderAlone, AtRest DEF WorkLabels
<1>3. UNCHANGED <<DoneItems, Spent>>
  BY <1>1 DEF DoneItems, Spent
<1>4. CASE Attempting(p)
  <2>1. Story(p) \in Stories /\ Stage(p) \in Stages
    BY <1>4 DEF Attempting, HasCopy, InCriticalSection, At, LocalInv, JobOK
  <2>2. PICK i \in StageItems : i = Item(p) /\ i = <<Story(p), Stage(p)>>
    BY <2>1, ItemPairs DEF Item
  <2>3. UNCHANGED Works \/ (MayYetWork(p) /\ Works' = [Works EXCEPT ![i] = @ + 1])
    <3>1. CASE pc[p] = "calling"
      <4>1. PICK n \in {0, 1} : succeeded' = [succeeded EXCEPT ![Story(p)][Stage(p)] = @ + n]
        BY <1>1, <3>1 DEF OrphanMayFinish, DoWork, At
      <4>2. CASE n = 0
        <5>1. succeeded' = succeeded
          BY <2>1, <4>1, <4>2 DEF SharedInv
        <5>2. QED
          BY <5>1 DEF Works
      <4>3. CASE n = 1
        BY <2>1, <2>2, <3>1, <4>1, <4>3, WorkCounted DEF MayYetWork, At
      <4>4. QED
        BY <4>2, <4>3
    <3>2. CASE pc[p] # "calling"
      BY <1>1, <3>2 DEF OrphanMayFinish, At, Works
    <3>3. QED
      BY <3>1, <3>2
  <2>4. Attempts!Abandon(i)
    BY <1>1, <1>2, <1>3, <1>4, <2>2, <2>3, AbandonsAttempt
  <2>5. ActiveItems = {i}
    BY <1>2, <1>4, <2>2 DEF View, Claim
  <2>6. QED
    BY <2>4, <2>5 DEF Attempts!Next
<1>5. CASE ~Attempting(p)
  <2>1. ~MayYetWork(p)
    <3>1. MayYetWork(p) => HasCopy(p) /\ Stage(p) \in Stages
      BY DEF MayYetWork, HasCopy, InCriticalSection, InLock, At, LocalInv, JobOK
    <3>2. QED
      BY <1>5, <3>1 DEF MayYetWork, At, Attempting, AttemptsInv, AttemptOK, InCopy, InFile
  <2>2. UNCHANGED succeeded
    BY <1>1, <2>1 DEF OrphanMayFinish, At, MayYetWork
  <2>3. UNCHANGED Files /\ \A s \in Stories : disk'[s].stages = disk[s].stages
    BY <1>1, <2>2, FilesStay
  <2>4. Attempts!Suffer
    BY <1>1, <1>2, <1>5, <2>1, <2>3, NothingBegun
  <2>5. QED
    BY <2>4 DEF Attempts!Next
<1>6. QED
  BY <1>4, <1>5

LEMMA FailureKeepsAttempts ==
    ASSUME LocalInv, SharedInv, MutexContext, CopyInv, CopyInv', AttemptsInv,
           NEW p \in Proc, Frame(p), Fail(p)
    PROVE  Attempts!Next
<1>1. ASSUME pc[p] \notin WorkLabels, pc'[p] \notin WorkLabels, UNCHANGED <<disk, succeeded>>,
             faults' = faults + 1
      PROVE  Attempts!Next
  BY <1>1, RestKeepsAttempts DEF Attempts!Next
<1>2. ASSUME pc[p] \in {"saving", "reporting"}, Stage(p) \in Stages, Raise(p, mem[p], "SUBPROCESS"),
             UNCHANGED <<disk, job, succeeded>>, faults' = faults + 1
      PROVE  Attempts!Next
  <2>1. mem[p] \in StoryState
    BY DEF LocalInv
  <2>2. pc'[p] = "failing" /\ mem'[p] = SetStatus(mem[p], Stage(p), "failed")
    BY <1>2 DEF Raise, Remember, Goto, LocalInv
  <2>3. mem'[p].stages[Stage(p)].attempts = mem[p].stages[Stage(p)].attempts
    BY <1>2, <2>1, <2>2, SetStatusRevises DEF Revises, Statuses
  <2>4. Story(p)' = Story(p) /\ Stage(p)' = Stage(p) /\ Item(p)' = Item(p)
    BY <1>2 DEF Story, Stage, Item
  <2>5. HasCopy(p) /\ HasCopy(p)' /\ ~MayYetWork(p) /\ ~MayYetWork(p)'
    BY <1>2, <2>2 DEF HasCopy, InCriticalSection, InLock, At, MayYetWork
  <2>6. Attempting(p)' <=> Attempting(p)
    BY <1>2, <2>3, <2>4, <2>5 DEF Attempting
  <2>7. UNCHANGED Files /\ \A s \in Stories : disk'[s].stages = disk[s].stages
    BY <1>2, FilesStay
  <2>8. Attempts!Suffer
    BY <1>2, <2>4, <2>5, <2>6, <2>7, NothingBegun
  <2>9. QED
    BY <2>8 DEF Attempts!Next
<1>3. CASE LockWriteFails(p) \/ BoundarySaveFails(p)
  BY <1>1, <1>3 DEF LockWriteFails, MayLock, BoundarySaveFails, Gone, Fault, At, Goto, LocalInv,
     WorkLabels
<1>4. CASE SaveFails(p)
  BY <1>2, <1>4 DEF SaveFails, Fault, At, LocalInv, JobOK
<1>5. CASE ReportFails(p)
  <2>1. /\ pc[p] = "reporting" /\ UNCHANGED <<disk, job, succeeded>> /\ faults' = faults + 1
    BY <1>5 DEF ReportFails, Fault, At
  <2>2. CASE job[p].cmd = "resume"
    BY <1>1, <1>5, <2>1, <2>2 DEF ReportFails, Goto, LocalInv, WorkLabels
  <2>3. CASE job[p].cmd # "resume"
    <3>1. Stage(p) \in Stages
      BY <2>1, <2>3 DEF LocalInv, JobOK, At
    <3>2. QED
      BY <1>2, <1>5, <2>1, <2>3, <3>1 DEF ReportFails
  <2>4. QED
    BY <2>2, <2>3
<1>6. CASE SaveFailureFails(p)
  <2>1. /\ pc[p] = "failing" /\ pc'[p] = "closing" /\ UNCHANGED <<disk, succeeded, job>>
        /\ faults' = faults + 1
    BY <1>6 DEF SaveFailureFails, Fault, At, Goto, LocalInv
  <2>2. /\ ~MayYetWork(p) /\ ~MayYetWork(p)' /\ ~Attempting(p)'
        /\ InCriticalSection(p) /\ Story(p) \in Stories /\ Stage(p) \in Stages
    BY <2>1, AtRest DEF MayYetWork, At, WorkLabels, InCriticalSection, InLock, LocalInv, JobOK
  <2>3. UNCHANGED Files /\ \A s \in Stories : disk'[s].stages = disk[s].stages
    BY <2>1, FilesStay
  <2>4. CASE Attempting(p)
    <3>1. PICK i \in StageItems : i = Item(p)
      BY <2>2, ItemPairs DEF Item
    <3>2. View(p) /\ View(p)'
      BY <2>2, HolderAlone
    <3>3. UNCHANGED <<DoneItems, Spent>> /\ UNCHANGED Works
      BY <2>3 DEF Files
    <3>4. Attempts!Abandon(i)
      BY <2>1, <2>2, <2>4, <3>1, <3>2, <3>3, AbandonsAttempt
    <3>5. ActiveItems = {i}
      BY <2>4, <3>1, <3>2 DEF View, Claim
    <3>6. QED
      BY <3>4, <3>5 DEF Attempts!Next
  <2>5. CASE ~Attempting(p)
    <3>1. Attempts!Suffer
      BY <2>1, <2>2, <2>3, <2>5, NothingBegun
    <3>2. QED
      BY <3>1 DEF Attempts!Next
  <2>6. QED
    BY <2>4, <2>5
<1>7. CASE Crash(p) \/ Interrupt(p)
  BY <1>7, CutShortKeepsAttempts
<1>8. QED
  BY <1>3, <1>4, <1>5, <1>6, <1>7 DEF Fail

\* The environment is not part of any attempt.
LEMMA EnvironmentKeepsAttempts ==
    ASSUME LocalInv, SharedInv, MutualExclusion, EnvironmentStep
    PROVE  UNCHANGED Attempts!avars
<1>1. \A s \in Stories : disk'[s].stages = disk[s].stages
  BY DEF EnvironmentStep, Agrees
<1>2. UNCHANGED Files
  BY <1>1, FilesStay DEF EnvironmentStep
<1>3. ASSUME NEW q \in Proc
      PROVE  /\ Attempting(q)' <=> Attempting(q)
             /\ MayYetWork(q)' <=> MayYetWork(q)
             /\ Item(q)' = Item(q)
  <2>1. /\ HasCopy(q)' <=> HasCopy(q)
        /\ Story(q)' = Story(q) /\ Stage(q)' = Stage(q) /\ mem'[q] = mem[q] /\ pc'[q] = pc[q]
    BY DEF EnvironmentStep, HasCopy, InCriticalSection, At, Story, Stage
  <2>2. HasCopy(q) => Story(q) \in Stories
    BY DEF LocalInv, JobOK, HasCopy, InCriticalSection, At
  <2>3. QED
    BY <1>1, <2>1, <2>2 DEF Attempting, MayYetWork, At, Item
<1>4. ActiveItems' = ActiveItems
  BY <1>3 DEF ActiveItems
<1>5. \A i \in StageItems : Credit(i)' = Credit(i)
  BY <1>3 DEF Credit
<1>6. Leaves' = Leaves
  BY <1>5 DEF Leaves
<1>7. QED
  BY <1>2, <1>4, <1>6 DEF Attempts!avars, EnvironmentStep, Files, Spent, Leaves, Works

LEMMA StepKeepsAttempts ==
    ASSUME LocalInv, SharedInv, MutexContext, CopyInv, CopyInv', AttemptsInv, TellsInv,
           DoneIsBacked', [Next]_vars
    PROVE  [Attempts!Next]_Attempts!avars
<1>1. ASSUME NEW p \in Proc, Start(p) \/ Step(p) \/ Fail(p), Bystanders(p)
      PROVE  [Attempts!Next]_Attempts!avars
  <2>1. Frame(p)
    BY <1>1 DEF Bystanders
  <2>2. QED
    BY <1>1, <2>1, PreparationKeepsAttempts, RunKeepsAttempts, FinishKeepsAttempts,
       FailureKeepsAttempts DEF Step
<1>2. CASE EnvironmentStep
  BY <1>2, EnvironmentKeepsAttempts DEF MutexContext
<1>3. QED
  BY <1>1, <1>2, SomebodyMoves

\* The stages keep to the contract of an attempt: one at a time in the whole
\* repository, its work outside done at most once, counted with its outcome or lost in
\* a fault (cli.py: lock and handlers; runner.py: run_stage, _execute_stage).
THEOREM StagesKeepAttempts == Spec => KeepsAttempts
<1>1. Init => Attempts!Init
  <2> SUFFICES ASSUME Init PROVE Attempts!Init
    OBVIOUS
  <2>1. \A p \in Proc : ~Attempting(p) /\ ~MayYetWork(p)
    BY DEF Init, Attempting, MayYetWork, At, HasCopy, InCriticalSection, InLock
  <2>2. DoneItems = {} /\ ActiveItems = {}
    BY <2>1, ItemPairs DEF Init, DoneItems, ActiveItems, FreshState, PendingRecord
  <2>3. Spent = [i \in StageItems |-> 0]
    BY ItemPairs DEF Init, Spent, FreshState, PendingRecord
  <2>4. Works = [i \in StageItems |-> 0]
    BY ItemPairs DEF Init, Works
  <2>5. Leaves = [i \in StageItems |-> 0]
    BY <2>1 DEF Leaves, Credit
  <2>6. QED
    BY <2>2, <2>3, <2>4, <2>5 DEF Init, Attempts!Init, Spent, Leaves, Works
<1>2. /\ TypeInv /\ MutualExclusion /\ CopyInv /\ CopyInv' /\ AttemptsInv /\ TellsInv
      /\ DoneIsBacked' /\ [Next]_vars
      => [Attempts!Next]_Attempts!avars
  BY StepKeepsAttempts DEF TypeInv, LocalInv, MutexContext
<1>3. QED
  BY <1>1, <1>2, TypeInvariant, MutualExclusionHolds, CopyInvariant, AttemptsInvHolds,
     TellsInvHolds, DoneIsBackedHolds, PTL DEF Spec, KeepsAttempts, Attempts!Spec

\* What the contract says of the stages, whatever fails and however often: no work is
\* done outside that no recorded attempt, no attempt under way and no fault accounts
\* for, though a publisher may post and then exit with an error (runner.py: run_stage
\* counts before it works; cli.py saves the count with the outcome).
THEOREM WorkIsAccounted == Spec => []WorkAccounted
<1>1. MaxRetries \in Nat
  BY BudgetAssumption
<1>2. Attempts!Spec =>
         [](Attempts!WorkAccounted /\ Attempts!WorkWithinBudget /\ Attempts!DoneRestsOnWork)
  BY <1>1, Attempts!ContractAccounts
<1>3. TypeInv /\ Attempts!WorkAccounted => WorkAccounted
  <2>1. SUFFICES ASSUME TypeInv, Attempts!WorkAccounted, NEW i \in StageItems
                 PROVE  succeeded[i[1]][i[2]] <=
                           disk[i[1]].stages[i[2]].attempts + faults
                             + (IF i \in ActiveItems THEN 1 ELSE 0)
    BY DEF WorkAccounted
  <2>2. i[1] \in Stories /\ i[2] \in Stages
    BY ItemPairs
  <2>3. /\ Spent[i] = disk[i[1]].stages[i[2]].attempts /\ Works[i] = succeeded[i[1]][i[2]]
        /\ Leaves[i] \in Nat
    BY DEF Spent, Works, Leaves, Credit
  <2>4. Works[i] + Leaves[i] <= Spent[i] + faults + (IF i \in ActiveItems THEN 1 ELSE 0)
    BY <2>1 DEF Attempts!WorkAccounted, Attempts!Underway, Spent, Works, Leaves
  <2>5. Works[i] \in Nat /\ Spent[i] \in Nat /\ faults \in Nat
    BY <2>1, <2>2, <2>3, AccountTypes, BudgetAssumption
       DEF TypeInv, SharedInv, StoryState, StageRecord, Counts
  <2>6. QED
    BY <2>3, <2>4, <2>5
<1>4. QED
  BY <1>2, <1>3, StagesKeepAttempts, TypeInvariant, PTL DEF KeepsAttempts
===============================================================================
