---------------------------- MODULE ApprovalProofs ----------------------------
(***************************************************************************)
(* Proofs about Approval, for any number of commands, sources, pairs and   *)
(* faults: types, who holds the lock, and what the tracker may hold.       *)
(***************************************************************************)
EXTENDS Approval, TLAPS

(***************************************************************************)
(* Type correctness.  A command at work has a source, and from the moment  *)
(* it has a state to save that state is not the absent one.                *)
(***************************************************************************)
Busy == {"appending", "saving", "failing", "reporting"}
Status == {"dry_run", "pending_approval", "failed", "approved"}
RealState == [source : Sources, status : Status, candidates : Seq(Pairs)]
Job == [cmd : {"none", "extract", "approve"}, source : MaybeSource, dry : BOOLEAN]

Employed ==
    \A p \in Proc : /\ pc[p] # "idle" => job[p].source \in Sources
                    /\ pc[p] \in Busy => mem[p] \in RealState
TypeInv == TypeOK /\ Employed

\* The types, one variable at a time.
LEMMA Typed ==
    ASSUME TypeInv
    PROVE  /\ lock \in Proc \cup {Free, Stale} /\ file \in [Files -> SourceState]
           /\ tracker \in Seq(Story) /\ pc \in [Proc -> PC] /\ job \in [Proc -> Job]
           /\ mem \in [Proc -> SourceState] /\ todo \in [Proc -> Seq(Pairs)]
           /\ list \in [Proc -> Seq(Story)] /\ extracted \in [Sources -> SUBSET Pairs]
           /\ faults \in 0..MaxFaults
           /\ \A s \in Sources : FileOf[s] \in Files
BY FilesAssumption DEF TypeInv, TypeOK, Job

\* A state that names a source is a real one.
LEMMA States ==
    /\ NoState \in SourceState /\ RealState \subseteq SourceState
    /\ \A m \in SourceState : m # NoState => m \in RealState
    /\ NoState \notin RealState
BY NamesAssumption DEF SourceState, RealState, NoState, Status

\* Counting a fault keeps the bound.
LEMMA FaultType ==
    ASSUME TypeInv, NEW kind, Fault(kind)
    PROVE  faults' \in 0..MaxFaults
BY FaultsAssumption, Typed DEF Fault

\* The command moves on and leaves job and state as they are.
LEMMA Moves ==
    ASSUME TypeInv, NEW p \in Proc, NEW l \in PC, Goto(p, l), UNCHANGED <<job, mem>>,
           pc[p] # "idle", l \in Busy => mem[p] \in RealState
    PROVE  pc' \in [Proc -> PC] /\ Employed'
BY Typed DEF TypeInv, Employed, Goto

\* The command moves on with a new state.
LEMMA Remembers ==
    ASSUME TypeInv, NEW p \in Proc, NEW l \in PC, NEW m \in RealState, Goto(p, l), Remember(p, m),
           UNCHANGED job, pc[p] # "idle"
    PROVE  pc' \in [Proc -> PC] /\ mem' \in [Proc -> SourceState] /\ Employed'
BY Typed, States DEF TypeInv, Employed, Goto, Remember

\* Once it is over the process remembers nothing.
LEMMA GoneType ==
    ASSUME TypeInv, NEW p \in Proc, Gone(p)
    PROVE  /\ pc' \in [Proc -> PC] /\ job' \in [Proc -> Job] /\ mem' \in [Proc -> SourceState]
           /\ todo' \in [Proc -> Seq(Pairs)] /\ list' \in [Proc -> Seq(Story)] /\ Employed'
<1>1. NoJob \in Job
  BY DEF NoJob, Job, MaybeSource
<1>2. <<>> \in Seq(Pairs) /\ <<>> \in Seq(Story)
  OBVIOUS
<1>3. pc' \in [Proc -> PC] /\ pc'[p] = "idle" /\ \A q \in Proc : q # p => pc'[q] = pc[q]
  BY Typed DEF Gone, Goto, PC
<1>4. /\ job' \in [Proc -> Job] /\ mem' \in [Proc -> SourceState]
      /\ \A q \in Proc : q # p => job'[q] = job[q] /\ mem'[q] = mem[q]
  BY <1>1, Typed, States DEF Gone, Remember
<1>5. todo' \in [Proc -> Seq(Pairs)] /\ list' \in [Proc -> Seq(Story)]
  BY <1>2, Typed DEF Gone
<1>6. Employed'
  BY <1>3, <1>4 DEF TypeInv, Employed, Busy
<1>7. QED
  BY <1>3, <1>4, <1>5, <1>6

\* The steps of extract-candidate-pairs, and the saves of both commands.
LEMMA ExtractionType ==
    ASSUME TypeInv, NEW p \in Proc,
           \/ Start(p) \/ ExtractDry(p) \/ Extract(p) \/ ExtractFails(p) \/ Save(p) \/ Report(p)
           \/ SaveFails(p) \/ ReportFails(p)
    PROVE  TypeInv'
<1> USE DEF At
<1>1. SUFFICES /\ lock' \in Proc \cup {Free, Stale} /\ file' \in [Files -> SourceState]
               /\ tracker' \in Seq(Story) /\ pc' \in [Proc -> PC] /\ job' \in [Proc -> Job]
               /\ mem' \in [Proc -> SourceState] /\ todo' \in [Proc -> Seq(Pairs)]
               /\ list' \in [Proc -> Seq(Story)] /\ extracted' \in [Sources -> SUBSET Pairs]
               /\ faults' \in 0..MaxFaults /\ Employed'
  BY DEF TypeInv, TypeOK, Job
<1>2. /\ pc[p] # "idle" => job[p].source \in Sources /\ File(p) \in Files
      /\ pc[p] \in Busy => mem[p] \in RealState
  BY Typed DEF TypeInv, Employed, File
<1>3. CASE Start(p)
  <2>1. PICK j \in Job, l \in {"extracting", "loading"} :
            j.source \in Sources /\ job' = [job EXCEPT ![p] = j] /\ Goto(p, l)
    BY <1>3 DEF Start, CommandLine, Job, MaybeSource
  <2>2. job' \in [Proc -> Job] /\ pc' \in [Proc -> PC]
    BY <2>1, Typed DEF Goto, PC
  <2>3. Employed'
    BY <1>3, <2>1, Typed DEF Start, Goto, TypeInv, Employed, Busy
  <2>4. QED
    BY <1>3, <2>2, <2>3, Typed DEF Start
<1>4. CASE ExtractDry(p)
  <2>1. [source |-> job[p].source, status |-> "dry_run", candidates |-> <<>>] \in RealState
    BY <1>2, <1>4 DEF ExtractDry, RealState, Status
  <2>2. "saving" \in PC
    BY DEF PC
  <2>3. QED
    BY <1>4, <2>1, <2>2, Remembers, Typed DEF ExtractDry
<1>5. CASE Extract(p)
  <2>1. PICK b \in Batches :
         /\ Remember(p, [source |-> job[p].source, status |-> "pending_approval", candidates |-> b])
         /\ extracted' = [extracted EXCEPT ![job[p].source] = @ \cup {b[i] : i \in DOMAIN b}]
    BY <1>5 DEF Extract
  <2>2. b \in Seq(Pairs) /\ {b[i] : i \in DOMAIN b} \subseteq Pairs
    BY BatchesAssumption
  <2>3. [source |-> job[p].source, status |-> "pending_approval", candidates |-> b] \in RealState
    BY <1>2, <1>5, <2>2 DEF Extract, RealState, Status
  <2>4. "saving" \in PC /\ extracted' \in [Sources -> SUBSET Pairs]
    BY <1>2, <2>1, <2>2, Typed DEF PC
  <2>5. QED
    BY <1>5, <2>1, <2>3, <2>4, Remembers, Typed DEF Extract
<1>6. CASE ExtractFails(p) \/ Report(p)
  BY <1>6, Moves, Typed DEF ExtractFails, Report, PC, Busy
<1>7. CASE Save(p)
  <2>1. file' \in [Files -> SourceState]
    BY <1>2, <1>7, Typed DEF Save
  <2>2. pc' \in [Proc -> PC] /\ Employed'
    BY <1>2, <1>7, Moves DEF Save, PC, Busy
  <2>3. QED
    BY <1>7, <2>1, <2>2, Typed DEF Save
<1>8. CASE SaveFails(p) \/ ReportFails(p)
  <2>1. Raise(p) /\ faults' \in 0..MaxFaults /\ mem[p] \in RealState /\ pc[p] # "idle"
    BY <1>2, <1>8, FaultType DEF SaveFails, ReportFails, Busy
  <2>2. [mem[p] EXCEPT !.status = "failed"] \in RealState
    BY <2>1 DEF RealState, Status
  <2>3. "failing" \in PC /\ "closing" \in PC /\ "closing" \notin Busy
    BY DEF PC, Busy
  <2>4. UNCHANGED job
    BY <1>8 DEF SaveFails, ReportFails
  <2>5. pc' \in [Proc -> PC] /\ mem' \in [Proc -> SourceState] /\ Employed'
    BY <2>1, <2>2, <2>3, <2>4, Moves, Remembers, Typed DEF Raise
  <2>6. QED
    BY <1>8, <2>1, <2>5, Typed DEF SaveFails, ReportFails
<1>9. QED
  BY <1>3, <1>4, <1>5, <1>6, <1>7, <1>8

\* The steps of approve-candidate-pairs and the end of every command.
LEMMA ApprovalType ==
    ASSUME TypeInv, NEW p \in Proc,
           \/ NotApprovable(p) \/ Load(p) \/ Skip(p) \/ AppendStory(p) \/ WriteTracker(p)
           \/ WriteTrackerFails(p) \/ Close(p) \/ Abandon(p)
    PROVE  TypeInv'
<1> USE DEF At
<1>1. SUFFICES /\ lock' \in Proc \cup {Free, Stale} /\ file' \in [Files -> SourceState]
               /\ tracker' \in Seq(Story) /\ pc' \in [Proc -> PC] /\ job' \in [Proc -> Job]
               /\ mem' \in [Proc -> SourceState] /\ todo' \in [Proc -> Seq(Pairs)]
               /\ list' \in [Proc -> Seq(Story)] /\ extracted' \in [Sources -> SUBSET Pairs]
               /\ faults' \in 0..MaxFaults /\ Employed'
  BY DEF TypeInv, TypeOK, Job
<1>2. /\ pc[p] # "idle" => job[p].source \in Sources /\ File(p) \in Files
      /\ pc[p] \in Busy => mem[p] \in RealState
  BY Typed DEF TypeInv, Employed, File
<1>3. CASE NotApprovable(p)
  BY <1>3, Moves, Typed DEF NotApprovable, PC, Busy
<1>4. CASE Load(p)
  <2>1. file[File(p)] \in RealState
    BY <1>2, <1>4, Typed, States DEF Load, Approvable
  <2>2. "appending" \in PC /\ file[File(p)].candidates \in Seq(Pairs)
    BY <2>1 DEF PC, RealState
  <2>3. pc' \in [Proc -> PC] /\ mem' \in [Proc -> SourceState] /\ Employed'
    BY <1>4, <2>1, <2>2, Remembers DEF Load
  <2>4. todo' \in [Proc -> Seq(Pairs)] /\ list' \in [Proc -> Seq(Story)]
    BY <1>4, <2>2, Typed DEF Load
  <2>5. QED
    BY <1>4, <2>3, <2>4, Typed DEF Load
<1>5. ASSUME Skip(p) \/ AppendStory(p)
      PROVE  todo[p] \in Seq(Pairs) /\ Head(todo[p]) \in Pairs /\ Tail(todo[p]) \in Seq(Pairs)
  BY <1>5, Typed DEF Skip, AppendStory
<1>6. CASE Skip(p)
  <2>1. Employed'
    BY <1>6 DEF Skip, TypeInv, Employed
  <2>2. QED
    BY <1>5, <1>6, <2>1, Typed DEF Skip
<1>7. CASE AppendStory(p)
  <2>1. PICK n \in 1..(Len(list[p]) + 1) :
            list' = [list EXCEPT ![p] =
                Append(@, [id |-> n, source |-> Owner(p), pair |-> Head(todo[p])])]
    BY <1>7 DEF AppendStory
  <2>2. n \in Nat /\ Owner(p) \in Sources
    BY <1>2, <1>7, <2>1, Typed DEF AppendStory, Owner, RealState, Busy
  <2>3. [id |-> n, source |-> Owner(p), pair |-> Head(todo[p])] \in Story
    BY <1>5, <1>7, <2>2 DEF Story
  <2>4. list' \in [Proc -> Seq(Story)]
    BY <2>1, <2>3, Typed
  <2>5. Employed'
    BY <1>7 DEF AppendStory, TypeInv, Employed
  <2>6. QED
    BY <1>5, <1>7, <2>4, <2>5, Typed DEF AppendStory
<1>8. CASE WriteTracker(p)
  <2>1. [mem[p] EXCEPT !.status = "approved"] \in RealState
    BY <1>2, <1>8 DEF WriteTracker, Busy, RealState, Status
  <2>2. "saving" \in PC /\ tracker' \in Seq(Story)
    BY <1>8, Typed DEF WriteTracker, PC
  <2>3. QED
    BY <1>8, <2>1, <2>2, Remembers, Typed DEF WriteTracker
<1>9. CASE WriteTrackerFails(p)
  <2>1. pc' \in [Proc -> PC] /\ Employed'
    BY <1>9, Moves DEF WriteTrackerFails, TrackerError, PC, Busy
  <2>2. QED
    BY <1>9, <2>1, FaultType, Typed DEF WriteTrackerFails, TrackerError
<1>10. CASE Close(p) \/ Abandon(p)
  BY <1>10, GoneType, FaultType, Typed DEF Close, Abandon
<1>11. QED
  BY <1>3, <1>4, <1>6, <1>7, <1>8, <1>9, <1>10

\* The types are an invariant.
LEMMA TypesHold == Spec => []TypeInv
<1>1. Init => TypeInv
  <2>1. NoJob \in Job /\ <<>> \in Seq(Pairs) /\ <<>> \in Seq(Story) /\ 0 \in 0..MaxFaults
    BY FaultsAssumption DEF NoJob, Job, MaybeSource
  <2>2. QED
    BY <2>1, States DEF Init, TypeInv, TypeOK, Employed, Job, PC, Busy
<1>2. TypeInv /\ [Next]_vars => TypeInv'
  <2> SUFFICES ASSUME TypeInv, [Next]_vars PROVE TypeInv'
    OBVIOUS
  <2>1. CASE RemoveStaleLock \/ UNCHANGED vars
    BY <2>1 DEF RemoveStaleLock, vars, TypeInv, TypeOK, Employed
  <2>2. QED
    BY <2>1, ExtractionType, ApprovalType DEF Next
<1>3. QED
  BY <1>1, <1>2, PTL DEF Spec

\* Every variable has its type, and a state file that exists names its source
\* (state.py: SourceState).
THEOREM Types == Spec => []TypeOK
<1>1. TypeInv => TypeOK
  BY DEF TypeInv
<1>2. QED
  BY <1>1, TypesHold, PTL

(***************************************************************************)
(* The lock: only its holder is at work.                                   *)
(***************************************************************************)
Holder == \A p \in Proc : pc[p] # "idle" => lock = p

\* Two commands are never at work together.
LEMMA HolderStep ==
    ASSUME TypeInv, Holder, [Next]_vars
    PROVE  Holder'
<1>1. pc \in [Proc -> PC]
  BY Typed
<1>2. ASSUME NEW p \in Proc, Start(p) PROVE Holder'
  <2>1. \A q \in Proc : pc[q] = "idle"
    BY <1>2, NamesAssumption DEF Start, MayLock, Holder
  <2>2. lock' = p /\ \A q \in Proc : q # p => pc'[q] = pc[q]
    BY <1>1, <1>2 DEF Start, CommandLine, Goto
  <2>3. QED
    BY <2>1, <2>2 DEF Holder
<1>3. ASSUME NEW p \in Proc, Close(p) \/ Abandon(p) PROVE Holder'
  <2>1. \A q \in Proc : q # p => pc[q] = "idle"
    BY <1>3 DEF Close, Abandon, At, Holder
  <2>2. pc' = [pc EXCEPT ![p] = "idle"]
    BY <1>3 DEF Close, Abandon, Gone, Goto
  <2>3. QED
    BY <1>1, <2>1, <2>2 DEF Holder
<1>4. ASSUME NEW p \in Proc, UNCHANGED lock, pc[p] # "idle", NEW l, Goto(p, l) \/ UNCHANGED pc
      PROVE  Holder'
  BY <1>1, <1>4 DEF Goto, Holder
<1>5. ASSUME NEW p \in Proc,
             \/ ExtractDry(p) \/ Extract(p) \/ ExtractFails(p) \/ Save(p) \/ Report(p)
             \/ SaveFails(p) \/ ReportFails(p) \/ NotApprovable(p) \/ Load(p) \/ Skip(p)
             \/ AppendStory(p) \/ WriteTracker(p) \/ WriteTrackerFails(p)
      PROVE  Holder'
  <2>1. UNCHANGED lock /\ pc[p] # "idle"
    BY <1>5 DEF ExtractDry, Extract, ExtractFails, Save, Report, SaveFails, ReportFails,
       NotApprovable, Load, Skip, AppendStory, WriteTracker, WriteTrackerFails, At
  <2>2. UNCHANGED pc \/ \E l \in PC : Goto(p, l)
    BY <1>5 DEF ExtractDry, Extract, ExtractFails, Save, Report, SaveFails, ReportFails, Raise,
       NotApprovable, Load, Skip, AppendStory, WriteTracker, WriteTrackerFails, TrackerError, PC
  <2>3. QED
    BY <1>4, <2>1, <2>2
<1>6. CASE RemoveStaleLock \/ UNCHANGED vars
  BY <1>6, NamesAssumption DEF RemoveStaleLock, vars, Holder
<1>7. QED
  BY <1>2, <1>3, <1>5, <1>6 DEF Next

(***************************************************************************)
(* The tracker.  An approval works on a list that extends the tracker; both *)
(* hold a pair of a source once, no identifier twice, and only pairs that   *)
(* the source's extractor proposed.  A candidate is listed or still to do.  *)
(***************************************************************************)
NoSharedId(l) == \A i, j \in DOMAIN l : l[i].id = l[j].id => i = j
Attributed(l) == \A i \in DOMAIN l : l[i].pair \in extracted[l[i].source]
Sound(l) == NoTwins(l) /\ NoSharedId(l) /\ Attributed(l)
Extends(l) == \A i \in DOMAIN tracker : i \in DOMAIN l /\ l[i] = tracker[i]
AllListed(l, m) == \A i \in DOMAIN m.candidates : Listed(l, m.source, m.candidates[i])
Proposed(m) == \A i \in DOMAIN m.candidates : m.candidates[i] \in extracted[m.source]
InHand(p, c) == \E j \in DOMAIN todo[p] : todo[p][j] = c

Appending(p) ==
    /\ Extends(list[p]) /\ Sound(list[p])
    /\ \A j \in DOMAIN todo[p] : todo[p][j] \in extracted[mem[p].source]
    /\ \A i \in DOMAIN mem[p].candidates :
         Listed(list[p], mem[p].source, mem[p].candidates[i]) \/ InHand(p, mem[p].candidates[i])
Remembered(p) ==
    /\ pc[p] \in Busy => Proposed(mem[p])
    /\ pc[p] = "appending" => Appending(p)
    /\ pc[p] \in {"saving", "failing"} /\ mem[p].status = "approved" => AllListed(tracker, mem[p])
Stored(f) ==
    /\ file[f] # NoState => Proposed(file[f])
    /\ file[f].status = "approved" => AllListed(tracker, file[f])
TrackerInv ==
    /\ Sound(tracker)
    /\ \A f \in Files : Stored(f)
    /\ \A p \in Proc : Remembered(p)

\* A new pair under the next identifier leaves a list sound.
LEMMA AppendSound ==
    ASSUME NEW l \in Seq(Story), NEW n \in Nat, NEW s \in Sources, NEW x \in Pairs,
           Sound(l), IsNextId(n, l), ~Listed(l, s, x), x \in extracted[s],
           NEW k, k = Append(l, [id |-> n, source |-> s, pair |-> x])
    PROVE  /\ Sound(k)
           /\ \A i \in DOMAIN l : i \in DOMAIN k /\ k[i] = l[i]
           /\ Listed(k, s, x)
<1> DEFINE r == [id |-> n, source |-> s, pair |-> x]
<1>1. r.id = n /\ r.source = s /\ r.pair = x /\ r \in Story
  BY DEF Story
<1>2. k = Append(l, r)
  OBVIOUS
<1> HIDE DEF r
<1>3. /\ Len(l) \in Nat /\ DOMAIN l = 1..Len(l) /\ DOMAIN k = 1..(Len(l) + 1)
      /\ k[Len(l) + 1] = r /\ \A i \in 1..Len(l) : k[i] = l[i] /\ l[i] \in Story
  BY <1>1, <1>2
<1>4. \A i \in DOMAIN l : l[i].id < n /\ l[i].id \in Nat /\ ~(l[i].source = s /\ l[i].pair = x)
  BY <1>3 DEF IsNextId, Listed, Story
<1>5. \A i \in DOMAIN k : (i \in DOMAIN l /\ k[i] = l[i]) \/ (i = Len(l) + 1 /\ k[i] = r)
  BY <1>3
<1>6. NoTwins(k)
  BY <1>1, <1>4, <1>5 DEF Sound, NoTwins
<1>7. NoSharedId(k)
  BY <1>1, <1>4, <1>5 DEF Sound, NoSharedId
<1>8. Attributed(k)
  BY <1>1, <1>5 DEF Sound, Attributed
<1>9. Listed(k, s, x)
  BY <1>1, <1>3 DEF Listed
<1>10. QED
  BY <1>3, <1>6, <1>7, <1>8, <1>9 DEF Sound

\* What is listed stays listed in a longer list.
LEMMA ListedGrows ==
    ASSUME NEW l, NEW k, NEW s, NEW x, Listed(l, s, x),
           \A i \in DOMAIN l : i \in DOMAIN k /\ k[i] = l[i]
    PROVE  Listed(k, s, x)
BY DEF Listed

\* The holder is alone before and after its step.
LEMMA Alone ==
    ASSUME TypeInv, Holder, NEW p \in Proc, pc[p] # "idle", NEW l, Goto(p, l)
    PROVE  /\ pc'[p] = l
           /\ \A q \in Proc : q # p => pc[q] = "idle" /\ pc'[q] = "idle"
BY Typed DEF Holder, Goto

\* A step that leaves the process without a state changes nothing that counts.
LEMMA LeavesTracker ==
    ASSUME TrackerInv, UNCHANGED <<file, tracker, extracted>>,
           \A p \in Proc : pc'[p] \notin Busy
    PROVE  TrackerInv'
<1>1. Sound(tracker)' /\ \A f \in Files : Stored(f)'
  BY DEF TrackerInv, Sound, NoTwins, NoSharedId, Attributed, Stored, Proposed, AllListed, Listed
<1>2. \A p \in Proc : Remembered(p)'
  BY DEF Remembered, Busy
<1>3. QED
  BY <1>1, <1>2 DEF TrackerInv

\* A step that keeps files, tracker and answers, for the state it leaves.
LEMMA KeepsTracker ==
    ASSUME TypeInv, Holder, TrackerInv, UNCHANGED <<file, tracker, extracted>>,
           NEW p \in Proc, pc[p] # "idle", NEW l, Goto(p, l), Remembered(p)'
    PROVE  TrackerInv'
<1>1. Sound(tracker)' /\ \A f \in Files : Stored(f)'
  BY DEF TrackerInv, Sound, NoTwins, NoSharedId, Attributed, Stored, Proposed, AllListed, Listed
<1>2. \A q \in Proc : q # p => Remembered(q)'
  BY Alone DEF Remembered, Busy
<1>3. QED
  BY <1>1, <1>2 DEF TrackerInv

\* The answer of an extractor is added to what it has proposed.
LEMMA ExtractTracks ==
    ASSUME TypeInv, Holder, TrackerInv, NEW p \in Proc, Extract(p)
    PROVE  TrackerInv'
<1>1. PICK b \in Batches :
         /\ Remember(p, [source |-> job[p].source, status |-> "pending_approval", candidates |-> b])
         /\ extracted' = [extracted EXCEPT ![job[p].source] = @ \cup {b[i] : i \in DOMAIN b}]
  BY DEF Extract
<1>2. /\ pc[p] = "extracting" /\ job[p].source \in Sources /\ UNCHANGED <<file, tracker>>
      /\ Goto(p, "saving")
  BY DEF Extract, At, TypeInv, Employed
<1>3. pc'[p] = "saving" /\ \A q \in Proc : q # p => pc'[q] = "idle"
  BY <1>2, Alone
<1>4. /\ \A s \in Sources : extracted[s] \subseteq extracted'[s]
      /\ \A i \in DOMAIN b : b[i] \in extracted'[job[p].source]
  BY <1>1, <1>2, Typed
<1>5. /\ mem'[p].source = job[p].source /\ mem'[p].candidates = b
      /\ mem'[p].status = "pending_approval"
  BY <1>1, Typed DEF Remember
<1>6. Sound(tracker)'
  <2>1. \A i \in DOMAIN tracker : tracker[i].source \in Sources
    <3>1. tracker \in Seq(Story)
      BY Typed
    <3>2. \A i \in DOMAIN tracker : tracker[i] \in Story
      BY <3>1
    <3>3. QED
      BY <3>2 DEF Story
  <2>2. QED
    BY <1>2, <1>4, <2>1 DEF TrackerInv, Sound, NoTwins, NoSharedId, Attributed
<1>7. ASSUME NEW f \in Files PROVE Stored(f)'
  <2>1. file[f] # NoState => file[f].source \in Sources
    BY Typed, States DEF RealState
  <2>2. QED
    BY <1>2, <1>4, <2>1 DEF TrackerInv, Stored, Proposed, AllListed, Listed
<1>8. Remembered(p)'
  BY <1>3, <1>4, <1>5 DEF Remembered, Proposed
<1>9. \A q \in Proc : q # p => Remembered(q)'
  BY <1>3 DEF Remembered, Busy
<1>10. QED
  BY <1>6, <1>7, <1>8, <1>9 DEF TrackerInv

\* A save stores what the command remembers.
LEMMA SaveTracks ==
    ASSUME TypeInv, Holder, TrackerInv, NEW p \in Proc, Save(p)
    PROVE  TrackerInv'
<1>1. /\ pc[p] \in {"saving", "failing"} /\ UNCHANGED <<tracker, mem, extracted>>
      /\ file' = [file EXCEPT ![File(p)] = mem[p]]
  BY DEF Save
<1>2. \E l \in {"reporting", "closing"} : Goto(p, l)
  BY DEF Save
<1>3. pc'[p] \in {"reporting", "closing"} /\ \A q \in Proc : q # p => pc'[q] = "idle"
  BY <1>1, <1>2, Alone
<1>4. Proposed(mem[p]) /\ (mem[p].status = "approved" => AllListed(tracker, mem[p]))
  BY <1>1 DEF TrackerInv, Remembered, Busy
<1>5. Sound(tracker)'
  BY <1>1 DEF TrackerInv, Sound, NoTwins, NoSharedId, Attributed
<1>6. ASSUME NEW f \in Files PROVE Stored(f)'
  <2>1. file'[f] = file[f] \/ file'[f] = mem[p]
    BY <1>1, Typed
  <2>2. QED
    BY <1>1, <1>4, <2>1 DEF TrackerInv, Stored, Proposed, AllListed, Listed
<1>7. \A q \in Proc : Remembered(q)'
  BY <1>1, <1>3, <1>4 DEF Remembered, Busy, Proposed
<1>8. QED
  BY <1>5, <1>6, <1>7 DEF TrackerInv

\* An approval starts from the tracker and the stored candidates.
LEMMA LoadTracks ==
    ASSUME TypeInv, Holder, TrackerInv, NEW p \in Proc, Load(p)
    PROVE  TrackerInv'
<1>1. /\ UNCHANGED <<file, tracker, extracted>> /\ Goto(p, "appending") /\ pc[p] = "loading"
      /\ file[File(p)] # NoState /\ File(p) \in Files
  BY Typed DEF Load, At, Approvable, TypeInv, Employed, File
<1>2. /\ mem'[p] = file[File(p)] /\ todo'[p] = file[File(p)].candidates /\ list'[p] = tracker
      /\ pc'[p] = "appending"
  BY Typed DEF Load, Remember, Goto
<1>3. Proposed(file[File(p)]) /\ Sound(tracker)
  BY <1>1 DEF TrackerInv, Stored
<1>4. Proposed(mem[p])'
  BY <1>1, <1>2, <1>3 DEF Proposed
<1>5. Appending(p)'
  <2>1. Extends(list[p])'
    BY <1>1, <1>2 DEF Extends
  <2>2. Sound(list[p])'
    BY <1>1, <1>2, <1>3 DEF Sound, NoTwins, NoSharedId, Attributed
  <2>3. QED
    BY <1>1, <1>2, <1>3, <2>1, <2>2 DEF Appending, Proposed, InHand
<1>6. QED
  BY <1>1, <1>2, <1>4, <1>5, KeepsTracker DEF Remembered

\* What is in a sequence is its head or in its tail.
LEMMA HeadOrTail ==
    ASSUME NEW t \in Seq(Pairs), t # <<>>
    PROVE  /\ Head(t) \in Pairs /\ \E j \in DOMAIN t : t[j] = Head(t)
           /\ \A j \in DOMAIN t : t[j] = Head(t) \/ \E k \in DOMAIN Tail(t) : Tail(t)[k] = t[j]
           /\ \A k \in DOMAIN Tail(t) : \E j \in DOMAIN t : Tail(t)[k] = t[j]
<1>1. /\ Len(t) \in Nat \ {0} /\ DOMAIN t = 1..Len(t) /\ Head(t) = t[1] /\ t[1] \in Pairs
      /\ DOMAIN Tail(t) = 1..(Len(t) - 1)
      /\ \A k \in 1..(Len(t) - 1) : Tail(t)[k] = t[k + 1]
  OBVIOUS
<1>2. \A j \in DOMAIN t : j = 1 \/ (j - 1 \in DOMAIN Tail(t) /\ Tail(t)[j - 1] = t[j])
  BY <1>1
<1>3. \A k \in DOMAIN Tail(t) : k + 1 \in DOMAIN t /\ Tail(t)[k] = t[k + 1]
  BY <1>1
<1>4. \E j \in DOMAIN t : t[j] = Head(t)
  BY <1>1
<1>5. \A j \in DOMAIN t : t[j] = Head(t) \/ \E k \in DOMAIN Tail(t) : Tail(t)[k] = t[j]
  BY <1>1, <1>2
<1>6. \A k \in DOMAIN Tail(t) : \E j \in DOMAIN t : Tail(t)[k] = t[j]
  BY <1>3
<1>7. QED
  BY <1>1, <1>4, <1>5, <1>6

\* A candidate that is listed already is passed over.
LEMMA SkipTracks ==
    ASSUME TypeInv, Holder, TrackerInv, NEW p \in Proc, Skip(p)
    PROVE  Remembered(p)'
<1>1. /\ UNCHANGED <<tracker, extracted, pc, mem, list>> /\ pc[p] = "appending"
      /\ todo[p] \in Seq(Pairs) /\ todo[p] # <<>> /\ todo'[p] = Tail(todo[p])
      /\ Listed(list[p], mem[p].source, Head(todo[p]))
  BY Typed DEF Skip, At, Owner
<1>2. /\ Head(todo[p]) \in Pairs /\ \E j \in DOMAIN todo[p] : todo[p][j] = Head(todo[p])
      /\ \A j \in DOMAIN todo[p] :
           todo[p][j] = Head(todo[p]) \/ \E k \in DOMAIN todo'[p] : todo'[p][k] = todo[p][j]
      /\ \A k \in DOMAIN todo'[p] : \E j \in DOMAIN todo[p] : todo'[p][k] = todo[p][j]
  BY <1>1, HeadOrTail
<1>3. Appending(p) /\ Proposed(mem[p])
  BY <1>1 DEF TrackerInv, Remembered, Busy
<1>4. Appending(p)'
  <2>1. Extends(list[p])' /\ Sound(list[p])'
    BY <1>1, <1>3 DEF Appending, Extends, Sound, NoTwins, NoSharedId, Attributed
  <2>2. \A j \in DOMAIN todo'[p] : todo'[p][j] \in extracted[mem[p].source]
    BY <1>2, <1>3 DEF Appending
  <2>3. \A i \in DOMAIN mem[p].candidates :
            Listed(list[p], mem[p].source, mem[p].candidates[i])
              \/ \E k \in DOMAIN todo'[p] : todo'[p][k] = mem[p].candidates[i]
    BY <1>1, <1>2, <1>3 DEF Appending, InHand
  <2>4. QED
    BY <1>1, <2>1, <2>2, <2>3 DEF Appending, InHand
<1>5. QED
  BY <1>1, <1>3, <1>4 DEF Remembered, Proposed

\* A candidate that is new is appended.
LEMMA AppendTracks ==
    ASSUME TypeInv, Holder, TrackerInv, NEW p \in Proc, AppendStory(p)
    PROVE  Remembered(p)'
<1>1. /\ UNCHANGED <<tracker, extracted, pc, mem>> /\ pc[p] = "appending"
      /\ todo[p] \in Seq(Pairs) /\ todo[p] # <<>> /\ todo'[p] = Tail(todo[p])
      /\ list[p] \in Seq(Story) /\ mem[p] \in RealState
      /\ ~Listed(list[p], mem[p].source, Head(todo[p]))
  BY Typed DEF AppendStory, At, Owner, TypeInv, Employed, Busy
<1>2. /\ Head(todo[p]) \in Pairs /\ \E j \in DOMAIN todo[p] : todo[p][j] = Head(todo[p])
      /\ \A j \in DOMAIN todo[p] :
           todo[p][j] = Head(todo[p]) \/ \E k \in DOMAIN todo'[p] : todo'[p][k] = todo[p][j]
      /\ \A k \in DOMAIN todo'[p] : \E j \in DOMAIN todo[p] : todo'[p][k] = todo[p][j]
  <2>1. todo[p] \in Seq(Pairs) /\ todo[p] # <<>> /\ todo'[p] = Tail(todo[p])
    BY <1>1
  <2>2. QED
    BY <2>1, HeadOrTail
<1>3. Appending(p) /\ Proposed(mem[p]) /\ mem[p].source \in Sources
  BY <1>1 DEF TrackerInv, Remembered, Busy, RealState
<1>4. PICK n \in 1..(Len(list[p]) + 1) :
         /\ IsNextId(n, list[p])
         /\ list' = [list EXCEPT ![p] =
              Append(@, [id |-> n, source |-> Owner(p), pair |-> Head(todo[p])])]
  BY DEF AppendStory
<1>5. PICK l \in Seq(Story), s \in Sources, x \in Pairs :
          l = list[p] /\ s = mem[p].source /\ x = Head(todo[p])
  BY <1>1, <1>2, <1>3
<1> DEFINE k == Append(l, [id |-> n, source |-> s, pair |-> x])
<1>6. list'[p] = k
  BY <1>4, <1>5, Typed DEF Owner
<1>7. Sound(k) /\ Listed(k, s, x) /\ \A i \in DOMAIN l : i \in DOMAIN k /\ k[i] = l[i]
  <2>1. x \in extracted[s]
    BY <1>2, <1>3, <1>5 DEF Appending
  <2>2. Sound(l)
    BY <1>3, <1>5 DEF Appending, Sound, NoTwins, NoSharedId, Attributed
  <2>3. n \in Nat /\ IsNextId(n, l)
    BY <1>4, <1>5 DEF IsNextId
  <2>4. ~Listed(l, s, x)
    BY <1>1, <1>5 DEF Listed
  <2>5. \A z : z = Append(l, [id |-> n, source |-> s, pair |-> x]) =>
            Sound(z) /\ Listed(z, s, x) /\ \A i \in DOMAIN l : i \in DOMAIN z /\ z[i] = l[i]
    BY <2>1, <2>2, <2>3, <2>4, AppendSound
  <2>6. QED
    BY <2>5
<1> HIDE DEF k
<1>8. Appending(p)'
  <2>1. Extends(list[p])'
    BY <1>1, <1>3, <1>5, <1>6, <1>7 DEF Appending, Extends
  <2>2. Sound(list[p])'
    BY <1>1, <1>6, <1>7 DEF Sound, NoTwins, NoSharedId, Attributed
  <2>3. \A j \in DOMAIN todo'[p] : todo'[p][j] \in extracted[mem[p].source]
    BY <1>2, <1>3 DEF Appending
  <2>4. \A i \in DOMAIN mem[p].candidates :
            Listed(k, s, mem[p].candidates[i])
              \/ \E j \in DOMAIN todo'[p] : todo'[p][j] = mem[p].candidates[i]
    <3> SUFFICES ASSUME NEW i \in DOMAIN mem[p].candidates
                 PROVE  Listed(k, s, mem[p].candidates[i])
                        \/ \E j \in DOMAIN todo'[p] : todo'[p][j] = mem[p].candidates[i]
      OBVIOUS
    <3>1. CASE Listed(l, s, mem[p].candidates[i])
      BY <1>7, <3>1, ListedGrows
    <3>2. CASE InHand(p, mem[p].candidates[i])
      BY <1>2, <1>5, <1>7, <3>2 DEF InHand
    <3>3. QED
      BY <1>3, <1>5, <3>1, <3>2 DEF Appending, Listed
  <2>5. QED
    BY <1>1, <1>5, <1>6, <2>1, <2>2, <2>3, <2>4 DEF Appending, InHand, Listed
<1>9. QED
  BY <1>1, <1>3, <1>8 DEF Remembered, Proposed

\* The list takes the place of the tracker it extends.
LEMMA WriteTracks ==
    ASSUME TypeInv, Holder, TrackerInv, NEW p \in Proc, WriteTracker(p)
    PROVE  TrackerInv' /\ \A i \in DOMAIN tracker : i \in DOMAIN tracker' /\ tracker'[i] = tracker[i]
<1>1. /\ UNCHANGED <<file, extracted>> /\ Goto(p, "saving") /\ pc[p] = "appending"
      /\ todo[p] = <<>> /\ tracker' = list[p] /\ mem[p] \in RealState
  BY DEF WriteTracker, At, TypeInv, Employed, Busy
<1>2. Appending(p) /\ Proposed(mem[p])
  BY <1>1 DEF TrackerInv, Remembered, Busy
<1>3. mem'[p].source = mem[p].source /\ mem'[p].candidates = mem[p].candidates
  BY <1>1, Typed DEF WriteTracker, Remember, RealState
<1>4. \A i \in DOMAIN tracker : i \in DOMAIN tracker' /\ tracker'[i] = tracker[i]
  BY <1>1, <1>2 DEF Appending, Extends
<1>5. Sound(tracker)'
  BY <1>1, <1>2 DEF Appending, Sound, NoTwins, NoSharedId, Attributed
<1>6. ASSUME NEW f \in Files PROVE Stored(f)'
  BY <1>1, <1>4, ListedGrows DEF TrackerInv, Stored, Proposed, AllListed
<1>7. AllListed(tracker, mem[p])'
  <2>1. \A c : ~InHand(p, c)
    BY <1>1 DEF InHand
  <2>2. QED
    BY <1>1, <1>2, <1>3, <2>1 DEF AllListed, Appending, Listed
<1>8. \A q \in Proc : Remembered(q)'
  <2>1. pc'[p] = "saving" /\ \A q \in Proc : q # p => pc'[q] = "idle"
    BY <1>1, Alone
  <2>2. Proposed(mem[p])'
    BY <1>1, <1>2, <1>3 DEF Proposed
  <2>3. QED
    BY <1>7, <2>1, <2>2 DEF Remembered, Busy
<1>9. QED
  BY <1>4, <1>5, <1>6, <1>8 DEF TrackerInv

\* A dry run has nothing to propose, and a state that failed keeps what it has.
LEMMA StateTracks ==
    ASSUME TypeInv, Holder, TrackerInv, NEW p \in Proc,
           ExtractDry(p) \/ SaveFails(p) \/ ReportFails(p)
    PROVE  TrackerInv'
<1>1. UNCHANGED <<file, tracker, extracted>> /\ pc[p] # "idle"
  BY DEF ExtractDry, SaveFails, ReportFails, At
<1>2. CASE ExtractDry(p)
  <2>1. /\ Goto(p, "saving") /\ pc'[p] = "saving"
        /\ mem'[p].candidates = <<>> /\ mem'[p].status = "dry_run"
    BY <1>2, Typed DEF ExtractDry, Remember, Goto
  <2>2. Remembered(p)'
    BY <2>1 DEF Remembered, Proposed
  <2>3. QED
    BY <1>1, <2>1, <2>2, KeepsTracker
<1>3. CASE SaveFails(p) \/ ReportFails(p)
  <2>1. Raise(p) /\ pc[p] \in Busy /\ mem[p] \in RealState
    BY <1>3 DEF SaveFails, ReportFails, At, Busy, TypeInv, Employed
  <2>2. CASE Goto(p, "closing")
    <3>1. pc'[p] = "closing"
      BY <2>2, Typed DEF Goto
    <3>2. QED
      BY <1>1, <2>2, <3>1, KeepsTracker DEF Remembered, Busy
  <2>3. CASE Goto(p, "failing") /\ Remember(p, [mem[p] EXCEPT !.status = "failed"])
    <3>1. /\ pc'[p] = "failing" /\ mem'[p].source = mem[p].source
          /\ mem'[p].candidates = mem[p].candidates /\ mem'[p].status = "failed"
      BY <2>1, <2>3, Typed DEF Goto, Remember, RealState
    <3>2. Proposed(mem[p])
      BY <2>1 DEF TrackerInv, Remembered
    <3>3. Remembered(p)'
      BY <1>1, <3>1, <3>2 DEF Remembered, Proposed
    <3>4. QED
      BY <1>1, <2>3, <3>3, KeepsTracker
  <2>4. QED
    BY <2>1, <2>2, <2>3 DEF Raise
<1>4. QED
  BY <1>2, <1>3

\* A step that changes none of the variables the invariant is about.
LEMMA TrackerStutter ==
    ASSUME TrackerInv, UNCHANGED <<file, tracker, extracted, pc, mem, todo, list>>
    PROVE  TrackerInv'
<1>1. Sound(tracker)' /\ \A f \in Files : Stored(f)'
  BY DEF TrackerInv, Sound, NoTwins, NoSharedId, Attributed, Stored, Proposed, AllListed, Listed
<1>2. \A p \in Proc : Remembered(p)'
  BY DEF TrackerInv, Remembered, Appending, Extends, Sound, NoTwins, NoSharedId, Attributed,
     Proposed, AllListed, Listed, InHand
<1>3. QED
  BY <1>1, <1>2 DEF TrackerInv

\* While one candidate is looked at the others are as they were.
LEMMA AppendingStep ==
    ASSUME TypeInv, Holder, TrackerInv, NEW p \in Proc, Skip(p) \/ AppendStory(p)
    PROVE  TrackerInv'
<1>1. UNCHANGED <<file, tracker, extracted, pc>> /\ pc[p] = "appending"
  BY DEF Skip, AppendStory, At
<1>2. Goto(p, "appending")
  BY <1>1, Typed DEF Goto
<1>3. Remembered(p)'
  BY SkipTracks, AppendTracks
<1>4. QED
  BY <1>1, <1>2, <1>3, KeepsTracker

\* Every step.
LEMMA TrackerStep ==
    ASSUME TypeInv, Holder, TrackerInv, [Next]_vars
    PROVE  TrackerInv'
<1>1. ASSUME NEW p \in Proc, Start(p) PROVE TrackerInv'
  <2>1. \A q \in Proc : pc[q] = "idle"
    BY <1>1, NamesAssumption DEF Start, MayLock, Holder
  <2>2. \A q \in Proc : pc'[q] \notin Busy
    BY <1>1, <2>1, Typed DEF Start, CommandLine, Goto, Busy
  <2>3. QED
    BY <1>1, <2>2, LeavesTracker DEF Start
<1>2. ASSUME NEW p \in Proc,
             ExtractFails(p) \/ Report(p) \/ NotApprovable(p) \/ WriteTrackerFails(p)
      PROVE  TrackerInv'
  <2>1. pc[p] # "idle" /\ Goto(p, "closing") /\ UNCHANGED <<file, tracker, extracted>>
    BY <1>2 DEF ExtractFails, Report, NotApprovable, WriteTrackerFails, TrackerError, At
  <2>2. \A q \in Proc : pc'[q] \notin Busy
    BY <2>1, Alone DEF Busy
  <2>3. QED
    BY <2>1, <2>2, LeavesTracker
<1>3. ASSUME NEW p \in Proc, Close(p) \/ Abandon(p) PROVE TrackerInv'
  <2>1. pc[p] # "idle" /\ Goto(p, "idle") /\ UNCHANGED <<file, tracker, extracted>>
    BY <1>3 DEF Close, Abandon, Gone, At
  <2>2. \A q \in Proc : pc'[q] \notin Busy
    BY <2>1, Alone DEF Busy
  <2>3. QED
    BY <2>1, <2>2, LeavesTracker
<1>4. CASE RemoveStaleLock \/ UNCHANGED vars
  BY <1>4, TrackerStutter DEF RemoveStaleLock, vars
<1>5. QED
  BY <1>1, <1>2, <1>3, <1>4, ExtractTracks, SaveTracks, LoadTracks, WriteTracks, StateTracks,
     AppendingStep DEF Next

\* The lock and what it protects, together.
LEMMA TrackerHolds == Spec => [](TypeInv /\ Holder /\ TrackerInv)
<1>1. Init => Holder /\ TrackerInv
  BY DEF Init, Holder, TrackerInv, Sound, NoTwins, NoSharedId, Attributed, Stored, Remembered,
     NoState, Busy
<1>2. TypeInv /\ Holder /\ TrackerInv /\ [Next]_vars => Holder' /\ TrackerInv'
  BY HolderStep, TrackerStep
<1>3. QED
  BY <1>1, <1>2, TypesHold, PTL DEF Spec

\* The tracker holds a pair of a source once, however often it is extracted and
\* approved and wherever a command is killed (README "idempotent by source/pair").
THEOREM PairsOnce == Spec => []NoDuplicatePairs
<1>1. TrackerInv => NoDuplicatePairs
  BY DEF TrackerInv, Sound, NoDuplicatePairs
<1>2. QED
  BY <1>1, TrackerHolds, PTL

\* No identifier is given out twice (extraction.py: _next_story_id).
THEOREM IdsUnique == Spec => []UniqueIds
<1>1. TrackerInv => UniqueIds
  BY DEF TrackerInv, Sound, NoSharedId, UniqueIds
<1>2. QED
  BY <1>1, TrackerHolds, PTL

\* A source that is recorded as approved has each candidate in the tracker
\* (cli.py: approve_candidate_pairs saves the state last).
THEOREM ApprovedTracked == Spec => []ApprovedIsTracked
<1>1. TrackerInv => ApprovedIsTracked
  BY DEF TrackerInv, Stored, AllListed, ApprovedIsTracked
<1>2. QED
  BY <1>1, TrackerHolds, PTL

\* A story's pair was proposed by the extractor of the source it names, though
\* sources may share a state file (state.py: StateStore.path).
THEOREM PairsAttributed == Spec => []PairFromOwnExtraction
<1>1. TrackerInv => PairFromOwnExtraction
  BY DEF TrackerInv, Sound, Attributed, PairFromOwnExtraction
<1>2. QED
  BY <1>1, TrackerHolds, PTL

\* No approval loses a story of another (extraction.py: approve_candidates under
\* the repository lock).
THEOREM TrackerAppends == Spec => TrackerOnlyGrows
<1>1. TypeInv /\ Holder /\ TrackerInv /\ [Next]_vars =>
        [\A i \in DOMAIN tracker : i \in DOMAIN tracker' /\ tracker'[i] = tracker[i]]_vars
  <2> SUFFICES ASSUME TypeInv, Holder, TrackerInv, [Next]_vars
               PROVE  \A i \in DOMAIN tracker : i \in DOMAIN tracker' /\ tracker'[i] = tracker[i]
    OBVIOUS
  <2>1. CASE UNCHANGED tracker
    BY <2>1
  <2>2. ASSUME NEW p \in Proc, WriteTracker(p)
        PROVE  \A i \in DOMAIN tracker : i \in DOMAIN tracker' /\ tracker'[i] = tracker[i]
    BY <2>2, WriteTracks
  <2>3. QED
    BY <2>1, <2>2 DEF Next, Start, Close, Abandon, ExtractDry, Extract, ExtractFails, Save, Report,
       SaveFails, ReportFails, NotApprovable, Load, Skip, AppendStory, WriteTrackerFails,
       RemoveStaleLock, vars
<1>2. QED
  BY <1>1, TrackerHolds, PTL DEF Spec, TrackerOnlyGrows

(***************************************************************************)
(* The registry: from outside, an approval is one step.  What it is about  *)
(* to write is the tracker and a story for each new pair of the offer it   *)
(* read, which is still the one in the file.                               *)
(***************************************************************************)
Drafted(p, i) ==
    /\ list[p][i].source = mem[p].source
    /\ list[p][i].pair \in Elements(mem[p].candidates)
    /\ \A j \in DOMAIN tracker : tracker[j].id < list[p][i].id
    /\ list[p][i].id = 1 \/ \E j \in DOMAIN list[p] : list[p][j].id = list[p][i].id - 1
Drafting(p) ==
    /\ mem[p] = file[File(p)]
    /\ Elements(todo[p]) \subseteq Elements(mem[p].candidates)
    /\ \A i \in DOMAIN list[p] : i \in DOMAIN tracker \/ Drafted(p, i)

\* Which command is where, and what it has in hand there.
Extracting(p) ==
    job[p].cmd = "extract" /\ (pc[p] # "extracting" => mem[p].status # "approved")
Recording(p) ==
    job[p].cmd = "approve" /\ mem[p] = [file[File(p)] EXCEPT !.status = "approved"]
CommandOK(p) ==
    /\ pc[p] \in {"extracting", "failing", "reporting"} => Extracting(p)
    /\ pc[p] = "saving" => Extracting(p) \/ Recording(p)
    /\ pc[p] = "loading" => job[p].cmd = "approve"
    /\ pc[p] = "appending" => job[p].cmd = "approve" /\ Drafting(p)
CommandInv == \A p \in Proc : CommandOK(p)

\* The holder's step concerns its own command.
LEMMA CommandFrame ==
    ASSUME TypeInv, Holder, NEW p \in Proc, pc[p] # "idle", NEW l, Goto(p, l), CommandOK(p)'
    PROVE  CommandInv'
<1>1. ASSUME NEW q \in Proc, pc'[q] = "idle" PROVE CommandOK(q)'
  BY <1>1 DEF CommandOK
<1>2. QED
  BY <1>1, Alone DEF CommandInv

\* The steps of an extraction, and of both commands around their saves.
LEMMA ExtractionCommand ==
    ASSUME TypeInv, Holder, CommandInv, NEW p \in Proc,
           \/ ExtractDry(p) \/ Extract(p) \/ ExtractFails(p) \/ Save(p) \/ Report(p)
           \/ SaveFails(p) \/ ReportFails(p) \/ NotApprovable(p) \/ WriteTrackerFails(p)
           \/ Close(p) \/ Abandon(p)
    PROVE  CommandInv'
<1>1. pc \in [Proc -> PC] /\ mem \in [Proc -> SourceState] /\ CommandOK(p)
  BY Typed DEF CommandInv
<1>2. ASSUME pc[p] # "idle", NEW l \in {"idle", "closing"}, Goto(p, l) PROVE CommandInv'
  <2>1. pc'[p] = l
    BY <1>1, <1>2 DEF Goto
  <2>2. CommandOK(p)'
    BY <2>1 DEF CommandOK
  <2>3. QED
    BY <1>2, <2>2, CommandFrame
<1>3. CASE ExtractDry(p) \/ Extract(p)
  <2>1. pc[p] = "extracting" /\ Goto(p, "saving") /\ UNCHANGED job
    BY <1>3 DEF ExtractDry, Extract, At
  <2>2. mem'[p].status \in {"dry_run", "pending_approval"}
    BY <1>1, <1>3 DEF ExtractDry, Extract, Remember
  <2>3. pc'[p] = "saving"
    BY <1>1, <2>1 DEF Goto
  <2>4. CommandOK(p)'
    BY <1>1, <2>1, <2>2, <2>3 DEF CommandOK, Extracting
  <2>5. QED
    BY <2>1, <2>4, CommandFrame
<1>4. CASE Save(p)
  <2>1. pc[p] # "idle" /\ UNCHANGED <<job, mem>>
    BY <1>4 DEF Save
  <2>2. CASE At(p, "saving") /\ job[p].cmd = "extract"
    <3>1. Goto(p, "reporting")
      BY <1>4, <2>2 DEF Save
    <3>2. pc'[p] = "reporting"
      BY <1>1, <3>1 DEF Goto
    <3>3. CommandOK(p)'
      BY <1>1, <2>1, <2>2, <3>2 DEF CommandOK, Extracting, Recording, At
    <3>4. QED
      BY <2>1, <3>1, <3>3, CommandFrame
  <2>3. CASE ~(At(p, "saving") /\ job[p].cmd = "extract")
    BY <1>2, <1>4, <2>1, <2>3 DEF Save
  <2>4. QED
    BY <2>2, <2>3
<1>5. CASE SaveFails(p) \/ ReportFails(p)
  <2>1. Raise(p) /\ UNCHANGED job /\ pc[p] \in Busy \ {"appending"}
    BY <1>5 DEF SaveFails, ReportFails, At, Busy
  <2>2. mem[p] \in RealState
    BY <2>1 DEF TypeInv, Employed
  <2>3. CASE job[p].cmd = "extract" /\ ~At(p, "failing")
    <3>1. Goto(p, "failing") /\ Remember(p, [mem[p] EXCEPT !.status = "failed"])
      BY <2>1, <2>3 DEF Raise
    <3>2. pc'[p] = "failing" /\ mem'[p].status = "failed"
      BY <1>1, <2>2, <3>1 DEF Goto, Remember, RealState
    <3>3. CommandOK(p)'
      BY <2>1, <2>3, <3>2 DEF CommandOK, Extracting
    <3>4. QED
      BY <2>1, <3>1, <3>3, CommandFrame DEF Busy
  <2>4. CASE ~(job[p].cmd = "extract" /\ ~At(p, "failing"))
    BY <1>2, <2>1, <2>4 DEF Raise, Busy
  <2>5. QED
    BY <2>3, <2>4
<1>6. CASE ExtractFails(p) \/ Report(p) \/ NotApprovable(p) \/ WriteTrackerFails(p)
  BY <1>2, <1>6 DEF ExtractFails, Report, NotApprovable, WriteTrackerFails, TrackerError, At
<1>7. CASE Close(p) \/ Abandon(p)
  BY <1>2, <1>7 DEF Close, Abandon, Gone, At
<1>8. QED
  BY <1>3, <1>4, <1>5, <1>6, <1>7

\* What is appended is drafted: its number follows on the highest in the list, which
\* has the tracker in it.
LEMMA AppendDrafts ==
    ASSUME TypeInv, Holder, TrackerInv, NEW p \in Proc, CommandOK(p), AppendStory(p)
    PROVE  Drafting(p)'
<1>1. /\ UNCHANGED <<file, tracker, pc, job, mem>> /\ pc[p] = "appending"
      /\ todo[p] \in Seq(Pairs) /\ todo[p] # <<>> /\ todo'[p] = Tail(todo[p])
      /\ list[p] \in Seq(Story) /\ Drafting(p) /\ Extends(list[p])
  BY Typed DEF AppendStory, At, CommandOK, TrackerInv, Remembered, Appending
<1>2. Head(todo[p]) \in Elements(mem[p].candidates)
  <2>1. \E j \in DOMAIN todo[p] : todo[p][j] = Head(todo[p])
    BY <1>1, HeadOrTail
  <2>2. QED
    BY <1>1, <2>1 DEF Drafting, Elements
<1>3. Elements(todo'[p]) \subseteq Elements(mem[p].candidates)
  <2>1. \A k \in DOMAIN Tail(todo[p]) : \E j \in DOMAIN todo[p] : Tail(todo[p])[k] = todo[p][j]
    BY <1>1, HeadOrTail
  <2>2. QED
    BY <1>1, <2>1 DEF Drafting, Elements
<1>4. PICK n \in 1..(Len(list[p]) + 1) :
         /\ IsNextId(n, list[p])
         /\ list' = [list EXCEPT ![p] =
              Append(@, [id |-> n, source |-> Owner(p), pair |-> Head(todo[p])])]
  BY DEF AppendStory
<1> DEFINE r == [id |-> n, source |-> mem[p].source, pair |-> Head(todo[p])]
<1>5. r.id = n /\ r.source = mem[p].source /\ r.pair = Head(todo[p])
  OBVIOUS
<1>6. list'[p] = Append(list[p], r)
  BY <1>4, Typed DEF Owner
<1> HIDE DEF r
<1>7. PICK k \in Nat : /\ DOMAIN list[p] = 1..k /\ DOMAIN list'[p] = 1..(k + 1)
                      /\ list'[p][k + 1] = r /\ \A i \in 1..k : list'[p][i] = list[p][i]
  <2>1. /\ DOMAIN list[p] = 1..Len(list[p]) /\ Len(list[p]) \in Nat
        /\ DOMAIN list'[p] = 1..(Len(list[p]) + 1) /\ list'[p][Len(list[p]) + 1] = r
        /\ \A i \in 1..Len(list[p]) : list'[p][i] = list[p][i]
    BY <1>1, <1>6
  <2>2. QED
    BY <2>1
<1>8. ASSUME NEW i \in DOMAIN list[p], Drafted(p, i) PROVE Drafted(p, i)'
  BY <1>1, <1>7, <1>8 DEF Drafted
<1>9. Drafted(p, k + 1)'
  <2>1. \A j \in DOMAIN tracker : tracker[j].id < n
    BY <1>1, <1>4 DEF Extends, IsNextId
  <2>2. n = 1 \/ \E j \in DOMAIN list'[p] : list'[p][j].id = n - 1
    BY <1>4, <1>7 DEF IsNextId
  <2>3. QED
    BY <1>1, <1>2, <1>5, <1>7, <2>1, <2>2 DEF Drafted
<1>10. \A i \in DOMAIN list'[p] : i \in DOMAIN tracker \/ Drafted(p, i)'
  BY <1>1, <1>7, <1>8, <1>9 DEF Drafting
<1>11. QED
  BY <1>1, <1>3, <1>10 DEF Drafting, File

\* The steps of an approval up to the replaced tracker.
LEMMA ApprovalCommand ==
    ASSUME TypeInv, Holder, TrackerInv, CommandInv, NEW p \in Proc,
           Load(p) \/ Skip(p) \/ AppendStory(p) \/ WriteTracker(p)
    PROVE  CommandInv'
<1>1. pc \in [Proc -> PC] /\ UNCHANGED <<file, job>> /\ CommandOK(p) /\ File(p)' = File(p)
  BY Typed DEF CommandInv, Load, Skip, AppendStory, WriteTracker, File
<1>2. CASE Load(p)
  <2>1. pc[p] = "loading" /\ Goto(p, "appending") /\ pc'[p] = "appending"
    BY <1>1, <1>2 DEF Load, At, Goto
  <2>2. /\ mem'[p] = file[File(p)] /\ todo'[p] = file[File(p)].candidates /\ list'[p] = tracker
        /\ UNCHANGED tracker
    BY <1>2, Typed DEF Load, Remember
  <2>3. Drafting(p)'
    BY <1>1, <2>2 DEF Drafting
  <2>4. CommandOK(p)'
    BY <1>1, <2>1, <2>3 DEF CommandOK
  <2>5. QED
    BY <2>1, <2>4, CommandFrame
<1>3. CASE Skip(p) \/ AppendStory(p)
  <2>1. pc[p] = "appending" /\ UNCHANGED pc /\ Goto(p, "appending")
    BY <1>1, <1>3 DEF Skip, AppendStory, At, Goto
  <2>2. Drafting(p)'
    <3>1. CASE Skip(p)
      <4>1. /\ UNCHANGED <<mem, list, tracker>> /\ todo[p] \in Seq(Pairs) /\ todo[p] # <<>>
            /\ todo'[p] = Tail(todo[p]) /\ Drafting(p)
        BY <1>1, <2>1, <3>1, Typed DEF Skip, CommandOK
      <4>2. \A k \in DOMAIN Tail(todo[p]) : \E j \in DOMAIN todo[p] : Tail(todo[p])[k] = todo[p][j]
        BY <4>1, HeadOrTail
      <4>3. Elements(todo'[p]) \subseteq Elements(todo[p])
        BY <4>1, <4>2 DEF Elements
      <4>4. QED
        BY <1>1, <4>1, <4>3 DEF Drafting, Drafted
    <3>2. CASE AppendStory(p)
      BY <1>1, <3>2, AppendDrafts
    <3>3. QED
      BY <1>3, <3>1, <3>2
  <2>3. CommandOK(p)'
    BY <1>1, <2>1, <2>2 DEF CommandOK
  <2>4. QED
    BY <2>1, <2>3, CommandFrame
<1>4. CASE WriteTracker(p)
  <2>1. pc[p] = "appending" /\ Goto(p, "saving") /\ pc'[p] = "saving"
    BY <1>1, <1>4 DEF WriteTracker, At, Goto
  <2>2. mem'[p] = [mem[p] EXCEPT !.status = "approved"] /\ mem[p] = file[File(p)]
    BY <1>1, <1>4, <2>1, Typed DEF WriteTracker, Remember, CommandOK, Drafting
  <2>3. CommandOK(p)'
    BY <1>1, <2>1, <2>2 DEF CommandOK, Recording
  <2>4. QED
    BY <2>1, <2>3, CommandFrame
<1>5. QED
  BY <1>2, <1>3, <1>4

\* Every command has in hand what its place in the code says.
LEMMA CommandsHold == Spec => [](TypeInv /\ Holder /\ TrackerInv /\ CommandInv)
<1>1. Init => CommandInv
  BY DEF Init, CommandInv, CommandOK
<1>2. TypeInv /\ Holder /\ TrackerInv /\ CommandInv /\ [Next]_vars => CommandInv'
  <2> SUFFICES ASSUME TypeInv, Holder, TrackerInv, CommandInv, [Next]_vars PROVE CommandInv'
    OBVIOUS
  <2>1. ASSUME NEW p \in Proc, Start(p) PROVE CommandInv'
    <3>1. \A q \in Proc : pc[q] = "idle"
      BY <2>1, NamesAssumption DEF Start, MayLock, Holder
    <3>2. \A q \in Proc \ {p} : pc'[q] = "idle"
      BY <2>1, <3>1, Typed DEF Start, CommandLine, Goto
    <3>3. \/ pc'[p] = "extracting" /\ job'[p].cmd = "extract"
          \/ pc'[p] = "loading" /\ job'[p].cmd = "approve"
      BY <2>1, Typed DEF Start, CommandLine, Goto
    <3>4. QED
      BY <3>2, <3>3 DEF CommandInv, CommandOK, Extracting
  <2>2. CASE RemoveStaleLock \/ UNCHANGED vars
    <3>1. UNCHANGED <<file, tracker, pc, job, mem, todo, list>>
      BY <2>2 DEF RemoveStaleLock, vars
    <3>2. QED
      BY <3>1 DEF CommandInv, CommandOK, Extracting, Recording, Drafting, Drafted, File
  <2>3. QED
    BY <2>1, <2>2, ExtractionCommand, ApprovalCommand DEF Next
<1>3. QED
  BY <1>1, <1>2, TrackerHolds, PTL DEF Spec

\* Registered is what approve_candidates looks for in the tracker.
LEMMA RegisteredIsListed ==
    ASSUME NEW f \in Files
    PROVE  Registry!Unregistered(f) =
             {x \in Elements(file[f].candidates) : ~Listed(tracker, file[f].source, x)}
<1>1. ASSUME NEW s, NEW x PROVE Registry!Registered(s, x) <=> Listed(tracker, s, x)
  BY DEF Registry!Registered, Listed, Elements
<1>2. QED
  BY <1>1 DEF Registry!Unregistered

\* An extraction that is saved is a new offer; an approval that is saved marks the offer
\* it read, all of which is in the tracker.
LEMMA SaveKeepsRegistry ==
    ASSUME TypeInv, Holder, TrackerInv, CommandInv, NEW p \in Proc, Save(p)
    PROVE  Registry!Next
<1> DEFINE m == mem[p]
           offers == [g \in Files |->
               [source |-> file[g].source, pairs |-> Elements(file[g].candidates)]]
           marked == {g \in Files : file[g].status = "approved"}
<1>1. PICK f \in Files :
         /\ pc[p] \in {"saving", "failing"} /\ UNCHANGED <<tracker, extracted>> /\ f = File(p)
         /\ file' = [file EXCEPT ![f] = m] /\ m \in RealState
  <2>1. pc[p] \in Busy /\ File(p) \in Files
    BY Typed DEF Save, TypeInv, Employed, Busy, File
  <2>2. QED
    BY <2>1 DEF Save, TypeInv, Employed
<1>2. file'[f] = m /\ \A g \in Files : g # f => file'[g] = file[g]
  BY <1>1, Typed
<1>3. UNCHANGED Elements(tracker)
  BY <1>1
<1>4. Proposed(m) /\ (m.status = "approved" => AllListed(tracker, m))
  BY <1>1 DEF TrackerInv, Remembered, Busy
<1>5. CASE Extracting(p)
  <2>1. PICK s \in Sources, P \in SUBSET Pairs :
            s = m.source /\ P = Elements(m.candidates) /\ P \subseteq extracted[s]
    <3>1. m.source \in Sources /\ Elements(m.candidates) \subseteq Pairs \cap extracted[m.source]
      BY <1>1, <1>4 DEF RealState, Proposed, Elements
    <3>2. QED
      BY <3>1
  <2>2. m.status # "approved"
    BY <1>1, <1>5 DEF Extracting
  <2>3. offers' = [offers EXCEPT ![f] = [source |-> s, pairs |-> P]]
    <3>1. ASSUME NEW g \in Files
          PROVE  offers'[g] = [offers EXCEPT ![f] = [source |-> s, pairs |-> P]][g]
      BY <1>1, <1>2, <2>1
    <3>2. QED
      BY <3>1
  <2>4. marked' = marked \ {f}
    BY <1>1, <1>2, <2>2
  <2>5. Registry!Offer(f, s, P)
    BY <1>1, <1>3, <2>1, <2>3, <2>4 DEF Registry!Offer
  <2>6. QED
    BY <2>5 DEF Registry!Next
<1>6. CASE Recording(p)
  <2>1. /\ m.source = file[f].source /\ m.candidates = file[f].candidates
        /\ m.status = "approved"
    BY <1>1, <1>6 DEF Recording, RealState
  <2>2. UNCHANGED offers
    BY <1>1, <1>2, <2>1
  <2>3. marked' = marked \cup {f}
    BY <1>1, <1>2, <2>1
  <2>4. Registry!Unregistered(f) = {}
    <3>1. \A x \in Elements(m.candidates) : Listed(tracker, m.source, x)
      BY <1>4, <2>1 DEF AllListed, Elements
    <3>2. QED
      BY <1>1, <2>1, <3>1, RegisteredIsListed
  <2>5. Registry!MarkApproved(f)
    BY <1>1, <1>3, <2>2, <2>3, <2>4 DEF Registry!MarkApproved
  <2>6. QED
    BY <2>5 DEF Registry!Next
<1>7. QED
  BY <1>1, <1>5, <1>6 DEF CommandInv, CommandOK

\* The tracker that is replaced has one new story for each new pair of the offer.
LEMMA WriteKeepsRegistry ==
    ASSUME TypeInv, Holder, TrackerInv, CommandInv, NEW p \in Proc, WriteTracker(p)
    PROVE  Registry!Next
<1> DEFINE f == File(p)
           m == mem[p]
           l == list[p]
           added == Elements(l) \ Elements(tracker)
           offers == [g \in Files |->
               [source |-> file[g].source, pairs |-> Elements(file[g].candidates)]]
<1>1. /\ pc[p] = "appending" /\ todo[p] = <<>> /\ tracker' = l
      /\ UNCHANGED <<file, extracted>> /\ f \in Files /\ Drafting(p) /\ Appending(p)
  BY Typed DEF WriteTracker, At, TypeInv, Employed, File, CommandInv, CommandOK, TrackerInv,
     Remembered
<1>2. /\ offers[f].source = m.source /\ offers[f].pairs = Elements(m.candidates)
      /\ UNCHANGED offers
  BY <1>1 DEF Drafting
<1>3. \A i \in DOMAIN tracker : i \in DOMAIN l /\ l[i] = tracker[i]
  BY <1>1 DEF Appending, Extends
<1>4. Elements(tracker) \subseteq Elements(l)
  BY <1>3 DEF Elements
<1>5. NoTwins(l) /\ NoSharedId(l)
  BY <1>1 DEF Appending, Sound
<1>6. ASSUME NEW t \in added
      PROVE  \E i \in DOMAIN l : t = l[i] /\ i \notin DOMAIN tracker /\ Drafted(p, i)
  BY <1>1, <1>3 DEF Elements, Drafting
<1>7. Registry!Unregistered(f) = {x \in Elements(m.candidates) : ~Listed(tracker, m.source, x)}
  BY <1>1, RegisteredIsListed DEF Drafting
<1>8. ASSUME NEW t \in added
      PROVE  /\ t.source = m.source /\ t.pair \in Registry!Unregistered(f)
             /\ \A u \in Elements(tracker) : u.id < t.id
             /\ \A u \in added : u.id = t.id \/ u.pair = t.pair => u = t
             /\ t.id = 1 \/ \E u \in Elements(l) : u.id = t.id - 1
  <2>1. PICK i \in DOMAIN l : t = l[i] /\ i \notin DOMAIN tracker /\ Drafted(p, i)
    BY <1>6
  <2>2. t.source = m.source /\ t.pair \in Elements(m.candidates)
    BY <2>1 DEF Drafted
  <2>3. ~Listed(tracker, m.source, t.pair)
    BY <1>3, <1>5, <2>1, <2>2 DEF Listed, NoTwins
  <2>4. \A u \in Elements(tracker) : u.id < t.id
    BY <2>1 DEF Drafted, Elements
  <2>5. ASSUME NEW u \in added, u.id = t.id \/ u.pair = t.pair PROVE u = t
    <3>1. PICK j \in DOMAIN l : u = l[j] /\ Drafted(p, j)
      BY <1>6
    <3>2. u.source = t.source
      BY <2>2, <3>1 DEF Drafted
    <3>3. QED
      BY <1>5, <2>1, <2>5, <3>1, <3>2 DEF NoTwins, NoSharedId
  <2>6. t.id = 1 \/ \E u \in Elements(l) : u.id = t.id - 1
    BY <2>1 DEF Drafted, Elements
  <2>7. QED
    BY <1>7, <2>2, <2>3, <2>4, <2>5, <2>6
<1>9. ASSUME NEW x \in Registry!Unregistered(f) PROVE \E t \in added : t.pair = x
  <2>1. x \in Elements(m.candidates) /\ ~Listed(tracker, m.source, x)
    BY <1>7
  <2>2. Listed(l, m.source, x)
    <3>1. \A c : ~InHand(p, c)
      BY <1>1 DEF InHand
    <3>2. QED
      BY <1>1, <2>1, <3>1 DEF Appending, Elements
  <2>3. PICK i \in DOMAIN l : l[i].source = m.source /\ l[i].pair = x
    BY <2>2 DEF Listed
  <2>4. l[i] \in Elements(l) /\ l[i] \notin Elements(tracker)
    BY <2>1, <2>3 DEF Listed, Elements
  <2>5. QED
    BY <2>3, <2>4
<1>10. Registry!Approve(f)
  BY <1>1, <1>2, <1>4, <1>8, <1>9 DEF Registry!Approve
<1>11. QED
  BY <1>1, <1>10 DEF Registry!Next

\* The candidate commands keep to the registry, for any number of sources that share
\* state files and whatever fails between the two files an approval writes
\* (extraction.py: approve_candidates; cli.py: approve_candidate_pairs).
THEOREM ApprovalKeepsRegistry == Spec => KeepsRegistry
<1>1. Init => Registry!Init
  <2> SUFFICES ASSUME Init PROVE Registry!Init
    OBVIOUS
  <2>1. Elements(<<>>) = {}
    BY DEF Elements
  <2>2. QED
    BY <2>1 DEF Init, Registry!Init, NoState
<1>2. TypeInv /\ Holder /\ TrackerInv /\ CommandInv /\ [Next]_vars
        => [Registry!Next]_(Registry!rvars)
  <2> SUFFICES ASSUME TypeInv, Holder, TrackerInv, CommandInv, [Next]_vars
               PROVE  Registry!Next \/ UNCHANGED Registry!rvars
    OBVIOUS
  <2>1. CASE UNCHANGED <<extracted, file, tracker>>
    BY <2>1 DEF Registry!rvars
  <2>2. ASSUME NEW p \in Proc, Extract(p) PROVE Registry!Next
    <3>1. PICK b \in Batches :
              extracted' = [extracted EXCEPT ![job[p].source] = @ \cup {b[i] : i \in DOMAIN b}]
      BY <2>2 DEF Extract
    <3>2. job[p].source \in Sources /\ UNCHANGED <<file, tracker>>
      BY <2>2 DEF Extract, At, TypeInv, Employed
    <3>3. Elements(b) \in SUBSET Pairs
      BY BatchesAssumption DEF Elements
    <3>4. Registry!Propose(job[p].source, Elements(b))
      BY <3>1, <3>2 DEF Registry!Propose, Elements
    <3>5. QED
      BY <3>2, <3>3, <3>4 DEF Registry!Next
  <2>3. ASSUME NEW p \in Proc, Save(p) \/ WriteTracker(p) PROVE Registry!Next
    BY <2>3, SaveKeepsRegistry, WriteKeepsRegistry
  <2>4. QED
    BY <2>1, <2>2, <2>3 DEF Next, Start, Close, Abandon, ExtractDry, ExtractFails, Report,
       SaveFails, ReportFails, NotApprovable, Load, Skip, AppendStory, WriteTrackerFails,
       RemoveStaleLock, vars
<1>3. QED
  BY <1>1, <1>2, CommandsHold, PTL DEF Spec, KeepsRegistry, Registry!Spec
===============================================================================
