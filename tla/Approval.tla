------------------------------- MODULE Approval -------------------------------
(***************************************************************************)
(* extract-candidate-pairs and approve-candidate-pairs.  Extraction stores *)
(* the candidate pairs of a source in its state file, where they wait for  *)
(* a person; approval appends the new ones to the stories tracker and then *)
(* records that it did.  Each command holds the repository lock; one that  *)
(* meets the lock is refused and changes nothing.                          *)
(***************************************************************************)
EXTENDS Naturals, Sequences

CONSTANTS
    Proc,       \* commands that may be alive at the same time
    Sources,    \* source identifiers
    Files,      \* state files
    FileOf,     \* source -> its state file: identifiers are sanitised
    Pairs,      \* pairs of main character and primary tension
    Batches,    \* what an extractor may answer: sequences of pairs
    Faults,     \* kinds of fault that may strike
    MaxFaults,  \* bound on their number
    NoSource,   \* the file does not exist
    Free, Stale \* the lock file does not exist; its process is gone

ASSUME FilesAssumption == FileOf \in [Sources -> Files]
ASSUME BatchesAssumption == Batches \subseteq Seq(Pairs)
ASSUME FaultsAssumption ==
    Faults \subseteq {"crash", "interrupt", "save", "report"} /\ MaxFaults \in Nat
ASSUME NamesAssumption ==
    NoSource \notin Sources /\ Free \notin Proc /\ Stale \notin Proc /\ Free # Stale

VARIABLES
    lock,       \* the lock file: Free, Stale or its process
    file,       \* state file -> the SourceState in it
    tracker,    \* the stories tracker, in order
    pc,         \* process -> where the command is
    job,        \* process -> its command line
    mem,        \* process -> its SourceState
    todo,       \* process -> candidates approve_candidates has not looked at
    list,       \* process -> the tracker as it will be written
    extracted,  \* history: source -> pairs its extractor has answered
    faults      \* number of faults so far

vars == <<lock, file, tracker, pc, job, mem, todo, list, extracted, faults>>

NoState == [source |-> NoSource, status |-> "none", candidates |-> <<>>]
NoJob == [cmd |-> "none", source |-> NoSource, dry |-> FALSE]

Init ==
    /\ lock = Free
    /\ file = [f \in Files |-> NoState]
    /\ tracker = <<>>
    /\ pc = [p \in Proc |-> "idle"]
    /\ job = [p \in Proc |-> NoJob]
    /\ mem = [p \in Proc |-> NoState]
    /\ todo = [p \in Proc |-> <<>>]
    /\ list = [p \in Proc |-> <<>>]
    /\ extracted = [s \in Sources |-> {}]
    /\ faults = 0

At(p, l) == pc[p] = l
Goto(p, l) == pc' = [pc EXCEPT ![p] = l]
Remember(p, m) == mem' = [mem EXCEPT ![p] = m]
File(p) == FileOf[job[p].source]
Fault(kind) == kind \in Faults /\ faults < MaxFaults /\ faults' = faults + 1

Gone(p) ==
    /\ Goto(p, "idle")
    /\ job' = [job EXCEPT ![p] = NoJob]
    /\ Remember(p, NoState)
    /\ todo' = [todo EXCEPT ![p] = <<>>]
    /\ list' = [list EXCEPT ![p] = <<>>]

CommandLine(p) ==
    \E s \in Sources, dry \in BOOLEAN :
        \/ /\ job' = [job EXCEPT ![p] = [cmd |-> "extract", source |-> s, dry |-> dry]]
           /\ Goto(p, "extracting")
        \/ /\ job' = [job EXCEPT ![p] = [cmd |-> "approve", source |-> s, dry |-> FALSE]]
           /\ Goto(p, "loading")

\* Mutant of MayLock: the lock file is opened without O_EXCL.
MayLockAlways == TRUE
MayLock == lock = Free

Start(p) ==
    /\ At(p, "idle") /\ MayLock
    /\ lock' = p
    /\ CommandLine(p)
    /\ UNCHANGED <<file, tracker, mem, todo, list, extracted, faults>>

(***************************************************************************)
(* extract_candidates: a new SourceState, whatever the file holds.         *)
(***************************************************************************)
ExtractDry(p) ==
    /\ At(p, "extracting") /\ job[p].dry
    /\ Remember(p, [source |-> job[p].source, status |-> "dry_run", candidates |-> <<>>])
    /\ Goto(p, "saving")
    /\ UNCHANGED <<lock, file, tracker, job, todo, list, extracted, faults>>

\* validate_candidate_output takes the pairs as they come, twins included.
Extract(p) ==
    /\ At(p, "extracting") /\ ~job[p].dry
    /\ \E b \in Batches :
         /\ Remember(p, [source |-> job[p].source, status |-> "pending_approval", candidates |-> b])
         /\ extracted' = [extracted EXCEPT ![job[p].source] = @ \cup {b[i] : i \in DOMAIN b}]
    /\ Goto(p, "saving")
    /\ UNCHANGED <<lock, file, tracker, job, todo, list, faults>>

\* No such source, or the adapter or its answer is refused: no state yet, so
\* nothing is saved.
ExtractFails(p) ==
    /\ At(p, "extracting")
    /\ Goto(p, "closing")
    /\ UNCHANGED <<lock, file, tracker, job, mem, todo, list, extracted, faults>>

\* Both commands replace the whole file.
Save(p) ==
    /\ pc[p] \in {"saving", "failing"}
    /\ file' = [file EXCEPT ![File(p)] = mem[p]]
    /\ Goto(p, IF At(p, "saving") /\ job[p].cmd = "extract" THEN "reporting" ELSE "closing")
    /\ UNCHANGED <<lock, tracker, job, mem, todo, list, extracted, faults>>

\* The save or the report of an extraction raises: its state, candidates
\* included, is saved as failed.  Nothing handles a save of approve that raises.
Raise(p) ==
    IF job[p].cmd = "extract" /\ ~At(p, "failing")
    THEN Remember(p, [mem[p] EXCEPT !.status = "failed"]) /\ Goto(p, "failing")
    ELSE UNCHANGED mem /\ Goto(p, "closing")

SaveFails(p) ==
    /\ pc[p] \in {"saving", "failing"}
    /\ Fault("save")
    /\ Raise(p)
    /\ UNCHANGED <<lock, file, tracker, job, todo, list, extracted>>

Report(p) ==
    /\ At(p, "reporting")
    /\ Goto(p, "closing")
    /\ UNCHANGED <<lock, file, tracker, job, mem, todo, list, extracted, faults>>

ReportFails(p) ==
    /\ At(p, "reporting")
    /\ Fault("report")
    /\ Raise(p)
    /\ UNCHANGED <<lock, file, tracker, job, todo, list, extracted>>

(***************************************************************************)
(* approve_candidates.                                                     *)
(***************************************************************************)

\* Mutant of Approvable: a missing file is not refused.
ApprovableUnlessDry(m) == m.status # "dry_run"

\* Only a missing file and a dry run are refused; a failed extraction and one
\* that was approved before are not.
Approvable(m) == m # NoState /\ m.status # "dry_run"

NotApprovable(p) ==
    /\ At(p, "loading")
    /\ ~Approvable(file[File(p)])
    /\ Goto(p, "closing")
    /\ UNCHANGED <<lock, file, tracker, job, mem, todo, list, extracted, faults>>

Load(p) ==
    /\ At(p, "loading")
    /\ Approvable(file[File(p)])
    /\ Remember(p, file[File(p)])
    /\ todo' = [todo EXCEPT ![p] = file[File(p)].candidates]
    /\ list' = [list EXCEPT ![p] = tracker]
    /\ Goto(p, "appending")
    /\ UNCHANGED <<lock, file, tracker, job, extracted, faults>>

\* Mutant of IsNextId: the stories appended so far are not counted.
IsNextIdInTracker(n, l) ==
    /\ \A i \in DOMAIN tracker : tracker[i].id < n
    /\ n = 1 \/ \E i \in DOMAIN tracker : tracker[i].id = n - 1

\* _next_story_id: one above the highest number in use.
IsNextId(n, l) ==
    /\ \A i \in DOMAIN l : l[i].id < n
    /\ n = 1 \/ \E i \in DOMAIN l : l[i].id = n - 1

\* Mutant of Listed: the pairs appended so far are not looked at.
ListedInTracker(l, source, pair) ==
    \E i \in DOMAIN tracker : tracker[i].source = source /\ tracker[i].pair = pair

Listed(l, source, pair) == \E i \in DOMAIN l : l[i].source = source /\ l[i].pair = pair

\* Mutant of Owner: the source of the command line.
OwnerRequested(p) == job[p].source

\* A story belongs to the source the state names, which need not be the one the
\* command was given.
Owner(p) == mem[p].source

\* Mutant of Skip: break, where the loop continues.
SkipAll(p) ==
    /\ At(p, "appending") /\ todo[p] # <<>>
    /\ Listed(list[p], Owner(p), Head(todo[p]))
    /\ todo' = [todo EXCEPT ![p] = <<>>]
    /\ UNCHANGED <<lock, file, tracker, pc, job, mem, list, extracted, faults>>

\* One candidate of the loop.
Skip(p) ==
    /\ At(p, "appending") /\ todo[p] # <<>>
    /\ Listed(list[p], Owner(p), Head(todo[p]))
    /\ todo' = [todo EXCEPT ![p] = Tail(@)]
    /\ UNCHANGED <<lock, file, tracker, pc, job, mem, list, extracted, faults>>

AppendStory(p) ==
    /\ At(p, "appending") /\ todo[p] # <<>>
    /\ ~Listed(list[p], Owner(p), Head(todo[p]))
    /\ \E n \in 1..(Len(list[p]) + 1) :
         /\ IsNextId(n, list[p])
         /\ list' = [list EXCEPT ![p] =
              Append(@, [id |-> n, source |-> Owner(p), pair |-> Head(todo[p])])]
    /\ todo' = [todo EXCEPT ![p] = Tail(@)]
    /\ UNCHANGED <<lock, file, tracker, pc, job, mem, extracted, faults>>

\* The tracker is replaced first; the state, approved only now, is saved next.
WriteTracker(p) ==
    /\ At(p, "appending") /\ todo[p] = <<>>
    /\ tracker' = list[p]
    /\ Remember(p, [mem[p] EXCEPT !.status = "approved"])
    /\ Goto(p, "saving")
    /\ UNCHANGED <<lock, file, job, todo, list, extracted, faults>>

\* Mutant of TrackerError: the error is swallowed.
TrackerErrorSwallowed(p) ==
    Remember(p, [mem[p] EXCEPT !.status = "approved"]) /\ Goto(p, "saving")
TrackerError(p) == UNCHANGED mem /\ Goto(p, "closing")

\* atomic_write_json raises.
WriteTrackerFails(p) ==
    /\ At(p, "appending") /\ todo[p] = <<>>
    /\ Fault("save")
    /\ TrackerError(p)
    /\ UNCHANGED <<lock, file, tracker, job, todo, list, extracted>>

Close(p) ==
    /\ At(p, "closing")
    /\ lock' = Free
    /\ Gone(p)
    /\ UNCHANGED <<file, tracker, extracted, faults>>

\* Killed: the lock file stays.  Interrupted: it goes.
Abandon(p) ==
    /\ ~At(p, "idle")
    /\ \/ Fault("crash") /\ lock' = Stale
       \/ Fault("interrupt") /\ lock' = Free
    /\ Gone(p)
    /\ UNCHANGED <<file, tracker, extracted>>

RemoveStaleLock ==
    /\ lock = Stale
    /\ lock' = Free
    /\ UNCHANGED <<file, tracker, pc, job, mem, todo, list, extracted, faults>>

Next ==
    \/ \E p \in Proc :
         \/ Start(p) \/ Close(p) \/ Abandon(p)
         \/ ExtractDry(p) \/ Extract(p) \/ ExtractFails(p) \/ Save(p) \/ Report(p)
         \/ SaveFails(p) \/ ReportFails(p)
         \/ NotApprovable(p) \/ Load(p) \/ Skip(p) \/ AppendStory(p)
         \/ WriteTracker(p) \/ WriteTrackerFails(p)
    \/ RemoveStaleLock

Spec == Init /\ [][Next]_vars

(***************************************************************************)
(* Properties.                                                             *)
(***************************************************************************)
Story == [id : Nat, source : Sources, pair : Pairs]
MaybeSource == Sources \cup {NoSource}
SourceState == {NoState} \cup
    [source : Sources, status : {"dry_run", "pending_approval", "failed", "approved"},
     candidates : Seq(Pairs)]
PC == {"idle", "extracting", "loading", "appending", "saving", "failing", "reporting", "closing"}

\* Every variable has its type; a state file that exists names its source
\* (state.py: SourceState).
TypeOK ==
    /\ lock \in Proc \cup {Free, Stale}
    /\ file \in [Files -> SourceState]
    /\ tracker \in Seq(Story)
    /\ pc \in [Proc -> PC]
    /\ job \in [Proc -> [cmd : {"none", "extract", "approve"}, source : MaybeSource, dry : BOOLEAN]]
    /\ mem \in [Proc -> SourceState]
    /\ todo \in [Proc -> Seq(Pairs)]
    /\ list \in [Proc -> Seq(Story)]
    /\ extracted \in [Sources -> SUBSET Pairs]
    /\ faults \in 0..MaxFaults

NoTwins(l) ==
    \A i, j \in DOMAIN l : l[i].source = l[j].source /\ l[i].pair = l[j].pair => i = j

\* However often a source is extracted and approved, and wherever a command is
\* killed, the tracker holds a pair of a source once (README "idempotent by
\* source/pair"; approve_candidates writes the tracker before the state).
NoDuplicatePairs == NoTwins(tracker)

\* No two stories share an identifier, which names their state file
\* (extraction.py: _next_story_id).
UniqueIds == \A i, j \in DOMAIN tracker : tracker[i].id = tracker[j].id => i = j

\* A source is recorded as approved only when each of its candidates is a story
\* (cli.py: approve_candidate_pairs saves the state after the tracker).
ApprovedIsTracked ==
    \A f \in Files : file[f].status = "approved" =>
        \A i \in DOMAIN file[f].candidates :
            Listed(tracker, file[f].source, file[f].candidates[i])

\* A story is attributed to the source whose extractor proposed its pair, also
\* when two sources share a state file (state.py: StateStore.path).
PairFromOwnExtraction ==
    \A i \in DOMAIN tracker : tracker[i].pair \in extracted[tracker[i].source]

\* The tracker is only appended to: the list an approval read is still the
\* tracker when it is replaced (extraction.py: approve_candidates, FileLock).
TrackerOnlyGrows ==
    [][\A i \in DOMAIN tracker : i \in DOMAIN tracker' /\ tracker'[i] = tracker[i]]_vars

(***************************************************************************)
(* What the two commands promise together.                                 *)
(***************************************************************************)
Elements(l) == {l[i] : i \in DOMAIN l}

\* An approval registers all the new pairs of a state file at once, or none: the
\* loop, the tracker and the state that are written one after the other, and
\* whatever fails between them, amount to one step of StoryRegistry (extraction.py:
\* approve_candidates; cli.py: approve_candidate_pairs).
Registry == INSTANCE StoryRegistry WITH
    Nobody <- NoSource,
    proposed <- extracted,
    offer <- [f \in Files |->
        [source |-> file[f].source, pairs |-> Elements(file[f].candidates)]],
    approved <- {f \in Files : file[f].status = "approved"},
    stories <- Elements(tracker)
KeepsRegistry == Registry!Spec
===============================================================================
