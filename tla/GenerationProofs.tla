--------------------------- MODULE GenerationProofs ---------------------------
(***************************************************************************)
(* Proofs about GenerationQueue, for any number of stories, workers,       *)
(* attempts and faults: receipts and what they rest on, and how many       *)
(* generations a story can cost.                                           *)
(***************************************************************************)
EXTENDS GenerationQueue, FiniteSetTheorems, TLAPS

(***************************************************************************)
(* Type correctness.  The version of a request is bounded because every    *)
(* attempt that wrote one is recorded, under way, or lost in a fault.      *)
(***************************************************************************)
Versions == 0..MaxVersion
RunnerRecord == [pc : {"idle", "written", "waiting", "saving", "reporting", "failing"},
                 story : Stories \cup {NoStory}, worker : Workers \cup {NoWorker},
                 attempts : 0..MaxRetries]
WorkerRecord == [pc : WorkerPC, story : Stories \cup {NoStory}, version : Versions]
ReceiptRecord == [status : {"none", "queued", "error"}, version : Versions]
StageRecord == [status : {"pending", "failed", "done"}, attempts : 0..MaxRetries]
PageRecord == [sent : Nat, waiting : Nat, generating : Nat, ready : Nat]

\* What the runner has in memory: the attempt counted there is on record, or it is the
\* next one, of a stage that is not done and has attempts left.
CountedOnce == runner.attempts = stage[runner.story].attempts
RunnerJob ==
    /\ runner.pc = "idle" => runner = Idle
    /\ runner.pc # "idle" =>
          /\ runner.story \in Stories
          /\ CountedOnce \/ (/\ stage[runner.story].status # "done"
                             /\ stage[runner.story].attempts < MaxRetries
                             /\ runner.attempts = stage[runner.story].attempts + 1)
    /\ runner.pc \in {"written", "waiting"} => ~CountedOnce
    /\ runner.pc = "saving" /\ CountedOnce => stage[runner.story].status = "done"
    /\ runner.pc = "reporting" => CountedOnce
    /\ runner.pc = "failing" /\ CountedOnce /\ stage[runner.story].status = "done"
          => "save" \in Faults \/ "report" \in Faults
    /\ runner.pc = "waiting" <=> runner.worker \in Workers
WorkerJob == \A w \in Workers : worker[w].pc # "off" => worker[w].story \in Stories
Open(s) == IF s \in Uncounted THEN 1 ELSE 0
Counted == \A s \in Stories : request[s] <= stage[s].attempts + faults + Open(s)

TypeInv == TypeOK /\ RunnerJob /\ WorkerJob /\ Counted

\* The types, one variable at a time.
LEMMA Typed ==
    ASSUME TypeInv
    PROVE  /\ stage \in [Stories -> StageRecord] /\ request \in [Stories -> Versions]
           /\ receipt \in [Stories -> ReceiptRecord] /\ runner \in RunnerRecord
           /\ worker \in [Workers -> WorkerRecord] /\ page \in [Stories -> PageRecord]
           /\ faults \in 0..MaxFaults /\ MaxRetries \in 1..10 /\ MaxFaults \in Nat
           /\ MaxVersion \in Nat /\ Versions \subseteq Nat /\ 0 \in Versions
BY BudgetAssumption DEF TypeInv, TypeOK, Versions, MaxVersion, StageRecord, ReceiptRecord,
   RunnerRecord, WorkerRecord, PageRecord

\* The bound on the versions follows from the account.
LEMMA VersionsBounded ==
    ASSUME stage' \in [Stories -> StageRecord], request' \in [Stories -> Nat],
           faults' \in 0..MaxFaults, Counted', RunnerJob'
    PROVE  request' \in [Stories -> Versions]
<1>1. SUFFICES ASSUME NEW s \in Stories PROVE request'[s] \in Versions
  OBVIOUS
<1>2. /\ stage'[s].attempts \in 0..MaxRetries /\ request'[s] \in Nat
      /\ MaxRetries \in Nat /\ MaxFaults \in Nat
  BY BudgetAssumption DEF StageRecord
<1>3. stage'[s].attempts + Open(s)' <= MaxRetries
  BY <1>2 DEF Open, Uncounted, RunnerJob, CountedOnce
<1>4. QED
  BY <1>2, <1>3 DEF Counted, Versions, MaxVersion, Open

LEMMA TypeInit == Init => TypeInv
<1> SUFFICES ASSUME Init PROVE TypeInv
  OBVIOUS
<1>1. TypeOK
  BY BudgetAssumption
     DEF Init, TypeOK, Idle, Off, NoReceipt, MaxVersion, WorkerPC
<1>2. RunnerJob /\ WorkerJob /\ Counted
  BY BudgetAssumption, NamesAssumption
     DEF Init, RunnerJob, CountedOnce, WorkerJob, Counted, Open, Uncounted, Idle, Off
<1>3. QED
  BY <1>1, <1>2 DEF TypeInv

\* A worker moves on.
LEMMA MoveType ==
    ASSUME TypeInv, NEW w \in Workers, NEW l \in WorkerPC, MoveWorker(w, l), worker[w].pc # "off"
    PROVE  worker' \in [Workers -> WorkerRecord] /\ WorkerJob'
BY Typed DEF TypeInv, MoveWorker, WorkerJob, WorkerRecord

LEMMA FaultType ==
    ASSUME TypeInv, NEW kind, Fault(kind)
    PROVE  faults' \in 0..MaxFaults /\ faults' = faults + 1
BY Typed DEF Fault

\* The worker's own steps.
LEMMA WorkerStepType ==
    ASSUME TypeInv, NEW w \in Workers, WorkerStep(w) \/ ConnectionCloses(w) \/ Kill(w)
    PROVE  TypeInv'
<1>1. UNCHANGED <<stage, request, runner>>
  BY DEF WorkerStep, DisconnectFails, ConnectionCloses, Kill, ReadRequest, Look, Submit, Confirm,
     GiveUp,
     PublishQueued, PublishError, Leave, OrphanExits
<1>2. faults' \in 0..MaxFaults /\ faults <= faults'
  <2>1. CASE UNCHANGED faults
    BY <2>1, Typed
  <2>2. CASE Kill(w)
    BY <2>2, Typed, FaultType DEF Kill
  <2>3. QED
    BY <2>1, <2>2 DEF WorkerStep, ReadRequest, Look, Submit, Confirm, GiveUp, PublishQueued,
       PublishError, Leave, DisconnectFails, ConnectionCloses, OrphanExits
<1>3. worker' \in [Workers -> WorkerRecord] /\ WorkerJob'
  <2>1. CASE ReadRequest(w)
    <3>1. worker[w].story \in Stories
      BY <2>1 DEF TypeInv, WorkerJob, ReadRequest, WorkerAt
    <3>2. QED
      BY <2>1, <3>1, Typed DEF TypeInv, ReadRequest, WorkerJob, WorkerRecord, WorkerPC
  <2>2. CASE OrphanExits(w)
    BY <2>2, Typed DEF TypeInv, OrphanExits, WorkerJob, WorkerRecord, WorkerPC, Off
  <2>3. CASE UNCHANGED worker
    BY <2>3, Typed DEF TypeInv, WorkerJob
  <2>4. CASE worker[w].pc # "off" /\ \E l \in WorkerPC : MoveWorker(w, l)
    BY <2>4, MoveType
  <2>5. QED
    BY <2>1, <2>2, <2>3, <2>4 DEF WorkerStep, DisconnectFails, ConnectionCloses, Kill, Look,
       Submit, Confirm, GiveUp,
       PublishQueued, PublishError, Leave, WorkerAt, WorkerPC
<1>4. receipt' \in [Stories -> ReceiptRecord]
  <2>1. CASE PublishQueued(w)
    BY <2>1, Typed DEF PublishQueued, Answers, ReceiptRecord, WorkerRecord
  <2>2. CASE PublishError(w)
    BY <2>2, Typed DEF PublishError, ReceiptRecord, WorkerRecord
  <2>3. CASE UNCHANGED receipt
    BY <2>3, Typed
  <2>4. QED
    BY <2>1, <2>2, <2>3 DEF WorkerStep, DisconnectFails, ConnectionCloses, Kill, ReadRequest,
       Look, Submit, Confirm,
       GiveUp, Leave, OrphanExits
<1>5. page' \in [Stories -> PageRecord]
  <2>1. CASE Submit(w)
    BY <2>1, Typed DEF Submit, PageRecord
  <2>2. CASE UNCHANGED page
    BY <2>2, Typed
  <2>3. QED
    BY <2>1, <2>2 DEF WorkerStep, DisconnectFails, ConnectionCloses, Kill, ReadRequest, Look,
       Confirm, GiveUp,
       PublishQueued, PublishError, Leave, OrphanExits
<1>6. RunnerJob'
  BY <1>1 DEF TypeInv, RunnerJob, CountedOnce
<1>7. Counted'
  <2>1. SUFFICES ASSUME NEW s \in Stories
                 PROVE request[s] <= stage[s].attempts + faults' + Open(s)
    BY <1>1 DEF Counted, Open, Uncounted
  <2>2. stage[s].attempts \in Nat /\ request[s] \in Nat /\ Open(s) \in Nat
    BY Typed DEF StageRecord, Open
  <2>3. QED
    BY <1>2, <2>2, Typed DEF TypeInv, Counted
<1>8. QED
  BY <1>1, <1>2, <1>3, <1>4, <1>5, <1>6, <1>7, Typed
     DEF TypeInv, TypeOK, Versions, StageRecord, ReceiptRecord, RunnerRecord, WorkerRecord, PageRecord

\* The notebook's steps.
LEMMA NotebookType ==
    ASSUME TypeInv, NEW s \in Stories, Notebook(s)
    PROVE  TypeInv'
<1>1. UNCHANGED <<stage, request, receipt, runner, worker, faults>>
  BY DEF Notebook, Appear, Drop, Generate, Complete
<1>2. page' \in [Stories -> PageRecord]
  BY Typed DEF Notebook, Appear, Drop, Generate, Complete, PageRecord
<1>3. QED
  BY <1>1, <1>2
     DEF TypeInv, TypeOK, RunnerJob, CountedOnce, WorkerJob, Counted, Open, Uncounted, PageRecord

\* What the account of the requests adds up, as bounds.
LEMMA CountedTyped ==
    ASSUME TypeInv
    PROVE  /\ \A s \in Stories : /\ stage[s].attempts \in 0..MaxRetries /\ request[s] \in Nat
                                 /\ request[s] <= stage[s].attempts + faults + Open(s)
           /\ request \in [Stories -> Nat] /\ faults \in Nat /\ MaxRetries \in Nat
BY Typed DEF TypeInv, Counted, StageRecord, Open

\* The runner's steps, faults included.
LEMMA RunnerStepType ==
    ASSUME TypeInv, (\E s \in Stories : WriteRequest(s) \/ Revisit(s)) \/ RunnerStep \/ RunnerFails
    PROVE  TypeInv'
<1>1. UNCHANGED <<receipt, page>>
  BY DEF RunnerStep, RunnerFails, WriteRequest, Revisit, StartWorker, Ingest, Save, Report,
     SaveFails,
     ReportFails, RecordFailure, RecordFailureFails, Crash, Interrupt
<1>2. SUFFICES /\ stage' \in [Stories -> StageRecord] /\ request' \in [Stories -> Nat]
               /\ runner' \in RunnerRecord /\ worker' \in [Workers -> WorkerRecord]
               /\ faults' \in 0..MaxFaults /\ RunnerJob' /\ WorkerJob' /\ Counted'
  BY <1>1, Typed, VersionsBounded
     DEF TypeInv, TypeOK, Versions, StageRecord, ReceiptRecord, RunnerRecord, WorkerRecord, PageRecord
<1>3. /\ Off \in WorkerRecord /\ Off.pc = "off" /\ Idle \in RunnerRecord /\ Idle.pc = "idle"
      /\ Idle.worker = NoWorker
  BY Typed DEF Off, Idle, WorkerRecord, RunnerRecord, WorkerPC
<1>4. CASE \E s \in Stories : WriteRequest(s)
  <2>1. PICK s \in Stories : WriteRequest(s)
    BY <1>4
  <2>2. /\ stage[s].attempts < MaxRetries /\ stage[s].status # "done" /\ runner.pc = "idle"
        /\ request' = [request EXCEPT ![s] = @ + 1] /\ UNCHANGED <<stage, worker, faults>>
        /\ runner' = [pc |-> "written", story |-> s, worker |-> NoWorker,
                      attempts |-> stage[s].attempts + 1]
    BY <2>1 DEF WriteRequest, BeginAttempt
  <2>3. runner' \in RunnerRecord
    BY <2>2, CountedTyped DEF RunnerRecord
  <2>4. RunnerJob' /\ WorkerJob'
    BY <2>2, CountedTyped, NamesAssumption DEF TypeInv, RunnerJob, CountedOnce, WorkerJob
  <2>5. Counted'
    <3>1. \A t \in Stories : Open(t) = 0 /\ Open(t)' = IF t = s THEN 1 ELSE 0
      BY <2>2, CountedTyped DEF Open, Uncounted
    <3>2. QED
      BY <2>2, <3>1, CountedTyped DEF Counted
  <2>6. QED
    BY <2>2, <2>3, <2>4, <2>5, Typed, CountedTyped
<1>5. CASE \E s \in Stories : Revisit(s)
  <2>1. PICK s \in Stories : Revisit(s)
    BY <1>5
  <2>2. PICK l \in {"saving", "failing"} :
           runner' = [pc |-> l, story |-> s, worker |-> NoWorker, attempts |-> stage[s].attempts]
           /\ (l = "saving" <=> stage[s].status = "done")
    BY <2>1 DEF Revisit, Idle
  <2>3. UNCHANGED <<stage, request, worker, faults>> /\ runner.pc = "idle"
    BY <2>1 DEF Revisit
  <2>4. runner' \in RunnerRecord
    BY <2>2, CountedTyped DEF RunnerRecord
  <2>5. RunnerJob' /\ WorkerJob'
    BY <2>2, <2>3, NamesAssumption DEF TypeInv, RunnerJob, CountedOnce, WorkerJob
  <2>6. Counted'
    <3>1. \A t \in Stories : Open(t) = 0 /\ Open(t)' = 0
      BY <2>2, <2>3 DEF Open, Uncounted
    <3>2. QED
      BY <2>3, <3>1, CountedTyped DEF Counted
  <2>7. QED
    BY <2>3, <2>4, <2>5, <2>6, Typed, CountedTyped
<1>6. ASSUME NEW l \in {"waiting", "saving", "failing"}, NEW q \in Workers \cup {NoWorker},
             runner' = [runner EXCEPT !.pc = l, !.worker = q], runner.pc # "idle",
             l = "waiting" <=> q \in Workers, UNCHANGED <<stage, request>>,
             faults' \in 0..MaxFaults, faults <= faults',
             l = "waiting" => ~CountedOnce,
             l = "saving" => ~CountedOnce,
             l = "failing" => ~CountedOnce \/ "save" \in Faults \/ "report" \in Faults
      PROVE  /\ stage' \in [Stories -> StageRecord] /\ request' \in [Stories -> Nat]
             /\ runner' \in RunnerRecord /\ faults' \in 0..MaxFaults /\ RunnerJob' /\ Counted'
  <2>1. /\ runner' \in RunnerRecord /\ runner'.pc = l /\ runner'.worker = q
        /\ runner'.story = runner.story /\ runner'.attempts = runner.attempts
    BY <1>6, Typed DEF RunnerRecord
  <2>2. RunnerJob'
    BY <1>6, <2>1 DEF TypeInv, RunnerJob, CountedOnce
  <2>3. \A t \in Stories : Open(t)' = Open(t) /\ Open(t) \in Nat
    BY <1>6, <2>1 DEF Open, Uncounted
  <2>4. Counted'
    <3>1. SUFFICES ASSUME NEW t \in Stories
                   PROVE request[t] <= stage[t].attempts + faults' + Open(t)
      BY <1>6, <2>3 DEF Counted
    <3>2. QED
      BY <1>6, <2>3, CountedTyped
  <2>5. QED
    BY <1>6, <2>1, <2>2, <2>4, Typed, CountedTyped
<1>7. CASE \E w \in Workers : StartWorker(w)
  <2>1. PICK w \in Workers : StartWorker(w)
    BY <1>7
  <2>2. /\ runner.pc = "written" /\ runner.story \in Stories /\ ~CountedOnce
        /\ runner' = [runner EXCEPT !.pc = "waiting", !.worker = w]
        /\ UNCHANGED <<stage, request, faults>>
    BY <2>1 DEF TypeInv, RunnerJob, StartWorker
  <2>3. worker' \in [Workers -> WorkerRecord] /\ WorkerJob'
    BY <2>1, <2>2, Typed DEF TypeInv, WorkerJob, StartWorker, WorkerRecord, WorkerPC
  <2>4. faults' \in 0..MaxFaults /\ faults <= faults'
    BY <2>2, Typed
  <2>5. /\ stage' \in [Stories -> StageRecord] /\ request' \in [Stories -> Nat]
        /\ runner' \in RunnerRecord /\ RunnerJob' /\ Counted'
    <3> DEFINE l == "waiting"
    <3>1. l \in {"waiting", "saving", "failing"} /\ runner.pc # "idle"
          /\ runner' = [runner EXCEPT !.pc = l, !.worker = w]
      BY <2>2
    <3>2. l = "waiting" /\ l # "saving" /\ l # "failing"
      OBVIOUS
    <3> HIDE DEF l
    <3>3. QED
      BY <1>6, <2>2, <2>4, <3>1, <3>2
  <2>6. QED
    BY <2>3, <2>4, <2>5
<1>8. CASE Ingest
  <2>1. /\ runner.pc = "waiting" /\ runner.worker \in Workers /\ ~CountedOnce
        /\ UNCHANGED <<stage, request, faults>>
        /\ worker' = [worker EXCEPT ![runner.worker] = Off]
    BY <1>8 DEF Ingest, TypeInv, RunnerJob
  <2>2. PICK l \in {"saving", "failing"} : runner' = [runner EXCEPT !.pc = l, !.worker = NoWorker]
    BY <1>8 DEF Ingest
  <2>3. worker' \in [Workers -> WorkerRecord] /\ WorkerJob'
    BY <2>1, <1>3, Typed DEF TypeInv, WorkerJob
  <2>4. faults' \in 0..MaxFaults /\ faults <= faults'
    BY <2>1, Typed
  <2>5. l \in {"waiting", "saving", "failing"} /\ l # "waiting" /\ NoWorker \notin Workers
    BY NamesAssumption
  <2>6. /\ stage' \in [Stories -> StageRecord] /\ request' \in [Stories -> Nat]
        /\ runner' \in RunnerRecord /\ RunnerJob' /\ Counted'
    BY <1>6, <2>1, <2>2, <2>4, <2>5
  <2>7. QED
    BY <2>3, <2>4, <2>6
<1>9. CASE SaveFails \/ ReportFails
  <2>1. /\ runner.pc \in {"saving", "reporting"} /\ runner' = [runner EXCEPT !.pc = "failing"]
        /\ UNCHANGED <<stage, request, worker>> /\ faults' = faults + 1 /\ faults' \in 0..MaxFaults
        /\ "save" \in Faults \/ "report" \in Faults
    BY <1>9, FaultType DEF SaveFails, ReportFails, MoveRunner, Fault
  <2>2. runner.worker = NoWorker
    BY <2>1, Typed DEF TypeInv, RunnerJob, RunnerRecord
  <2>3. runner' = [runner EXCEPT !.pc = "failing", !.worker = NoWorker]
    BY <2>1, <2>2, Typed DEF RunnerRecord
  <2>4. WorkerJob'
    BY <2>1 DEF TypeInv, WorkerJob
  <2>5. faults <= faults'
    BY <2>1, Typed
  <2>6. /\ stage' \in [Stories -> StageRecord] /\ request' \in [Stories -> Nat]
        /\ runner' \in RunnerRecord /\ RunnerJob' /\ Counted'
    <3> DEFINE l == "failing"
    <3>1. l \in {"waiting", "saving", "failing"} /\ runner.pc # "idle"
          /\ runner' = [runner EXCEPT !.pc = l, !.worker = NoWorker]
      BY <2>1, <2>3
    <3>2. l # "waiting" /\ l # "saving" /\ l = "failing" /\ NoWorker \notin Workers
      BY NamesAssumption
    <3> HIDE DEF l
    <3>3. QED
      BY <1>6, <2>1, <2>5, <3>1, <3>2
  <2>7. QED
    BY <2>1, <2>4, <2>6, Typed
<1>10. CASE Save \/ RecordFailure
  <2>1. PICK x \in {"done", "failed"} : /\ Record(x)
                                        /\ IF x = "done" THEN runner.pc = "saving" /\ MoveRunner("reporting")
                                           ELSE runner.pc = "failing" /\ runner' = Idle
    BY <1>10 DEF Save, RecordFailure
  <2>2. /\ UNCHANGED <<request, worker, faults>>
        /\ runner.pc # "idle" /\ runner.story \in Stories /\ runner.attempts \in 0..MaxRetries
        /\ runner.worker = NoWorker
    BY <1>10, Typed DEF Save, RecordFailure, TypeInv, RunnerJob, RunnerRecord
  <2>3. stage' \in [Stories -> StageRecord]
        /\ stage' = [stage EXCEPT ![runner.story] = [status |-> x, attempts |-> runner.attempts]]
    <3>1. [status |-> x, attempts |-> runner.attempts] \in StageRecord
      BY <2>2 DEF StageRecord
    <3>2. QED
      BY <2>1, <2>2, <3>1, Typed DEF Record
  <2>4. /\ runner' \in RunnerRecord /\ runner'.pc = (IF x = "done" THEN "reporting" ELSE "idle")
        /\ runner'.worker = NoWorker
        /\ x = "done" => runner'.story = runner.story /\ runner'.attempts = runner.attempts
        /\ x = "failed" => runner' = Idle
    BY <2>1, <2>2, <1>3, Typed DEF MoveRunner, RunnerRecord
  <2>5. RunnerJob' /\ WorkerJob'
    BY <2>2, <2>3, <2>4, <1>3, NamesAssumption, Typed DEF TypeInv, RunnerJob, CountedOnce, WorkerJob
  <2>6. Counted'
    <3>1. SUFFICES ASSUME NEW s \in Stories PROVE request[s] <= stage'[s].attempts + faults + Open(s)'
      BY <2>2 DEF Counted
    <3>2. Open(s)' = 0
      BY <2>2, <2>3, <2>4, Typed DEF Open, Uncounted
    <3>3. stage[s].attempts + Open(s) = stage'[s].attempts
      BY <2>2, <2>3, CountedTyped, Typed DEF TypeInv, RunnerJob, CountedOnce, Open, Uncounted
    <3>4. QED
      BY <3>2, <3>3, CountedTyped DEF Open
  <2>7. QED
    BY <2>2, <2>3, <2>4, <2>5, <2>6, Typed, CountedTyped
<1>11. CASE Report
  <2>1. /\ UNCHANGED <<stage, request, worker, faults>> /\ runner' = Idle
        /\ runner.pc = "reporting" /\ CountedOnce
    BY <1>11 DEF Report, TypeInv, RunnerJob
  <2>2. \A s \in Stories : Open(s) = 0 /\ Open(s)' = 0
    BY <2>1, <1>3 DEF Open, Uncounted, CountedOnce
  <2>3. Counted'
    BY <2>1, <2>2, CountedTyped DEF Counted
  <2>4. RunnerJob' /\ WorkerJob'
    BY <2>1, <1>3, NamesAssumption DEF TypeInv, RunnerJob, WorkerJob
  <2>5. QED
    BY <2>1, <2>3, <2>4, <1>3, Typed, CountedTyped
<1>12. CASE RecordFailureFails \/ Crash \/ Interrupt
  <2>1. /\ runner' = Idle /\ UNCHANGED <<stage, request>>
        /\ faults' = faults + 1 /\ faults' \in 0..MaxFaults
    BY <1>12, FaultType DEF RecordFailureFails, Crash, Interrupt
  <2>2. worker' \in [Workers -> WorkerRecord] /\ WorkerJob'
    <3>1. CASE RecordFailureFails \/ Crash
      BY <3>1, Typed DEF RecordFailureFails, Crash, TypeInv, WorkerJob
    <3>2. CASE Interrupt
      BY <3>2, <1>3, Typed DEF Interrupt, TypeInv, WorkerJob
    <3>3. QED
      BY <1>12, <3>1, <3>2
  <2>3. Counted'
    <3>1. \A s \in Stories : Open(s) \in 0..1 /\ Open(s)' = 0
      BY <2>1, <1>3 DEF Open, Uncounted
    <3>2. QED
      BY <2>1, <3>1, CountedTyped DEF Counted
  <2>4. RunnerJob'
    BY <2>1, <1>3, NamesAssumption DEF RunnerJob
  <2>5. QED
    BY <2>1, <2>2, <2>3, <2>4, <1>3, Typed, CountedTyped
<1>13. QED
  BY <1>4, <1>5, <1>7, <1>8, <1>9, <1>10, <1>11, <1>12 DEF RunnerStep, RunnerFails

LEMMA TypeStep ==
    ASSUME TypeInv, [Next]_vars
    PROVE  TypeInv'
<1>1. CASE UNCHANGED vars
  BY <1>1 DEF vars, TypeInv, TypeOK, RunnerJob, CountedOnce, WorkerJob, Counted, Open, Uncounted
<1>2. CASE Next
  BY <1>2, WorkerStepType, NotebookType, RunnerStepType DEF Next
<1>3. QED
  BY <1>1, <1>2

LEMMA TypesHold == Spec => []TypeInv
BY TypeInit, TypeStep, PTL DEF Spec

\* Every variable has its type; no attempt is recorded beyond the budget, and no
\* request version beyond what attempts and faults account for (run_stage).
THEOREM Types == Spec => []TypeOK
BY TypesHold, PTL DEF TypeInv

(***************************************************************************)
(* Receipts.                                                               *)
(***************************************************************************)

\* Nobody replaces a receipt that is there.
LEMMA ReceiptKept ==
    ASSUME TypeInv, [Next]_vars, NEW s \in Stories, receipt[s] # NoReceipt
    PROVE  receipt'[s] = receipt[s]
<1>1. ASSUME NEW w \in Workers, PublishQueued(w) \/ PublishError(w) PROVE receipt'[s] = receipt[s]
  BY <1>1, Typed DEF PublishQueued, PublishError
<1>2. CASE UNCHANGED receipt
  BY <1>2
<1>3. QED
  BY <1>1, <1>2 DEF Next, vars, RunnerStep, RunnerFails, WorkerStep, Notebook, WriteRequest,
     Revisit,
     StartWorker, Ingest, Save, Report, SaveFails, ReportFails, RecordFailure, RecordFailureFails,
     ReadRequest, Look, Submit, Confirm, GiveUp, Leave, DisconnectFails, ConnectionCloses, OrphanExits,
     Kill, Crash, Interrupt, Appear, Drop, Generate, Complete

\* A receipt is never replaced, whichever workers race to publish
\* (writeAtomicJson links instead of renaming).
THEOREM ReceiptsKept == Spec => ReceiptNeverReplaced
<1>1. TypeInv /\ [Next]_vars => [\A s \in Stories : receipt[s] # NoReceipt => receipt'[s] = receipt[s]]_vars
  BY ReceiptKept
<1>2. QED
  BY <1>1, TypesHold, PTL DEF Spec, ReceiptNeverReplaced

\* What the runner is about to record as done was accepted, and what is accepted
\* stays so: the request is written again only for a story that is not done.
ReceiptsHeld == ReceiptStaysValid /\ (runner.pc = "saving" => Accepts(runner.story))

\* A record turns to done in Save only, and a request stays while its story is done.
LEMMA DoneBySave ==
    ASSUME TypeInv, [Next]_vars, NEW s \in Stories, stage'[s].status = "done"
    PROVE  /\ request'[s] = request[s]
           /\ stage[s].status = "done" \/ (runner.pc = "saving" /\ runner.story = s)
<1>1. CASE \E t \in Stories : WriteRequest(t)
  BY <1>1, Typed DEF WriteRequest, BeginAttempt
<1>2. CASE Save \/ RecordFailure
  BY <1>2, Typed DEF Save, RecordFailure, Record, StageRecord
<1>3. CASE UNCHANGED <<stage, request>>
  BY <1>3
<1>4. QED
  BY <1>1, <1>2, <1>3 DEF Next, vars, RunnerStep, RunnerFails, WorkerStep, Notebook, Revisit,
     StartWorker, Ingest, Report, SaveFails, ReportFails, RecordFailureFails,
     ReadRequest, Look, Submit, Confirm, GiveUp, PublishQueued, PublishError, Leave,
     DisconnectFails, ConnectionCloses, OrphanExits, Kill, Crash, Interrupt, Appear, Drop, Generate,
     Complete

\* The runner comes to save with the acceptance of a fresh receipt, or for a stage
\* that was done before.
LEMMA SavesAccepted ==
    ASSUME TypeInv, [Next]_vars, runner'.pc = "saving"
    PROVE  /\ runner'.story \in Stories /\ request' = request
           /\ \/ runner.pc = "saving" /\ runner'.story = runner.story
              \/ Accepts(runner'.story) /\ UNCHANGED receipt
              \/ stage[runner'.story].status = "done"
<1>1. runner \in RunnerRecord /\ (runner.pc # "idle" => runner.story \in Stories)
  BY Typed DEF TypeInv, RunnerJob
<1>2. CASE \E t \in Stories : Revisit(t)
  <2>1. PICK t \in Stories : Revisit(t)
    BY <1>2
  <2>2. stage[t].status = "done" /\ runner'.story = t /\ UNCHANGED request
    BY <2>1 DEF Revisit, Idle
  <2>3. QED
    BY <2>2
<1>3. CASE Ingest
  <2>1. runner'.story = runner.story /\ Accepts(runner.story) /\ UNCHANGED <<request, receipt>>
    BY <1>1, <1>3 DEF Ingest, RunnerRecord
  <2>2. QED
    BY <1>1, <1>3, <2>1 DEF Ingest
<1>4. ASSUME runner'.pc \in {"idle", "written", "waiting", "reporting", "failing"} PROVE FALSE
  BY <1>4
<1>5. ~\E t \in Stories : WriteRequest(t)
  BY <1>4 DEF WriteRequest, BeginAttempt
<1>6. ~Save /\ ~SaveFails /\ ~ReportFails /\ ~\E w \in Workers : StartWorker(w)
  BY <1>1, <1>4 DEF Save, SaveFails, ReportFails, StartWorker, MoveRunner, RunnerRecord
<1>7. ~Report /\ ~RecordFailure /\ ~RecordFailureFails /\ ~Crash /\ ~Interrupt
  BY <1>4 DEF Report, RecordFailure, RecordFailureFails, Crash, Interrupt, Idle
<1>8. CASE UNCHANGED <<runner, request>>
  BY <1>1, <1>8
<1>9. QED
  BY <1>2, <1>3, <1>5, <1>6, <1>7, <1>8 DEF Next, vars, RunnerStep, RunnerFails, WorkerStep,
     Notebook,
     ReadRequest, Look, Submit, Confirm, GiveUp, PublishQueued, PublishError, Leave,
     DisconnectFails, ConnectionCloses, OrphanExits, Kill, Appear, Drop, Generate, Complete

LEMMA ReceiptsStay == Spec => [](TypeInv /\ ReceiptsHeld)
<1>1. Init => ReceiptsHeld
  BY DEF Init, ReceiptsHeld, ReceiptStaysValid, Idle
<1>2. ASSUME TypeInv, ReceiptsHeld, [Next]_vars PROVE ReceiptsHeld'
  <2>1. \A s \in Stories : Accepts(s) <=>
                            receipt[s].status = "queued" /\ receipt[s].version = request[s]
    BY <1>2, Typed DEF Accepts, ReceiptRecord
  <2>2. ASSUME NEW s \in Stories, Accepts(s) PROVE receipt'[s] = receipt[s]
    BY <1>2, <2>2, ReceiptKept DEF Accepts, NoReceipt
  <2>3. ASSUME NEW s \in Stories, stage'[s].status = "done"
        PROVE  receipt'[s].status = "queued" /\ receipt'[s].version = request'[s]
    <3>1. Accepts(s)
      BY <1>2, <2>1, <2>3, DoneBySave DEF ReceiptsHeld, ReceiptStaysValid
    <3>2. QED
      BY <1>2, <2>1, <2>2, <2>3, <3>1, DoneBySave
  <2>4. ASSUME runner'.pc = "saving" PROVE Accepts(runner.story)'
    <3>1. PICK s \in Stories : s = runner'.story
      BY <1>2, <2>4, SavesAccepted
    <3>2. /\ request' = request
          /\ (runner.pc = "saving" /\ s = runner.story) \/ Accepts(s) \/ stage[s].status = "done"
      BY <1>2, <2>4, <3>1, SavesAccepted
    <3>3. Accepts(s)
      BY <1>2, <2>1, <3>2 DEF ReceiptsHeld, ReceiptStaysValid
    <3>4. receipt'[s] = receipt[s]
      BY <2>2, <3>3
    <3>5. QED
      BY <3>1, <3>2, <3>3, <3>4 DEF Accepts
  <2>5. QED
    BY <2>3, <2>4 DEF ReceiptsHeld, ReceiptStaysValid
<1>3. QED
  BY <1>1, <1>2, TypesHold, PTL DEF Spec

\* The receipt that authorised a queued stage goes on answering the request file,
\* whatever orphaned workers write (ingest_generation_receipt).
THEOREM ReceiptValid == Spec => []ReceiptStaysValid
BY ReceiptsStay, PTL DEF ReceiptsHeld

(***************************************************************************)
(* What a receipt rests on.  What the notebook shows of a story never      *)
(* disappears again, so it is enough that it was seen once.                *)
(***************************************************************************)
Seen ==
    /\ \A w \in Workers : WorkerAt(w, "publishing") => Shown(worker[w].story)
    /\ \A s \in Stories : receipt[s].status = "queued" => Shown(s)

LEMMA ShownStays ==
    ASSUME TypeInv, [Next]_vars, NEW s \in Stories, Shown(s)
    PROVE  Shown(s)'
<1>1. page[s] \in PageRecord
  BY Typed
<1>2. ASSUME NEW t \in Stories, Notebook(t) PROVE Shown(s)'
  BY <1>1, <1>2, Typed DEF Notebook, Appear, Drop, Generate, Complete, Shown, PageRecord
<1>3. ASSUME NEW w \in Workers, Submit(w) PROVE Shown(s)'
  BY <1>1, <1>3, Typed DEF Submit, Shown, PageRecord
<1>4. CASE UNCHANGED page
  BY <1>4 DEF Shown
<1>5. QED
  BY <1>2, <1>3, <1>4 DEF Next, vars, RunnerStep, RunnerFails, WorkerStep, WriteRequest, Revisit,
     StartWorker, Ingest, Save, Report, SaveFails, ReportFails, RecordFailure, RecordFailureFails,
     ReadRequest, Look, Confirm, GiveUp, PublishQueued, PublishError, Leave, DisconnectFails,
     ConnectionCloses, OrphanExits, Kill, Crash, Interrupt

\* Who is about to publish has looked, or was about to publish before.
LEMMA Looked ==
    ASSUME TypeInv, [Next]_vars, NEW w \in Workers, WorkerAt(w, "publishing")'
    PROVE  /\ worker'[w].story = worker[w].story /\ worker[w].story \in Stories
           /\ WorkerAt(w, "publishing") \/ Matches(worker[w].story)
<1>1. worker \in [Workers -> WorkerRecord] /\ WorkerJob
  BY Typed DEF TypeInv
<1>2. ASSUME NEW q \in Workers, WorkerStep(q) \/ ConnectionCloses(q) \/ Kill(q)
      PROVE  worker'[w] = worker[w] \/ Look(w) \/ Confirm(w)
  <2>1. CASE q # w
    BY <1>1, <1>2, <2>1 DEF WorkerStep, DisconnectFails, ConnectionCloses, Kill, ReadRequest,
       Look, Submit, Confirm,
       GiveUp, PublishQueued, PublishError, Leave, OrphanExits, MoveWorker
  <2>2. CASE q = w
    <3>1. ASSUME NEW l \in WorkerPC \ {"publishing"}, MoveWorker(w, l) PROVE FALSE
      BY <1>1, <3>1 DEF MoveWorker, WorkerAt, WorkerRecord
    <3>2. ~ReadRequest(w) /\ ~OrphanExits(w)
      BY <1>1 DEF ReadRequest, OrphanExits, Off, WorkerAt, WorkerRecord
    <3>3. ~PublishQueued(w) /\ ~PublishError(w) /\ ~Submit(w) /\ ~GiveUp(w) /\ ~Leave(w)
          /\ ~DisconnectFails(w) /\ ~ConnectionCloses(w) /\ ~Kill(w)
      BY <3>1 DEF PublishQueued, PublishError, Submit, GiveUp, Leave, DisconnectFails,
         ConnectionCloses, Kill, WorkerPC
    <3>4. QED
      BY <1>2, <2>2, <3>2, <3>3 DEF WorkerStep
  <2>3. QED
    BY <2>1, <2>2
<1>3. ASSUME NEW q \in Workers, StartWorker(q) PROVE worker'[w] = worker[w]
  <2>1. CASE q = w
    BY <1>1, <1>3, <2>1 DEF StartWorker, WorkerAt
  <2>2. CASE q # w
    BY <1>1, <1>3, <2>2 DEF StartWorker
  <2>3. QED
    BY <2>1, <2>2
<1>4. ASSUME Ingest \/ Interrupt PROVE worker'[w] = worker[w]
  <2>1. CASE w = runner.worker
    BY <1>1, <1>4, <2>1 DEF Ingest, Interrupt, Off, WorkerAt
  <2>2. CASE w # runner.worker
    BY <1>1, <1>4, <2>2 DEF Ingest, Interrupt
  <2>3. QED
    BY <2>1, <2>2
<1>5. worker'[w] = worker[w] \/ Look(w) \/ Confirm(w)
  BY <1>2, <1>3, <1>4 DEF Next, vars, RunnerStep, RunnerFails, Notebook, WriteRequest, Revisit,
     Save,
     Report, SaveFails, ReportFails, RecordFailure, RecordFailureFails, Crash, Appear, Drop, Generate,
     Complete
<1>6. CASE worker'[w] = worker[w]
  BY <1>1, <1>6 DEF WorkerAt, WorkerJob
<1>7. CASE Look(w) \/ Confirm(w)
  <2>1. worker'[w].story = worker[w].story /\ worker[w].pc # "off"
    BY <1>1, <1>7 DEF Look, Confirm, MoveWorker, WorkerAt, WorkerRecord
  <2>2. Matches(worker[w].story)
    BY <1>1, <1>7 DEF Look, Confirm, MoveWorker, WorkerAt, WorkerRecord
  <2>3. QED
    BY <1>1, <2>1, <2>2 DEF WorkerJob
<1>8. QED
  BY <1>5, <1>6, <1>7

\* A queued receipt is published by a worker that was about to.
LEMMA PublishedByWorker ==
    ASSUME TypeInv, [Next]_vars, NEW s \in Stories, receipt'[s].status = "queued",
           receipt[s].status # "queued"
    PROVE  \E w \in Workers : WorkerAt(w, "publishing") /\ worker[w].story = s
<1>1. ASSUME NEW w \in Workers, PublishQueued(w)
      PROVE  \E q \in Workers : WorkerAt(q, "publishing") /\ worker[q].story = s
  BY <1>1, Typed DEF PublishQueued
<1>2. ASSUME NEW w \in Workers, PublishError(w) PROVE FALSE
  BY <1>2, Typed DEF PublishError
<1>3. CASE UNCHANGED receipt
  BY <1>3
<1>4. QED
  BY <1>1, <1>2, <1>3 DEF Next, vars, RunnerStep, RunnerFails, WorkerStep, Notebook, WriteRequest,
     Revisit, StartWorker, Ingest, Save, Report, SaveFails, ReportFails, RecordFailure,
     RecordFailureFails, ReadRequest, Look, Submit, Confirm, GiveUp, Leave, DisconnectFails,
     ConnectionCloses, OrphanExits, Kill, Crash, Interrupt, Appear, Drop, Generate, Complete

LEMMA SeenHolds == Spec => [](TypeInv /\ Seen)
<1>1. Init => Seen
  BY DEF Init, Seen, WorkerAt, Off, NoReceipt
<1>2. ASSUME TypeInv, Seen, [Next]_vars PROVE Seen'
  <2>1. ASSUME NEW w \in Workers, WorkerAt(w, "publishing")' PROVE Shown(worker[w].story)'
    <3>1. /\ worker'[w].story = worker[w].story /\ worker[w].story \in Stories
          /\ Shown(worker[w].story)
      BY <1>2, <2>1, Looked DEF Seen, Matches
    <3>2. PICK s \in Stories : s = worker[w].story
      BY <3>1
    <3>3. Shown(s)'
      BY <1>2, <3>1, <3>2, ShownStays
    <3>4. QED
      BY <3>1, <3>2, <3>3 DEF Shown
  <2>2. ASSUME NEW s \in Stories, receipt'[s].status = "queued" PROVE Shown(s)'
    BY <1>2, <2>2, PublishedByWorker, ShownStays DEF Seen
  <2>3. QED
    BY <2>1, <2>2 DEF Seen
<1>3. QED
  BY <1>1, <1>2, TypesHold, PTL DEF Spec

\* A stage recorded as queued has a generation of its own in the notebook that
\* all stories share (matchingQueueState).
THEOREM DoneGenerates == Spec => []DoneHasGeneration
<1>1. ReceiptStaysValid /\ Seen => DoneHasGeneration
  BY DEF ReceiptStaysValid, Seen, DoneHasGeneration
<1>2. QED
  BY <1>1, ReceiptsStay, SeenHolds, PTL DEF ReceiptsHeld

(***************************************************************************)
(* How many generations a story can cost.  A request that was written is   *)
(* either still unsubmitted, in the runner's or in a worker's hands, or    *)
(* was submitted at most once.                                             *)
(***************************************************************************)
Ledger ==
    \A s \in Stories :
        /\ IsFiniteSet(Pending(s))
        /\ Generations(s) + Cardinality(Pending(s)) + Unstarted(s) <= request[s]

\* When one worker moves, the set of pending workers changes by that worker at most.
IsPending(w, s) == IF w \in Pending(s) THEN 1 ELSE 0
LEMMA PendingMoves ==
    ASSUME NEW w \in Workers, NEW s \in Stories, IsFiniteSet(Pending(s)),
           \A q \in Workers \ {w} : worker'[q] = worker[q]
    PROVE  /\ IsFiniteSet(Pending(s)') /\ Cardinality(Pending(s)') \in Nat
           /\ Cardinality(Pending(s)) \in Nat
           /\ w \in Pending(s) => Cardinality(Pending(s)) > 0
           /\ Cardinality(Pending(s)') =
                Cardinality(Pending(s)) + IsPending(w, s)' - IsPending(w, s)
<1>1. Cardinality(Pending(s)) \in Nat
  BY FS_CardinalityType
<1>2. CASE w \in Pending(s) <=> w \in Pending(s)'
  <2>1. Pending(s)' = Pending(s)
    BY <1>2 DEF Pending
  <2>2. w \in Pending(s) => Cardinality(Pending(s)) > 0
    BY <1>1, FS_EmptySet
  <2>3. QED
    BY <1>1, <1>2, <2>1, <2>2 DEF IsPending
<1>3. CASE w \in Pending(s) /\ w \notin Pending(s)'
  <2>1. Pending(s)' = Pending(s) \ {w}
    BY <1>3 DEF Pending
  <2>2. /\ IsFiniteSet(Pending(s) \ {w})
        /\ Cardinality(Pending(s) \ {w}) = Cardinality(Pending(s)) - 1
    BY <1>3, FS_RemoveElement
  <2>3. Cardinality(Pending(s) \ {w}) \in Nat
    BY <2>2, FS_CardinalityType
  <2>4. QED
    BY <1>1, <1>3, <2>1, <2>2, <2>3 DEF IsPending
<1>4. CASE w \notin Pending(s) /\ w \in Pending(s)'
  <2>1. Pending(s)' = Pending(s) \cup {w}
    BY <1>4 DEF Pending
  <2>2. /\ IsFiniteSet(Pending(s) \cup {w})
        /\ Cardinality(Pending(s) \cup {w}) = Cardinality(Pending(s)) + 1
    BY <1>4, FS_AddElement
  <2>3. QED
    BY <1>1, <1>4, <2>1, <2>2 DEF IsPending
<1>5. QED
  BY <1>2, <1>3, <1>4

\* The same as bounds.
LEMMA OneMoves ==
    ASSUME NEW w \in Workers, NEW s \in Stories, IsFiniteSet(Pending(s)),
           \A q \in Workers \ {w} : worker'[q] = worker[q]
    PROVE  /\ IsFiniteSet(Pending(s)') /\ Cardinality(Pending(s)') \in Nat
           /\ Cardinality(Pending(s)) \in Nat
           /\ Cardinality(Pending(s)') <= Cardinality(Pending(s)) + 1
           /\ (w \in Pending(s)' => w \in Pending(s))
                => Cardinality(Pending(s)') <= Cardinality(Pending(s))
           /\ w \in Pending(s) /\ w \notin Pending(s)'
                => Cardinality(Pending(s)') = Cardinality(Pending(s)) - 1
BY PendingMoves DEF IsPending

\* A worker that does not submit starts nothing and adds nothing to the pending.
LEMMA QuietWorker ==
    ASSUME TypeInv, Ledger, NEW w \in Workers, NEW s \in Stories,
           (WorkerStep(w) /\ ~Submit(w)) \/ ConnectionCloses(w) \/ Kill(w)
    PROVE  /\ \A q \in Workers \ {w} : worker'[q] = worker[q]
           /\ w \in Pending(s)' => w \in Pending(s)
           /\ UNCHANGED <<page, request, runner>>
<1>1. worker \in [Workers -> WorkerRecord]
  BY Typed
<1>2. UNCHANGED <<page, request, runner>>
  BY DEF WorkerStep, DisconnectFails, ConnectionCloses, Kill, ReadRequest, Look, Confirm, GiveUp,
     PublishQueued,
     PublishError, Leave, OrphanExits
<1>3. CASE ReadRequest(w)
  BY <1>1, <1>2, <1>3 DEF ReadRequest, Pending, WorkerAt, WorkerRecord
<1>4. CASE OrphanExits(w)
  BY <1>1, <1>2, <1>4 DEF OrphanExits, Pending, Off, WorkerRecord
<1>5. CASE Look(w)
  BY <1>1, <1>2, <1>5 DEF Look, MoveWorker, Pending, WorkerAt, WorkerRecord
<1>6. ASSUME NEW l \in WorkerPC \ {"starting", "looking", "submitting"}, MoveWorker(w, l)
      PROVE  (\A q \in Workers \ {w} : worker'[q] = worker[q]) /\ w \notin Pending(s)'
  BY <1>1, <1>6 DEF MoveWorker, Pending, WorkerRecord
<1>7. CASE Confirm(w) \/ GiveUp(w) \/ PublishQueued(w) \/ PublishError(w) \/ Leave(w)
           \/ DisconnectFails(w) \/ ConnectionCloses(w) \/ Kill(w)
  BY <1>2, <1>6, <1>7 DEF Confirm, GiveUp, PublishQueued, PublishError, Leave, DisconnectFails,
     ConnectionCloses, Kill, WorkerPC
<1>8. QED
  BY <1>3, <1>4, <1>5, <1>7 DEF WorkerStep

\* Every step keeps the account of every story.
LEMMA LedgerStep ==
    ASSUME TypeInv, Ledger, [Next]_vars
    PROVE  Ledger'
<1>1. SUFFICES ASSUME NEW s \in Stories
               PROVE /\ IsFiniteSet(Pending(s)')
                     /\ Generations(s)' + Cardinality(Pending(s)') + Unstarted(s)' <= request'[s]
  BY DEF Ledger
<1> DEFINE Size == Cardinality(Pending(s))
<1>2. /\ IsFiniteSet(Pending(s)) /\ Size \in Nat /\ Unstarted(s) \in 0..1
      /\ Generations(s) + Size + Unstarted(s) <= request[s]
      /\ Generations(s) \in Nat /\ request[s] \in Nat
  BY FS_CardinalityType, Typed DEF Ledger, Unstarted, Generations, PageRecord
<1>3. /\ page \in [Stories -> PageRecord] /\ request \in [Stories -> Nat]
      /\ worker \in [Workers -> WorkerRecord] /\ runner \in RunnerRecord
  BY Typed
<1>4. CASE UNCHANGED vars
  BY <1>2, <1>4 DEF vars, Pending, Generations, Unstarted
<1>5. CASE \E t \in Stories : WriteRequest(t)
  <2>1. PICK t \in Stories : WriteRequest(t)
    BY <1>5
  <2>2. Pending(s)' = Pending(s) /\ Generations(s)' = Generations(s) /\ Unstarted(s) = 0
    BY <2>1 DEF WriteRequest, Pending, Generations, Unstarted
  <2>3. Unstarted(s)' = (IF s = t THEN 1 ELSE 0) /\ request'[s] = request[s] + (IF s = t THEN 1 ELSE 0)
    BY <1>3, <2>1 DEF WriteRequest, BeginAttempt, Unstarted
  <2>4. QED
    BY <1>2, <2>2, <2>3
<1>6. CASE \E t \in Stories : Notebook(t)
  <2>1. PICK t \in Stories : Notebook(t)
    BY <1>6
  <2>2. UNCHANGED <<request, runner, worker>>
    BY <2>1 DEF Notebook, Appear, Drop, Generate, Complete
  <2>3. page[s] \in PageRecord /\ page[t] \in PageRecord
    BY <1>3
  <2>4. Generations(s)' <= Generations(s) /\ Generations(s)' \in Int
    BY <1>3, <2>1, <2>3 DEF Notebook, Appear, Drop, Generate, Complete, Generations, PageRecord
  <2>5. QED
    BY <1>2, <2>2, <2>4 DEF Pending, Unstarted
<1>7. CASE \E w \in Workers : StartWorker(w)
  <2>1. PICK w \in Workers : StartWorker(w)
    BY <1>7
  <2>2. \A q \in Workers \ {w} : worker'[q] = worker[q]
    BY <1>3, <2>1 DEF StartWorker
  <2>3. Generations(s)' = Generations(s) /\ request'[s] = request[s] /\ Unstarted(s)' = 0
    BY <1>3, <2>1 DEF StartWorker, Generations, Unstarted, RunnerRecord
  <2>4. CASE s = runner.story
    <3>1. Unstarted(s) = 1
      BY <2>1, <2>4 DEF StartWorker, Unstarted
    <3>2. QED
      BY <1>2, <2>2, <2>3, <3>1, OneMoves
  <2>5. CASE s # runner.story
    <3>1. w \notin Pending(s)'
      BY <1>3, <2>1, <2>5 DEF StartWorker, Pending
    <3>2. QED
      BY <1>2, <2>2, <2>3, <3>1, OneMoves
  <2>6. QED
    BY <2>4, <2>5
<1>8. CASE Ingest \/ Crash \/ Interrupt
  <2>1. Generations(s)' = Generations(s) /\ request'[s] = request[s] /\ Unstarted(s)' = 0
    <3>1. runner'.pc \in {"idle", "saving", "failing"}
      <4>1. CASE Ingest
        <5>1. PICK l \in {"saving", "failing"} : runner' = [runner EXCEPT !.pc = l, !.worker = NoWorker]
          BY <4>1 DEF Ingest
        <5>2. QED
          BY <1>3, <5>1 DEF RunnerRecord
      <4>2. CASE Crash \/ Interrupt
        BY <4>2 DEF Crash, Interrupt, Idle
      <4>3. QED
        BY <1>8, <4>1, <4>2
    <3>2. UNCHANGED <<page, request>>
      BY <1>8 DEF Ingest, Crash, Interrupt
    <3>3. QED
      BY <3>1, <3>2 DEF Generations, Unstarted
  <2>2. CASE runner.worker \in Workers
    <3>1. \A q \in Workers \ {runner.worker} : worker'[q] = worker[q]
      BY <1>3, <1>8 DEF Ingest, Crash, Interrupt
    <3>2. runner.worker \in Pending(s)' => runner.worker \in Pending(s)
      BY <1>3, <1>8, <2>2 DEF Ingest, Crash, Interrupt, Pending, Off
    <3>3. PICK w \in Workers : w = runner.worker
      BY <2>2
    <3>4. QED
      BY <1>2, <2>1, <3>1, <3>2, <3>3, OneMoves
  <2>3. CASE runner.worker \notin Workers
    <3>1. Pending(s)' = Pending(s)
      BY <1>3, <1>8, <2>3 DEF Ingest, Crash, Interrupt, Pending, Off
    <3>2. QED
      BY <1>2, <2>1, <3>1
  <2>4. QED
    BY <2>2, <2>3
<1>9. CASE \E w \in Workers : Submit(w)
  <2>1. PICK w \in Workers : Submit(w)
    BY <1>9
  <2>2. \A q \in Workers \ {w} : worker'[q] = worker[q]
    BY <1>3, <2>1 DEF Submit, MoveWorker
  <2>3. w \notin Pending(s)'
    BY <1>3, <2>1 DEF Submit, MoveWorker, Pending, WorkerRecord
  <2>4. request'[s] = request[s] /\ Unstarted(s)' = Unstarted(s)
    BY <2>1 DEF Submit, Unstarted
  <2>5. CASE s = worker[w].story
    <3>1. w \in Pending(s)
      BY <2>1, <2>5 DEF Submit, WorkerAt, Pending
    <3>2. Generations(s)' <= Generations(s) + 1 /\ Generations(s)' \in Int
      BY <1>3, <2>1 DEF Submit, Generations, PageRecord
    <3>3. QED
      BY <1>2, <2>2, <2>3, <2>4, <3>1, <3>2, OneMoves
  <2>6. CASE s # worker[w].story
    <3>1. Generations(s)' = Generations(s)
      BY <1>3, <2>1, <2>6 DEF Submit, Generations
    <3>2. QED
      BY <1>2, <2>2, <2>3, <2>4, <3>1, OneMoves
  <2>7. QED
    BY <2>5, <2>6
<1>10. CASE \E w \in Workers : (WorkerStep(w) /\ ~Submit(w)) \/ ConnectionCloses(w) \/ Kill(w)
  <2>1. PICK w \in Workers : (WorkerStep(w) /\ ~Submit(w)) \/ ConnectionCloses(w) \/ Kill(w)
    BY <1>10
  <2>2. /\ \A q \in Workers \ {w} : worker'[q] = worker[q]
        /\ w \in Pending(s)' => w \in Pending(s)
        /\ UNCHANGED <<page, request, runner>>
    BY <2>1, QuietWorker
  <2>3. Generations(s)' = Generations(s) /\ Unstarted(s)' = Unstarted(s) /\ request'[s] = request[s]
    BY <2>2 DEF Generations, Unstarted
  <2>4. QED
    BY <1>2, <2>2, <2>3, OneMoves
<1>11. CASE \/ \E t \in Stories : Revisit(t)
            \/ Save \/ Report \/ SaveFails \/ ReportFails \/ RecordFailure \/ RecordFailureFails
  <2>1. UNCHANGED <<request, worker, page>> /\ runner'.pc \in {"idle", "saving", "reporting", "failing"}
    <3>1. CASE \E t \in Stories : Revisit(t)
      BY <3>1 DEF Revisit, Idle
    <3>2. CASE Save \/ SaveFails \/ ReportFails
      BY <1>3, <3>2 DEF Save, SaveFails, ReportFails, MoveRunner, RunnerRecord
    <3>3. CASE Report \/ RecordFailure \/ RecordFailureFails
      BY <3>3 DEF Report, RecordFailure, RecordFailureFails, Idle
    <3>4. QED
      BY <1>11, <3>1, <3>2, <3>3
  <2>2. Generations(s)' = Generations(s) /\ Pending(s)' = Pending(s) /\ Unstarted(s)' = 0
    BY <2>1 DEF Generations, Pending, Unstarted
  <2>3. QED
    BY <1>2, <2>1, <2>2
<1>12. QED
  BY <1>4, <1>5, <1>6, <1>7, <1>8, <1>9, <1>10, <1>11 DEF Next, RunnerStep, RunnerFails

LEMMA LedgerHolds == Spec => [](TypeInv /\ Ledger)
<1>1. Init => Ledger
  <2>1. SUFFICES ASSUME Init, NEW s \in Stories
                 PROVE /\ IsFiniteSet(Pending(s))
                       /\ Generations(s) + Cardinality(Pending(s)) + Unstarted(s) <= request[s]
    BY DEF Ledger
  <2>2. Pending(s) = {} /\ Generations(s) = 0 /\ Unstarted(s) = 0 /\ request[s] = 0
    BY <2>1 DEF Init, Pending, Generations, Unstarted, Off, Idle
  <2>3. QED
    BY <2>2, FS_EmptySet
<1>2. QED
  BY <1>1, LedgerStep, TypesHold, PTL DEF Spec

\* A story costs at most one generation per attempt, and one more per fault, however
\* retries, orphaned workers, a page that lags and reads that miss it interleave.
THEOREM GenerationBudget == Spec => []GenerationsWithinBudget
<1>1. TypeInv /\ Ledger => GenerationsWithinBudget
  <2>1. SUFFICES ASSUME TypeInv, Ledger, NEW s \in Stories
                 PROVE Generations(s) <= MaxRetries + faults
    BY DEF GenerationsWithinBudget
  <2>2. /\ Cardinality(Pending(s)) \in Nat /\ Unstarted(s) \in Nat
        /\ Generations(s) + Cardinality(Pending(s)) + Unstarted(s) <= request[s]
    BY <2>1, FS_CardinalityType DEF Ledger, Unstarted
  <2>2a. /\ request[s] \in Nat /\ stage[s].attempts \in 0..MaxRetries /\ page[s] \in PageRecord
         /\ faults \in Nat /\ MaxRetries \in Nat
    BY <2>1, Typed DEF StageRecord
  <2>2b. Generations(s) \in Nat
    BY <2>2a DEF Generations, PageRecord
  <2>3. request[s] <= stage[s].attempts + faults + Open(s)
    BY <2>1 DEF TypeInv, Counted
  <2>4. stage[s].attempts + Open(s) <= MaxRetries /\ Open(s) \in Nat
    BY <2>1, <2>2a DEF TypeInv, RunnerJob, CountedOnce, Open, Uncounted
  <2>5. QED
    BY <2>2, <2>2a, <2>2b, <2>3, <2>4
<1>2. QED
  BY <1>1, LedgerHolds, PTL

(***************************************************************************)
(* The contract of StageAttempts.  Leave to submit is in the hands of the  *)
(* runner, until its worker starts, and then of that worker, orphaned or   *)
(* not; it ends when the worker submits, finds a generation, or gives up.  *)
(***************************************************************************)

\* A runner that waits, waits for a worker that is there and works for its story.
Awaited ==
    runner.pc = "waiting" => /\ worker[runner.worker].pc # "off"
                             /\ worker[runner.worker].story = runner.story

\* A worker's own steps keep its story until it is off.
LEMMA WorkerKeepsStory ==
    ASSUME TypeInv, NEW w \in Workers, WorkerStep(w) \/ ConnectionCloses(w) \/ Kill(w)
    PROVE  /\ \A q \in Workers \ {w} : worker'[q] = worker[q]
           /\ UNCHANGED <<stage, runner>>
           /\ \/ OrphanExits(w)
              \/ worker'[w].story = worker[w].story /\ worker'[w].pc # "off"
<1>1. worker \in [Workers -> WorkerRecord]
  BY Typed
<1>2. UNCHANGED <<stage, runner>> /\ \A q \in Workers \ {w} : worker'[q] = worker[q]
  BY <1>1 DEF WorkerStep, DisconnectFails, ConnectionCloses, Kill, ReadRequest, Look, Submit,
     Confirm, GiveUp,
     PublishQueued, PublishError, Leave, OrphanExits, MoveWorker
<1>3. ASSUME NEW l \in WorkerPC \ {"off"}, MoveWorker(w, l)
      PROVE  worker'[w].story = worker[w].story /\ worker'[w].pc # "off"
  BY <1>1, <1>3 DEF MoveWorker, WorkerRecord
<1>4. CASE ReadRequest(w)
  BY <1>1, <1>2, <1>4 DEF ReadRequest, WorkerRecord
<1>5. QED
  BY <1>2, <1>3, <1>4 DEF WorkerStep, DisconnectFails, ConnectionCloses, Kill, Look, Submit,
     Confirm, GiveUp,
     PublishQueued, PublishError, Leave, WorkerPC

LEMMA AwaitedHolds == Spec => [](TypeInv /\ Awaited)
<1>1. Init => Awaited
  BY DEF Init, Awaited, Idle
<1>2. ASSUME TypeInv, Awaited, [Next]_vars PROVE Awaited'
  <2>1. worker \in [Workers -> WorkerRecord] /\ runner \in RunnerRecord
    BY <1>2, Typed
  <2>2. CASE \E w \in Workers : WorkerStep(w) \/ ConnectionCloses(w) \/ Kill(w)
    <3>1. PICK w \in Workers : WorkerStep(w) \/ ConnectionCloses(w) \/ Kill(w)
      BY <2>2
    <3>2. runner.pc = "waiting" => runner.worker \in Workers
      BY <1>2 DEF TypeInv, RunnerJob
    <3>3. /\ \A q \in Workers \ {w} : worker'[q] = worker[q]
          /\ runner' = runner
          /\ OrphanExits(w) \/ (worker'[w].story = worker[w].story /\ worker'[w].pc # "off")
      BY <1>2, <3>1, WorkerKeepsStory
    <3>4. CASE runner.worker = w
      BY <1>2, <3>3, <3>4 DEF Awaited, OrphanExits
    <3>5. CASE runner.worker # w
      BY <1>2, <3>2, <3>3, <3>5 DEF Awaited
    <3>6. QED
      BY <3>4, <3>5
  <2>3. CASE \E w \in Workers : StartWorker(w)
    BY <1>2, <2>1, <2>3 DEF StartWorker, Awaited, RunnerRecord
  <2>4. CASE \E s \in Stories : WriteRequest(s) \/ Revisit(s)
    <3>1. PICK s \in Stories : WriteRequest(s) \/ Revisit(s)
      BY <2>4
    <3>2. CASE WriteRequest(s)
      BY <3>2 DEF WriteRequest, BeginAttempt, Awaited
    <3>3. CASE Revisit(s)
      BY <3>3 DEF Revisit, Idle, Awaited
    <3>4. QED
      BY <3>1, <3>2, <3>3
  <2>5. CASE Ingest
    <3>1. PICK l \in {"saving", "failing"} : runner' = [runner EXCEPT !.pc = l, !.worker = NoWorker]
      BY <2>5 DEF Ingest
    <3>2. QED
      BY <2>1, <3>1 DEF Awaited, RunnerRecord
  <2>6. CASE Save \/ SaveFails \/ ReportFails
    BY <2>1, <2>6 DEF Save, SaveFails, ReportFails, MoveRunner, Awaited, RunnerRecord
  <2>7. CASE Report \/ RecordFailure \/ RecordFailureFails \/ Crash \/ Interrupt
    BY <2>7 DEF Report, RecordFailure, RecordFailureFails, Crash, Interrupt, Idle, Awaited
  <2>8. CASE UNCHANGED <<runner, worker>>
    BY <1>2, <2>8 DEF Awaited
  <2>9. QED
    BY <1>2, <2>2, <2>3, <2>4, <2>5, <2>6, <2>7, <2>8 DEF Next, RunnerStep, RunnerFails, vars,
       Notebook, Appear, Drop, Generate, Complete
<1>3. QED
  BY <1>1, <1>2, TypesHold, PTL DEF Spec

\* Types of what the contract speaks of.
LEMMA AccountTyped ==
    ASSUME TypeInv, Ledger, NEW s \in Stories
    PROVE  /\ IsFiniteSet(Pending(s)) /\ Cardinality(Pending(s)) \in Nat
           /\ Credit(s) \in Nat /\ Generations(s) \in Nat
           /\ stage[s] \in StageRecord /\ page[s] \in PageRecord
BY FS_CardinalityType, Typed DEF Ledger, Credit, Unstarted, Generations, PageRecord

\* Steps that change nothing the contract speaks of.
LEMMA AttemptsStutter ==
    ASSUME UNCHANGED <<stage, faults>>, Uncounted' = Uncounted,
           \A s \in Stories : Credit(s)' = Credit(s) /\ Generations(s)' = Generations(s)
    PROVE  UNCHANGED Attempts!avars
BY DEF Attempts!avars

\* A worker that had leave goes on without it, and nothing else changes.
LEMMA LeaveEnds ==
    ASSUME TypeInv, Ledger, NEW w \in Workers, UNCHANGED <<stage, runner>>,
           worker[w].pc \in {"starting", "looking", "submitting"},
           \A q \in Workers \ {w} : worker'[q] = worker[q],
           worker'[w].pc \notin {"starting", "looking", "submitting"}
    PROVE  /\ worker[w].story \in Stories /\ Credit(worker[w].story) > 0
           /\ \A s \in Stories :
                 Credit(s)' = IF s = worker[w].story THEN Credit(s) - 1 ELSE Credit(s)
<1>1. worker[w].story \in Stories
  BY DEF TypeInv, WorkerJob
<1>2. ASSUME NEW s \in Stories
      PROVE  /\ IsPending(w, s) = (IF s = worker[w].story THEN 1 ELSE 0) /\ IsPending(w, s)' = 0
             /\ w \in Pending(s) <=> s = worker[w].story
  BY DEF IsPending, Pending
<1>3. \A s \in Stories : Unstarted(s)' = Unstarted(s) /\ Unstarted(s) \in Nat
  BY DEF Unstarted
<1>4. ASSUME NEW s \in Stories
      PROVE  /\ Cardinality(Pending(s)) \in Nat /\ Cardinality(Pending(s)') \in Nat
             /\ Cardinality(Pending(s)') = Cardinality(Pending(s)) - IsPending(w, s)
             /\ s = worker[w].story => Cardinality(Pending(s)) > 0
  BY <1>2, PendingMoves, AccountTyped
<1>5. QED
  BY <1>1, <1>2, <1>3, <1>4 DEF Credit

\* A worker moves on and has leave afterwards exactly if it had it before.
LEMMA LeaveStays ==
    ASSUME TypeInv, Ledger, NEW w \in Workers, UNCHANGED runner,
           \A q \in Workers \ {w} : worker'[q] = worker[q],
           \A s \in Stories : w \in Pending(s)' <=> w \in Pending(s)
    PROVE  \A s \in Stories : Credit(s)' = Credit(s)
<1>1. \A s \in Stories : Pending(s)' = Pending(s)
  BY DEF Pending
<1>2. QED
  BY <1>1 DEF Credit, Unstarted

LEMMA WorkerKeepsAttempts ==
    ASSUME TypeInv, Ledger, NEW w \in Workers, WorkerStep(w) \/ ConnectionCloses(w) \/ Kill(w)
    PROVE  [Attempts!Next]_Attempts!avars
<1>1. /\ worker \in [Workers -> WorkerRecord] /\ page \in [Stories -> PageRecord]
      /\ UNCHANGED <<stage, runner>> /\ \A q \in Workers \ {w} : worker'[q] = worker[q]
  BY Typed, WorkerKeepsStory
<1>1a. Uncounted' = Uncounted
  BY <1>1 DEF Uncounted
<1> DEFINE Story == worker[w].story
<1>2. ASSUME worker[w].pc \in {"starting", "looking", "submitting"},
             worker'[w].pc \notin {"starting", "looking", "submitting"},
             UNCHANGED page, faults' \in {faults, faults + 1}
      PROVE  Attempts!Next
  <2>1. /\ Story \in Stories /\ Credit(Story) > 0
        /\ \A s \in Stories : Credit(s)' = IF s = Story THEN Credit(s) - 1 ELSE Credit(s)
    BY <1>1, <1>2, LeaveEnds
  <2>2. \A s \in Stories : Generations(s)' = Generations(s)
    BY <1>2 DEF Generations
  <2>3. Attempts!Forgo(Story)
    BY <2>1, <2>2 DEF Attempts!Forgo
  <2>4. Attempts!Work(Story)
    BY <1>1, <1>1a, <1>2, <2>3 DEF Attempts!Work
  <2>5. QED
    BY <2>1, <2>4 DEF Attempts!Next
<1>3. ASSUME \A s \in Stories : w \in Pending(s)' <=> w \in Pending(s), UNCHANGED page
      PROVE  /\ faults' = faults => UNCHANGED Attempts!avars
             /\ faults' = faults + 1 => Attempts!Suffer
  <2>1. \A s \in Stories : Credit(s)' = Credit(s) /\ Generations(s)' = Generations(s)
    BY <1>1, <1>3, LeaveStays DEF Generations
  <2>2. QED
    BY <1>1, <1>1a, <2>1, AttemptsStutter DEF Attempts!Suffer
<1>4. CASE Submit(w)
  <2>1. /\ worker[w].pc = "submitting" /\ worker'[w].pc = "confirming" /\ UNCHANGED faults
    BY <1>1, <1>4 DEF Submit, MoveWorker, WorkerAt, WorkerRecord
  <2>2. /\ Story \in Stories /\ Credit(Story) > 0
        /\ \A s \in Stories : Credit(s)' = IF s = Story THEN Credit(s) - 1 ELSE Credit(s)
    BY <1>1, <2>1, LeaveEnds
  <2>3. CASE UNCHANGED page
    BY <1>2, <2>1, <2>3
  <2>4. CASE page' # page
    <3>1. \A s \in Stories : Generations(s)' = IF s = Story THEN Generations(s) + 1 ELSE Generations(s)
      BY <1>1, <1>4, <2>4 DEF Submit, Generations, PageRecord
    <3>2. Attempts!Perform(Story)
      BY <2>2, <3>1 DEF Attempts!Perform
    <3>3. Attempts!Work(Story)
      BY <1>1, <1>1a, <2>1, <3>2 DEF Attempts!Work
    <3>4. QED
      BY <2>2, <3>3 DEF Attempts!Next
  <2>5. QED
    BY <2>3, <2>4
<1>5. CASE ReadRequest(w)
  <2>1. \A s \in Stories : w \in Pending(s)' <=> w \in Pending(s)
    BY <1>1, <1>5 DEF ReadRequest, WorkerAt, Pending, WorkerRecord
  <2>2. QED
    BY <1>3, <1>5, <2>1 DEF ReadRequest
<1>6. CASE Look(w)
  <2>1. CASE MoveWorker(w, "publishing")
    BY <1>1, <1>2, <1>6, <2>1 DEF Look, MoveWorker, WorkerAt, WorkerRecord
  <2>2. CASE MoveWorker(w, "submitting")
    <3>1. \A s \in Stories : w \in Pending(s)' <=> w \in Pending(s)
      BY <1>1, <1>6, <2>2 DEF Look, MoveWorker, WorkerAt, Pending, WorkerRecord
    <3>2. QED
      BY <1>3, <1>6, <3>1 DEF Look
  <2>3. QED
    BY <1>6, <2>1, <2>2 DEF Look
<1>7. ASSUME NEW l \in WorkerPC \ {"starting", "looking", "submitting"}, MoveWorker(w, l),
             UNCHANGED page, faults' \in {faults, faults + 1}
      PROVE  [Attempts!Next]_Attempts!avars
  <2>1. worker'[w].pc = l
    BY <1>1, <1>7 DEF MoveWorker, WorkerRecord
  <2>2. CASE worker[w].pc \in {"starting", "looking", "submitting"}
    BY <1>2, <1>7, <2>1, <2>2
  <2>3. CASE worker[w].pc \notin {"starting", "looking", "submitting"}
    <3>1. \A s \in Stories : w \in Pending(s)' <=> w \in Pending(s)
      BY <1>7, <2>1, <2>3 DEF Pending
    <3>2. QED
      BY <1>3, <1>7, <3>1 DEF Attempts!Next
  <2>4. QED
    BY <2>2, <2>3
<1>8. CASE OrphanExits(w)
  <2>1. \A s \in Stories : w \in Pending(s)' <=> w \in Pending(s)
    BY <1>1, <1>8 DEF OrphanExits, Pending, Off, WorkerRecord
  <2>2. QED
    BY <1>3, <1>8, <2>1 DEF OrphanExits
<1>9. CASE PublishError(w)
  <2>1. PICK l \in {"failed", "hanging"} : MoveWorker(w, l) /\ UNCHANGED <<page, faults>>
    BY <1>9 DEF PublishError
  <2>2. l \in WorkerPC \ {"starting", "looking", "submitting"}
    BY DEF WorkerPC
  <2>3. QED
    BY <1>7, <2>1, <2>2
<1>10. QED
  BY <1>4, <1>5, <1>6, <1>7, <1>8, <1>9 DEF WorkerStep, Confirm, GiveUp, PublishQueued,
     Leave, DisconnectFails, ConnectionCloses, Kill, Fault, WorkerPC

LEMMA NotebookKeepsAttempts ==
    ASSUME TypeInv, Ledger, DoneHasGeneration, DoneHasGeneration', NEW t \in Stories, Notebook(t)
    PROVE  [Attempts!Next]_Attempts!avars
<1>1. /\ page \in [Stories -> PageRecord]
      /\ UNCHANGED <<stage, request, receipt, runner, worker, faults>>
  BY Typed DEF Notebook, Appear, Drop, Generate, Complete
<1>2. (\A s \in Stories : Credit(s)' = Credit(s)) /\ Uncounted' = Uncounted
  BY <1>1 DEF Credit, Pending, Unstarted, Uncounted
<1>3. CASE Appear(t) \/ Generate(t) \/ Complete(t)
  <2>1. \A s \in Stories : Generations(s)' = Generations(s)
    BY <1>1, <1>3 DEF Appear, Generate, Complete, Generations, PageRecord
  <2>2. QED
    BY <1>1, <1>2, <2>1, AttemptsStutter
<1>4. CASE Drop(t)
  <2>1. \A s \in Stories : Generations(s)' = IF s = t THEN Generations(s) - 1 ELSE Generations(s)
    BY <1>1, <1>4 DEF Drop, Generations, PageRecord
  <2>2. Generations(t) > (IF stage[t].status = "done" THEN 1 ELSE 0)
    <3>1. page[t] \in PageRecord /\ page[t].sent > 0
      BY <1>1, <1>4 DEF Drop
    <3>2. stage[t].status = "done" => page[t].waiting + page[t].generating + page[t].ready > 0
      BY DEF DoneHasGeneration, Shown
    <3>3. QED
      BY <3>1, <3>2 DEF Generations, PageRecord
  <2>3. Attempts!Lose(t)
    <3>1. [s \in Stories |-> Generations(s)]' =
             [[s \in Stories |-> Generations(s)] EXCEPT ![t] = @ - 1]
      BY <2>1
    <3>2. [s \in Stories |-> Credit(s)]' = [s \in Stories |-> Credit(s)]
      BY <1>2
    <3>3. Generations(t) > (IF t \in {s \in Stories : stage[s].status = "done"} \cap Stories
                           THEN 1 ELSE 0)
      BY <2>2
    <3>4. QED
      BY <1>1, <1>2, <3>1, <3>2, <3>3 DEF Attempts!Lose
  <2>4. QED
    BY <2>3 DEF Attempts!Next
<1>5. QED
  BY <1>3, <1>4 DEF Notebook

\* What is under way, by what the runner has counted.
LEMMA UncountedIs ==
    ASSUME TypeInv
    PROVE  /\ Uncounted = IF runner.pc # "idle" /\ ~CountedOnce THEN {runner.story} ELSE {}
           /\ runner.pc # "idle" /\ ~CountedOnce => stage[runner.story].status # "done"
BY DEF TypeInv, RunnerJob, Uncounted, CountedOnce

\* The runner's steps that save nothing.
LEMMA RunnerMovesKeepAttempts ==
    ASSUME TypeInv, Ledger, Awaited,
           (\E s \in Stories : WriteRequest(s) \/ Revisit(s)) \/ (\E w \in Workers : StartWorker(w))
           \/ Ingest \/ Report \/ SaveFails \/ ReportFails
    PROVE  [Attempts!Next]_Attempts!avars
<1>1. /\ worker \in [Workers -> WorkerRecord] /\ stage \in [Stories -> StageRecord]
      /\ runner \in RunnerRecord /\ UNCHANGED <<page, stage>>
      /\ \A s \in Stories : Generations(s)' = Generations(s)
  BY Typed DEF WriteRequest, Revisit, StartWorker, Ingest, Report, SaveFails, ReportFails,
     Generations
<1>2. \A s \in Stories : /\ Cardinality(Pending(s)) \in Nat /\ IsFiniteSet(Pending(s))
                         /\ Credit(s) \in Nat
  BY AccountTyped
<1>3. CASE \E s \in Stories : WriteRequest(s)
  <2>1. PICK s \in Stories : WriteRequest(s)
    BY <1>3
  <2>2. /\ runner' = [pc |-> "written", story |-> s, worker |-> NoWorker,
                      attempts |-> stage[s].attempts + 1]
        /\ runner.pc = "idle" /\ UNCHANGED <<worker, faults>>
        /\ stage[s].status # "done" /\ stage[s].attempts < MaxRetries
    BY <2>1 DEF WriteRequest, BeginAttempt
  <2>3. \A t \in Stories : Credit(t)' = IF t = s THEN Credit(t) + 1 ELSE Credit(t)
    BY <1>2, <2>2 DEF Credit, Pending, Unstarted
  <2>4. [t \in Stories |-> Credit(t)]' = [[t \in Stories |-> Credit(t)] EXCEPT ![s] = @ + 1]
    BY <2>3
  <2>5. [t \in Stories |-> Generations(t)]' = [t \in Stories |-> Generations(t)]
    BY <1>1
  <2>6. Uncounted = {} /\ Uncounted' = {s}
    BY <1>1, <2>2 DEF Uncounted, StageRecord
  <2>7. Attempts!Begin(s)
    BY <1>1, <2>2, <2>4, <2>5, <2>6 DEF Attempts!Begin
  <2>8. QED
    BY <2>7 DEF Attempts!Next
<1>4. CASE \E s \in Stories : Revisit(s)
  <2>1. /\ runner.pc = "idle" /\ runner'.pc \in {"saving", "failing"} /\ UNCHANGED <<worker, faults>>
        /\ runner'.attempts = stage[runner'.story].attempts
    BY <1>4 DEF Revisit, Idle
  <2>2. Uncounted = {} /\ Uncounted' = {}
    BY <1>1, <2>1 DEF Uncounted
  <2>3. \A s \in Stories : Credit(s)' = Credit(s)
    BY <2>1 DEF Credit, Pending, Unstarted
  <2>4. QED
    BY <1>1, <2>1, <2>2, <2>3, AttemptsStutter
<1>5. CASE \E w \in Workers : StartWorker(w)
  <2>1. PICK w \in Workers : StartWorker(w)
    BY <1>5
  <2>2. /\ runner'.pc = "waiting" /\ runner'.story = runner.story /\ runner.pc = "written"
        /\ runner'.attempts = runner.attempts /\ UNCHANGED faults
    BY <1>1, <2>1 DEF StartWorker, RunnerRecord
  <2>3. ASSUME NEW s \in Stories PROVE Credit(s)' = Credit(s)
    <3>1. \A q \in Workers \ {w} : worker'[q] = worker[q]
      BY <1>1, <2>1 DEF StartWorker
    <3>2. IsPending(w, s) = 0 /\ IsPending(w, s)' = Unstarted(s) /\ Unstarted(s)' = 0
      BY <1>1, <2>1, <2>2 DEF StartWorker, WorkerAt, IsPending, Pending, Unstarted
    <3>3. Cardinality(Pending(s))' = Cardinality(Pending(s)) + Unstarted(s)
      BY <1>2, <3>1, <3>2, PendingMoves DEF Unstarted
    <3>4. QED
      BY <1>2, <3>2, <3>3 DEF Credit, Unstarted
  <2>4. Uncounted' = Uncounted
    BY <1>1, <2>2 DEF Uncounted
  <2>5. QED
    BY <1>1, <2>2, <2>3, <2>4, AttemptsStutter
<1>6. CASE Ingest
  <2>1. /\ runner.pc = "waiting" /\ worker[runner.worker].pc \in {"ok", "failed"}
        /\ worker' = [worker EXCEPT ![runner.worker] = Off] /\ UNCHANGED faults
    BY <1>6 DEF Ingest
  <2>2. PICK l \in {"saving", "failing"} : runner' = [runner EXCEPT !.pc = l, !.worker = NoWorker]
    BY <1>6 DEF Ingest
  <2>3. Uncounted' = Uncounted
    BY <1>1, <2>1, <2>2 DEF Uncounted, RunnerRecord
  <2>4. \A s \in Stories : Pending(s)' = Pending(s)
    BY <1>1, <2>1 DEF Pending, Off
  <2>5. \A s \in Stories : Unstarted(s) = 0 /\ Unstarted(s)' = 0
    BY <1>1, <2>1, <2>2 DEF Unstarted, RunnerRecord
  <2>6. QED
    BY <1>1, <2>1, <2>3, <2>4, <2>5, AttemptsStutter DEF Credit
<1>7. CASE Report
  <2>1. runner.pc = "reporting" /\ runner' = Idle /\ UNCHANGED <<worker, faults>> /\ CountedOnce
    BY <1>7 DEF Report, TypeInv, RunnerJob
  <2>2. Uncounted' = Uncounted
    BY <2>1 DEF Uncounted, CountedOnce, Idle
  <2>3. \A s \in Stories : Credit(s)' = Credit(s)
    BY <2>1 DEF Credit, Pending, Unstarted, Idle
  <2>4. QED
    BY <1>1, <2>1, <2>2, <2>3, AttemptsStutter
<1>8. CASE SaveFails \/ ReportFails
  <2>1. /\ runner.pc \in {"saving", "reporting"} /\ runner' = [runner EXCEPT !.pc = "failing"]
        /\ UNCHANGED worker /\ faults' = faults + 1
    BY <1>8 DEF SaveFails, ReportFails, MoveRunner, Fault
  <2>2. Uncounted' = Uncounted
    BY <1>1, <2>1 DEF Uncounted, RunnerRecord
  <2>3. \A s \in Stories : Credit(s)' = Credit(s)
    BY <1>1, <2>1 DEF Credit, Pending, Unstarted, RunnerRecord
  <2>4. Attempts!Suffer
    BY <1>1, <2>1, <2>2, <2>3 DEF Attempts!Suffer
  <2>5. QED
    BY <2>4 DEF Attempts!Next
<1>9. QED
  BY <1>3, <1>4, <1>5, <1>6, <1>7, <1>8

\* What is recorded: the end of an attempt, or once more what is on record, or the
\* failure of a save or of a report over a success.
LEMMA RecordsKeepAttempts ==
    ASSUME TypeInv, Ledger, DoneHasGeneration', Save \/ RecordFailure
    PROVE  [Attempts!Next]_Attempts!avars
<1>1. PICK x \in {"done", "failed"} :
         /\ Record(x) /\ runner.pc = (IF x = "done" THEN "saving" ELSE "failing")
         /\ IF x = "done" THEN runner' = [runner EXCEPT !.pc = "reporting"] ELSE runner' = Idle
  BY DEF Save, RecordFailure, MoveRunner
<1>2. /\ stage \in [Stories -> StageRecord] /\ runner \in RunnerRecord
      /\ UNCHANGED <<worker, page, faults>>
  BY Typed DEF Save, RecordFailure
<1>3. runner.pc # "idle" /\ runner.story \in Stories
  BY <1>1 DEF TypeInv, RunnerJob
<1>4. PICK i \in Stories : i = runner.story
  BY <1>3
<1>5. stage' = [stage EXCEPT ![i] = [status |-> x, attempts |-> runner.attempts]]
  BY <1>1, <1>4 DEF Record
<1>6. \A s \in Stories : Credit(s)' = Credit(s) /\ Generations(s)' = Generations(s)
  <2>1. \A s \in Stories : Unstarted(s) = 0 /\ Unstarted(s)' = 0
    BY <1>1, <1>2 DEF Unstarted, Idle, RunnerRecord
  <2>2. QED
    BY <1>2, <2>1 DEF Credit, Pending, Generations
<1>7. /\ [s \in Stories |-> Credit(s)]' = [s \in Stories |-> Credit(s)]
      /\ [s \in Stories |-> Generations(s)]' = [s \in Stories |-> Generations(s)]
  BY <1>6
<1>8. Uncounted' = {}
  BY <1>1, <1>2, <1>4, <1>5 DEF Uncounted, Idle, RunnerRecord
<1>9. {s \in Stories : stage'[s].status = "done"} =
         IF x = "done" THEN {s \in Stories : stage[s].status = "done"} \cup {i}
         ELSE {s \in Stories : stage[s].status = "done"} \ {i}
  BY <1>2, <1>5
<1>10. CASE ~CountedOnce
  <2>1. /\ Uncounted = {i} /\ stage[i].status # "done" /\ runner.attempts = stage[i].attempts + 1
    BY <1>3, <1>4, <1>10, UncountedIs DEF TypeInv, RunnerJob
  <2>2. [s \in Stories |-> stage[s].attempts]' =
           [[s \in Stories |-> stage[s].attempts] EXCEPT ![i] = @ + 1]
    BY <1>2, <1>5, <2>1
  <2>3. Attempts!End(i)
    BY <1>2, <1>7, <1>8, <2>1, <2>2 DEF Attempts!End
  <2>4. CASE x = "done"
    <3>1. Generations(i) > 0
      <4>1. Shown(i)
        BY <1>2, <1>5, <2>4 DEF DoneHasGeneration, Shown
      <4>2. page[i] \in PageRecord
        BY Typed
      <4>3. QED
        BY <4>1, <4>2 DEF Shown, Generations, PageRecord
    <3>2. Attempts!Succeed(i)
      BY <1>9, <2>3, <2>4, <3>1 DEF Attempts!Succeed
    <3>3. QED
      BY <2>1, <3>2 DEF Attempts!Next
  <2>5. CASE x = "failed"
    <3>1. {s \in Stories : stage'[s].status = "done"} = {s \in Stories : stage[s].status = "done"}
      BY <1>9, <2>1, <2>5
    <3>2. Attempts!Fail(i)
      BY <2>3, <3>1 DEF Attempts!Fail
    <3>3. QED
      BY <2>1, <3>2 DEF Attempts!Next
  <2>6. QED
    BY <2>4, <2>5
<1>11. CASE CountedOnce
  <2>1. Uncounted = {}
    BY <1>11, UncountedIs
  <2>2. [s \in Stories |-> stage[s].attempts]' = [s \in Stories |-> stage[s].attempts]
    BY <1>2, <1>4, <1>5, <1>11 DEF CountedOnce
  <2>3. CASE x = "failed" /\ stage[i].status = "done"
    <3>1. "save" \in Faults \/ "report" \in Faults
      BY <1>1, <1>4, <1>11, <2>3 DEF TypeInv, RunnerJob
    <3>2. Attempts!Undo(i)
      BY <1>2, <1>7, <1>8, <1>9, <2>1, <2>2, <2>3, <3>1 DEF Attempts!Undo
    <3>3. QED
      BY <3>2 DEF Attempts!Next
  <2>4. CASE x = "done" \/ stage[i].status # "done"
    <3>1. x = "done" => stage[i].status = "done"
      BY <1>1, <1>4, <1>11 DEF TypeInv, RunnerJob
    <3>2. {s \in Stories : stage'[s].status = "done"} = {s \in Stories : stage[s].status = "done"}
      BY <1>9, <2>4, <3>1
    <3>3. QED
      BY <1>2, <1>7, <1>8, <2>1, <2>2, <3>2 DEF Attempts!avars
  <2>5. QED
    BY <2>3, <2>4
<1>12. QED
  BY <1>10, <1>11

\* The runner ends without a record.
LEMMA LossesKeepAttempts ==
    ASSUME TypeInv, Ledger, Awaited, RecordFailureFails \/ Crash \/ Interrupt
    PROVE  [Attempts!Next]_Attempts!avars
<1>1. /\ worker \in [Workers -> WorkerRecord] /\ runner \in RunnerRecord
      /\ UNCHANGED <<page, stage>> /\ runner' = Idle /\ faults' = faults + 1 /\ runner.pc # "idle"
  BY Typed DEF RecordFailureFails, Crash, Interrupt, Fault
<1>2. \A s \in Stories : /\ Cardinality(Pending(s)) \in Nat /\ IsFiniteSet(Pending(s))
                         /\ Credit(s) \in Nat
  BY AccountTyped
<1>3. [s \in Stories |-> Generations(s)]' = [s \in Stories |-> Generations(s)]
  BY <1>1 DEF Generations
<1>4. /\ runner.story \in Stories /\ Uncounted' = {}
      /\ runner.pc = "waiting" <=> runner.worker \in Workers
      /\ runner.pc \in {"written", "waiting"} => ~CountedOnce
  BY <1>1 DEF TypeInv, RunnerJob, Uncounted, Idle
<1> DEFINE s == runner.story
           C == [t \in Stories |-> Credit(t)]
<1>5. runner.pc # "waiting" => \A t \in Stories : Pending(t)' = Pending(t)
  BY <1>1, <1>4 DEF RecordFailureFails, Crash, Interrupt, Pending
<1>6. \A t \in Stories : Unstarted(t)' = 0
  BY <1>1 DEF Unstarted, Idle
<1>7. \/ \A t \in Stories : Credit(t)' = Credit(t)
      \/ /\ Credit(s) > 0 /\ ~CountedOnce
         /\ \A t \in Stories : Credit(t)' = IF t = s THEN Credit(t) - 1 ELSE Credit(t)
  <2>1. CASE runner.pc = "written"
    <3>1. \A t \in Stories : Unstarted(t) = IF t = s THEN 1 ELSE 0
      BY <2>1 DEF Unstarted
    <3>2. QED
      BY <1>2, <1>4, <1>5, <1>6, <2>1, <3>1 DEF Credit
  <2>2. CASE runner.pc = "waiting"
    <3>1. \A t \in Stories : Unstarted(t) = 0
      BY <2>2 DEF Unstarted
    <3>2. PICK w \in Workers : w = runner.worker
      BY <1>4, <2>2
    <3>3. \A q \in Workers \ {w} : worker'[q] = worker[q]
      BY <1>1, <3>2 DEF RecordFailureFails, Crash, Interrupt
    <3>4. \A t \in Stories : w \in Pending(t) => t = s
      BY <2>2, <3>2 DEF Awaited, Pending
    <3>5. CASE \A t \in Stories : w \in Pending(t)' <=> w \in Pending(t)
      <4>1. \A t \in Stories : Pending(t)' = Pending(t)
        BY <3>3, <3>5 DEF Pending
      <4>2. QED
        BY <1>6, <3>1, <4>1 DEF Credit
    <3>6. CASE ~\A t \in Stories : w \in Pending(t)' <=> w \in Pending(t)
      <4>1. \A t \in Stories : w \notin Pending(t)'
        BY <1>1, <3>2, <3>6 DEF RecordFailureFails, Crash, Interrupt, Pending, Off
      <4>2. w \in Pending(s)
        BY <3>4, <3>6, <4>1
      <4>3. ASSUME NEW t \in Stories
            PROVE  /\ Cardinality(Pending(t))' =
                         IF t = s THEN Cardinality(Pending(t)) - 1 ELSE Cardinality(Pending(t))
                   /\ t = s => Cardinality(Pending(t)) > 0
        <5>1. IsPending(w, t) = (IF t = s THEN 1 ELSE 0) /\ IsPending(w, t)' = 0
          BY <3>4, <4>1, <4>2 DEF IsPending
        <5>2. QED
          BY <1>2, <3>3, <4>2, <5>1, PendingMoves
      <4>4. QED
        BY <1>2, <1>4, <1>6, <2>2, <3>1, <4>3 DEF Credit
    <3>7. QED
      BY <3>5, <3>6
  <2>3. CASE runner.pc \notin {"written", "waiting"}
    BY <1>5, <1>6, <2>3 DEF Credit, Unstarted
  <2>4. QED
    BY <2>1, <2>2, <2>3
<1>8. \/ C' = C
      \/ Credit(s) > 0 /\ ~CountedOnce /\ C' = [C EXCEPT ![s] = @ - 1]
  BY <1>4, <1>7
<1>9. CASE CountedOnce
  <2>1. C' = C /\ Uncounted = {}
    BY <1>8, <1>9, UncountedIs
  <2>2. Attempts!Suffer
    BY <1>1, <1>3, <1>4, <2>1 DEF Attempts!Suffer
  <2>3. QED
    BY <2>2 DEF Attempts!Next
<1>10. CASE ~CountedOnce
  <2>1. Uncounted = {s}
    BY <1>1, <1>10, UncountedIs
  <2>2. Attempts!Abandon(s)
    <3>1. CASE C' = C
      BY <1>1, <1>3, <1>4, <2>1, <3>1 DEF Attempts!Abandon
    <3>2. CASE Credit(s) > 0 /\ C' = [C EXCEPT ![s] = @ - 1]
      <4>1. Attempts!Forgo(s)
        BY <1>3, <1>4, <3>2 DEF Attempts!Forgo
      <4>2. QED
        BY <1>1, <1>3, <1>4, <2>1, <4>1 DEF Attempts!Abandon
    <3>3. QED
      BY <1>8, <3>1, <3>2
  <2>3. QED
    BY <2>1, <2>2 DEF Attempts!Next
<1>11. QED
  BY <1>9, <1>10

\* Generations are queued as StageAttempts allows: one attempt at a time, at most one
\* generation for each, whoever of runner, orphan and notebook moves when
\* (run_stage, main, clickGenerate).
THEOREM QueueKeepsAttempts == Spec => KeepsAttempts
<1>1. Init => Attempts!Init
  <2> SUFFICES ASSUME Init PROVE Attempts!Init
    OBVIOUS
  <2>1. \A s \in Stories : Pending(s) = {} /\ Unstarted(s) = 0 /\ Generations(s) = 0
    BY DEF Init, Pending, Unstarted, Generations, Off, Idle
  <2>2. \A s \in Stories : Credit(s) = 0
    BY <2>1, FS_EmptySet DEF Credit
  <2>3. QED
    BY <2>1, <2>2 DEF Init, Attempts!Init, Uncounted, Idle
<1>2. TypeInv /\ Ledger /\ Awaited /\ DoneHasGeneration /\ DoneHasGeneration' /\ [Next]_vars
        => [Attempts!Next]_Attempts!avars
  <2> SUFFICES ASSUME TypeInv, Ledger, Awaited, DoneHasGeneration, DoneHasGeneration', [Next]_vars
               PROVE  [Attempts!Next]_Attempts!avars
    OBVIOUS
  <2>1. CASE UNCHANGED vars
    <3>1. \A s \in Stories : Credit(s)' = Credit(s) /\ Generations(s)' = Generations(s)
      BY <2>1 DEF vars, Credit, Pending, Unstarted, Generations
    <3>2. Uncounted' = Uncounted
      BY <2>1 DEF vars, Uncounted
    <3>3. QED
      BY <2>1, <3>1, <3>2, AttemptsStutter DEF vars
  <2>2. QED
    BY <2>1, WorkerKeepsAttempts, NotebookKeepsAttempts, RunnerMovesKeepAttempts,
       RecordsKeepAttempts, LossesKeepAttempts DEF Next, RunnerStep, RunnerFails
<1>3. QED
  BY <1>1, <1>2, AwaitedHolds, LedgerHolds, DoneGenerates, PTL DEF Spec, KeepsAttempts,
     Attempts!Spec

\* Every generation of a story, and every one that may still come, is accounted for by
\* an attempt that was recorded or is under way, or by a fault; a queued story has one.
THEOREM GenerationsAccounted ==
    Spec => [](/\ \A s \in Stories : Generations(s) + Credit(s) <= stage[s].attempts + faults + Open(s)
               /\ \A s \in Stories : stage[s].status = "done" => Generations(s) > 0)
<1>1. MaxRetries \in Nat
  BY BudgetAssumption
<1>2. Attempts!Spec =>
         [](Attempts!WorkAccounted /\ Attempts!WorkWithinBudget /\ Attempts!DoneRestsOnWork)
  BY <1>1, Attempts!ContractAccounts
<1>3. TypeInv /\ Attempts!WorkAccounted /\ Attempts!DoneRestsOnWork =>
         /\ \A s \in Stories : Generations(s) + Credit(s) <= stage[s].attempts + faults + Open(s)
         /\ \A s \in Stories : stage[s].status = "done" => Generations(s) > 0
  <2>1. SUFFICES ASSUME TypeInv, Attempts!WorkAccounted, Attempts!DoneRestsOnWork, NEW s \in Stories
                 PROVE  /\ Generations(s) + Credit(s) <= stage[s].attempts + faults + Open(s)
                        /\ stage[s].status = "done" => Generations(s) > 0
    OBVIOUS
  <2>2. Attempts!Underway(s) = Open(s)
    BY <2>1 DEF Attempts!Underway, Open, Uncounted
  <2>3. QED
    BY <2>1, <2>2 DEF Attempts!WorkAccounted, Attempts!DoneRestsOnWork
<1>4. QED
  BY <1>2, <1>3, QueueKeepsAttempts, TypesHold, PTL DEF KeepsAttempts
===============================================================================
