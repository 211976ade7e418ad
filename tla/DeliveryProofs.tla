---------------------------- MODULE DeliveryProofs ----------------------------
(***************************************************************************)
(* Proofs about VideoProduction, for any number of stories, workers,       *)
(* videos and faults: its types, and what it delivers.  Receipts describe  *)
(* outputs, the runner works with the verified video, a story that is done *)
(* has a package of it, and all of this implements VerifiedDelivery.       *)
(***************************************************************************)
EXTENDS VideoProduction, TLAPS

(***************************************************************************)
(* Type correctness.  A worker that is not off has a story, and one that   *)
(* is about to publish has a video.                                        *)
(***************************************************************************)
WorkerJobs ==
    \A w \in Workers :
        /\ worker[w].pc # "off" => worker[w].story \in Stories
        /\ worker[w].pc \in {"linking", "reporting"} => worker[w].video \in Videos

WorkerRecord == [pc : WorkerPC, story : Stories \cup {NoStory}, video : MaybeVideo, try : 1..2]

\* Whatever a worker does, of its own and otherwise.
WorkerMove(w) == WorkerStep(w) \/ WorkerFault(w) \/ ConnectionCloses(w)

\* A worker's new record may take the place of its old one.
LEMMA WorkerUpdate ==
    ASSUME DownloadTypeOK, WorkerJobs, NEW w \in Workers, NEW r \in WorkerRecord,
           r.pc # "off" => r.story \in Stories,
           r.pc \in {"linking", "reporting"} => r.video \in Videos,
           worker' = [worker EXCEPT ![w] = r]
    PROVE  worker' \in [Workers -> WorkerRecord] /\ WorkerJobs'
<1>1. worker \in [Workers -> WorkerRecord]
  BY DEF DownloadTypeOK, WorkerRecord, MaybeVideo
<1>2. QED
  BY <1>1 DEF WorkerJobs

\* Moving a worker on gives such a record.
LEMMA MoveType ==
    ASSUME DownloadTypeOK, WorkerJobs, NEW w \in Workers, NEW l \in WorkerPC,
           MoveWorker(w, l), ~WorkerAt(w, "off"),
           l \in {"linking", "reporting"} => worker[w].video \in Videos
    PROVE  worker' \in [Workers -> WorkerRecord] /\ WorkerJobs'
<1> DEFINE r == [worker[w] EXCEPT !.pc = l]
<1>1. worker[w] \in WorkerRecord
  BY DEF DownloadTypeOK, WorkerRecord, MaybeVideo
<1>2. r \in WorkerRecord /\ r.pc = l /\ r.story \in Stories /\ r.video = worker[w].video
  BY <1>1 DEF WorkerRecord, WorkerJobs, WorkerAt
<1>3. worker' = [worker EXCEPT ![w] = r]
  BY DEF MoveWorker, DownloadTypeOK
<1> HIDE DEF r
<1>4. QED
  BY <1>2, <1>3, WorkerUpdate

\* The second attempt or the failure of a worker.
LEMMA RetryType ==
    ASSUME DownloadTypeOK, WorkerJobs, NEW w \in Workers, Retry(w), ~WorkerAt(w, "off")
    PROVE  worker' \in [Workers -> WorkerRecord] /\ WorkerJobs'
<1> DEFINE l == IF worker[w].try = 1 THEN "downloading" ELSE "quitting"
           r == [worker[w] EXCEPT !.pc = l, !.try = 2]
<1>1. worker[w] \in WorkerRecord /\ l \in {"downloading", "quitting"}
  BY DEF DownloadTypeOK, WorkerRecord, MaybeVideo
<1>2. worker' = [worker EXCEPT ![w].pc = l, ![w].try = 2]
  BY DEF Retry
<1> HIDE DEF l
<1>3. r \in WorkerRecord /\ r.pc = l /\ r.story \in Stories
  <2>1. worker[w].story \in Stories
    BY DEF WorkerJobs, WorkerAt
  <2>2. l \in WorkerPC /\ 2 \in 1..2
    BY <1>1 DEF WorkerPC
  <2>3. QED
    BY <1>1, <2>1, <2>2 DEF WorkerRecord
<1>4. worker' = [worker EXCEPT ![w] = r]
  <2>1. worker \in [Workers -> WorkerRecord]
    BY DEF DownloadTypeOK, WorkerRecord, MaybeVideo
  <2>2. [worker EXCEPT ![w].pc = l, ![w].try = 2] = [worker EXCEPT ![w] = r]
    BY <2>1 DEF WorkerRecord
  <2>3. QED
    BY <1>2, <2>2
<1> HIDE DEF r
<1>5. QED
  BY <1>1, <1>3, <1>4, WorkerUpdate

\* A path belongs to every worker that is at work.
LEMMA TargetType ==
    ASSUME DownloadTypeOK, WorkerJobs, NEW w \in Workers, ~WorkerAt(w, "off")
    PROVE  worker[w].story \in Stories /\ Target(w) \in Paths /\ Output(w) \in MaybeVideo
BY PathsAssumption DEF DownloadTypeOK, WorkerJobs, WorkerAt, Target, Output, MaybeVideo

\* The steps and faults of a worker keep the types of what workers share.
LEMMA WorkerType ==
    ASSUME DownloadTypeOK, WorkerJobs, NEW w \in Workers, WorkerMove(w)
    PROVE  DownloadTypeOK' /\ WorkerJobs'
<1> USE DEF WorkerPC
<1>1. SUFFICES /\ worker' \in [Workers -> WorkerRecord] /\ WorkerJobs'
               /\ output' \in [Paths -> MaybeVideo]
               /\ receipt' \in [Stories -> MaybeVideo]
               /\ faults' \in 0..MaxFaults
  BY DEF DownloadTypeOK, WorkerRecord, MaybeVideo
<1> USE DEF WorkerAt
<1>2. /\ output \in [Paths -> MaybeVideo] /\ receipt \in [Stories -> MaybeVideo]
      /\ faults \in 0..MaxFaults /\ faults \in Nat /\ MaxFaults \in Nat
  BY FaultsAssumption DEF DownloadTypeOK, MaybeVideo
<1>3. CASE ReadRequest(w)
  BY <1>2, <1>3, MoveType DEF ReadRequest
<1>4. CASE Pin(w)
  <2> DEFINE l == CASE Output(w) = NoVideo ->
                           IF WorkerAt(w, "looking") THEN "downloading" ELSE "quitting"
                    [] Output(w) \in Videos \ Expected[worker[w].story] ->
                           IF WorkerAt(w, "looking") THEN "failed" ELSE "quitting"
                    [] OTHER -> IF WorkerAt(w, "looking") THEN "comparing" ELSE "awaiting"
             r == [worker[w] EXCEPT !.video = Output(w), !.pc = l]
  <2>1. worker[w] \in WorkerRecord /\ ~WorkerAt(w, "off")
    BY <1>4 DEF DownloadTypeOK, WorkerRecord, MaybeVideo, Pin
  <2>2. l \in {"downloading", "quitting", "failed", "comparing", "awaiting"}
    OBVIOUS
  <2>3. worker' = [worker EXCEPT ![w] = r]
    BY <1>4, <2>1 DEF Pin, DownloadTypeOK, WorkerRecord
  <2> HIDE DEF l
  <2>4. r \in WorkerRecord /\ r.pc = l /\ r.story = worker[w].story
    BY <2>1, <2>2, TargetType DEF WorkerRecord
  <2> HIDE DEF r
  <2>5. QED
    BY <1>2, <1>4, <2>1, <2>2, <2>3, <2>4, TargetType, WorkerUpdate DEF Pin
<1>5. CASE Compare(w)
  BY <1>2, <1>5, MoveType DEF Compare
<1>6. CASE AwaitReceipt(w)
  BY <1>2, <1>6, MoveType DEF AwaitReceipt
<1>7. CASE GiveUp(w)
  BY <1>2, <1>7, MoveType DEF GiveUp
<1>8. CASE Download(w)
  <2>1. PICK v \in Expected[worker[w].story] :
            worker' = [worker EXCEPT ![w].video = v, ![w].pc = "linking"]
    BY <1>8 DEF Download
  <2> DEFINE r == [worker[w] EXCEPT !.video = v, !.pc = "linking"]
  <2>2. worker[w] \in WorkerRecord /\ worker[w].story \in Stories /\ v \in Videos
    BY <1>8, TargetType, VideosAssumption DEF Download, DownloadTypeOK, WorkerRecord, MaybeVideo
  <2>3. worker' = [worker EXCEPT ![w] = r]
    BY <2>1, <2>2 DEF DownloadTypeOK, WorkerRecord
  <2>4. r \in WorkerRecord /\ r.story = worker[w].story /\ r.video = v
    BY <2>2 DEF WorkerRecord, MaybeVideo
  <2> HIDE DEF r
  <2>5. QED
    BY <1>2, <1>8, <2>2, <2>3, <2>4, WorkerUpdate DEF Download
<1>9. CASE DownloadFails(w)
  BY <1>2, <1>9, RetryType, MoveType DEF DownloadFails
<1>10. CASE LinkOutput(w)
  <2>1. worker[w].video \in Videos /\ ~WorkerAt(w, "off")
    BY <1>10 DEF LinkOutput, WorkerJobs
  <2>2. output' \in [Paths -> MaybeVideo]
    BY <1>2, <1>10, <2>1, TargetType DEF LinkOutput, MaybeVideo
  <2>3. QED
    BY <1>2, <1>10, <2>1, <2>2, MoveType DEF LinkOutput
<1>11. CASE LinkReceipt(w)
  <2>1. worker[w].video \in Videos /\ ~WorkerAt(w, "off")
    BY <1>11 DEF LinkReceipt, WorkerJobs
  <2>2. receipt' \in [Stories -> MaybeVideo]
    BY <1>2, <1>11, <2>1 DEF LinkReceipt, Reported, MaybeVideo
  <2>3. QED
    BY <1>2, <1>11, <2>1, <2>2, MoveType DEF LinkReceipt
<1>12. CASE Leave(w)
  BY <1>2, <1>12, MoveType DEF Leave
<1>13. CASE OutputDiskError(w)
  <2>1. worker[w].video \in Videos /\ ~WorkerAt(w, "off")
    BY <1>13 DEF OutputDiskError, WorkerJobs
  <2>2. output' \in [Paths -> MaybeVideo]
    BY <1>2, <1>13, <2>1, TargetType DEF OutputDiskError, MaybeVideo
  <2>3. QED
    BY <1>2, <1>13, <2>1, <2>2, RetryType DEF OutputDiskError, Fault
<1>14. CASE ReceiptDiskError(w)
  <2>1. worker[w].video \in Videos /\ ~WorkerAt(w, "off")
    BY <1>14 DEF ReceiptDiskError, WorkerJobs
  <2>2. receipt' \in [Stories -> MaybeVideo]
    BY <1>2, <1>14, <2>1 DEF ReceiptDiskError, MaybeVideo
  <2>3. QED
    BY <1>2, <1>14, <2>1, <2>2, RetryType DEF ReceiptDiskError, Fault
<1>15. CASE DisconnectFails(w)
  BY <1>2, <1>15, MoveType DEF DisconnectFails
<1>16. CASE Kill(w)
  BY <1>2, <1>16, MoveType DEF Kill, Fault, Running
<1>17. CASE ConnectionCloses(w)
  BY <1>2, <1>17, MoveType DEF ConnectionCloses
<1>18. QED
  BY <1>3, <1>4, <1>5, <1>6, <1>7, <1>8, <1>9, <1>10, <1>11, <1>12, <1>13, <1>14, <1>15, <1>16,
     <1>17
     DEF WorkerMove, WorkerStep, WorkerFault

(***************************************************************************)
(* The runner has an attempt that is not on record yet, or one that is.    *)
(***************************************************************************)
RunnerRecord == [pc : RunnerPC, story : Stories \cup {NoStory},
                 worker : Workers \cup {"none"}, script : MaybeScript,
                 video : MaybeVideo, caption : MaybeScript, attempts : 0..MaxRetries]
StageRecord == [status : {"pending", "failed", "done"}, attempts : 0..MaxRetries]
PackageRecord == [video : MaybeVideo, caption : MaybeScript, complete : BOOLEAN]
FinalRecord == [video : MaybeVideo, cut : Media]
StrayRecord == [story : Stories, script : MaybeScript]

CountedOnce == runner.attempts = stage[Story].attempts
LateFaults == "save" \in Faults \/ "report" \in Faults

\* Only the last steps of an invocation find its attempt counted, or are taken for a
\* story that was done or spent; only a late failure is recorded over a success.
AttemptOpen == ~At("idle") =>
    /\ Story \in Stories
    /\ CountedOnce \/ (/\ stage[Story].status # "done" /\ stage[Story].attempts < MaxRetries
                       /\ runner.attempts = stage[Story].attempts + 1)
    /\ runner.pc \notin {"saving", "reporting", "failing"} => ~CountedOnce
    /\ At("saving") /\ CountedOnce => stage[Story].status = "done"
    /\ At("reporting") => CountedOnce
    /\ At("failing") /\ CountedOnce /\ stage[Story].status = "done" => LateFaults
RunnerType == runner \in RunnerRecord /\ AttemptOpen
RecordType == stage \in [Stories -> StageRecord] /\ script \in [Stories -> MaybeScript]
HandoffType == copy \in [Stories -> MaybeVideo] /\ handoff \in [Stories -> MaybeVideo]
ProductType ==
    /\ final \in [Stories -> FinalRecord]
    /\ caption \in [Stories -> MaybeScript]
    /\ package \in [Stories -> PackageRecord]
HistoryType ==
    /\ strays \subseteq StrayRecord
    /\ cleared \subseteq Paths
TypeInv == /\ DownloadTypeOK /\ WorkerJobs
           /\ RunnerType /\ RecordType /\ HandoffType /\ ProductType /\ HistoryType

\* The parts together are the type invariant.
LEMMA TypeInvImplies == TypeInv => TypeOK
BY DEF TypeInv, TypeOK, RunnerType, AttemptOpen, RecordType, HandoffType, ProductType, HistoryType,
       RunnerRecord, StageRecord, PackageRecord, FinalRecord, StrayRecord

\* Every variable starts with its type.
LEMMA TypeInit == Init => TypeInv
<1> SUFFICES ASSUME Init PROVE TypeInv
  OBVIOUS
<1>1. DownloadTypeOK /\ WorkerJobs
  BY FaultsAssumption DEF Init, DownloadInit, DownloadTypeOK, WorkerJobs, Off, WorkerPC
<1>2. RunnerType /\ RecordType
  BY RetriesAssumption DEF Init, Idle, RunnerType, RunnerRecord, AttemptOpen, At, RunnerPC,
     MaybeScript, MaybeVideo, RecordType, StageRecord
<1>3. HandoffType /\ ProductType /\ HistoryType
  BY MediaAssumption DEF Init, HandoffType, ProductType, HistoryType, NoFinal, NoPackage,
     FinalRecord, PackageRecord, MaybeVideo, MaybeScript
<1>4. QED
  BY <1>1, <1>2, <1>3 DEF TypeInv

\* An idle runner has a type.
LEMMA IdleType == Idle \in RunnerRecord /\ Idle.pc = "idle"
BY RetriesAssumption DEF Idle, RunnerRecord, RunnerPC, MaybeScript, MaybeVideo

\* Going on keeps the runner's type and its attempt, which is not on record yet
\* unless a late failure is about to be.
LEMMA Continued ==
    ASSUME RunnerType, ~At("idle"), UNCHANGED stage, runner' \in RunnerRecord,
           runner'.story = runner.story, runner'.attempts = runner.attempts,
           runner'.pc \notin {"idle", "reporting"},
           ~CountedOnce \/ (runner'.pc = "failing" /\ LateFaults)
    PROVE  RunnerType'
BY DEF RunnerType, AttemptOpen, CountedOnce, At, Story, LateFaults

\* The same for a step that only moves the label.
LEMMA GotoType ==
    ASSUME RunnerType, NEW l \in RunnerPC, Goto(l), ~At("idle"), UNCHANGED stage,
           l \notin {"idle", "reporting"},
           ~CountedOnce \/ (l = "failing" /\ LateFaults)
    PROVE  RunnerType'
<1>1. /\ runner' \in RunnerRecord /\ runner'.pc = l
      /\ runner'.story = runner.story /\ runner'.attempts = runner.attempts
  BY DEF RunnerType, RunnerRecord, Goto
<1>2. QED
  BY <1>1, Continued

\* Before the end of the invocation its attempt is not on record.
LEMMA NotYetCounted ==
    ASSUME RunnerType, runner.pc \notin {"idle", "saving", "reporting", "failing"}
    PROVE  ~CountedOnce /\ ~At("idle")
BY DEF RunnerType, AttemptOpen, At

\* Recording the outcome counts the attempt, if it was not counted before.
LEMMA RecordedType ==
    ASSUME RunnerType, RecordType, NEW status \in {"failed", "done"}, ~At("idle"), SaveRecord(status)
    PROVE  /\ RecordType' /\ Story \in Stories
           /\ stage' = [stage EXCEPT ![Story] = [status |-> status, attempts |-> runner.attempts]]
           /\ stage'[Story].attempts = runner.attempts /\ stage'[Story].status = status
<1> DEFINE r == [status |-> status, attempts |-> runner.attempts]
<1>1. Story \in Stories /\ runner.attempts \in 0..MaxRetries
  BY DEF RunnerType, RunnerRecord, AttemptOpen
<1>2. r \in StageRecord
  BY <1>1 DEF StageRecord
<1>3. stage' = [stage EXCEPT ![Story] = r]
  BY DEF SaveRecord
<1>4. r.status = status /\ r.attempts = runner.attempts
  OBVIOUS
<1> HIDE DEF r
<1>5. stage' \in [Stories -> StageRecord] /\ stage'[Story] = r
  BY <1>1, <1>2, <1>3 DEF RecordType
<1>6. script' \in [Stories -> MaybeScript]
  BY <1>1 DEF SaveRecord, SavedScript, RecordType, RunnerType, RunnerRecord
<1>7. QED
  BY <1>1, <1>3, <1>4, <1>5, <1>6 DEF RecordType, r

\* A load starts a new memory.
LEMMA Loaded ==
    ASSUME TypeInv, NEW s \in Stories, NEW l \in RunnerPC, NEW n \in 0..MaxRetries, Load(s, l, n)
    PROVE  /\ runner' \in RunnerRecord
           /\ runner'.pc = l /\ runner'.story = s /\ runner'.attempts = n
<1>1. script[s] \in MaybeScript
  BY DEF TypeInv, RecordType
<1>2. QED
  BY <1>1, IdleType DEF Load, RunnerRecord, Idle

\* What is left alone keeps its type.
LEMMA Untouched ==
    ASSUME TypeInv
    PROVE  /\ UNCHANGED dvars => DownloadTypeOK' /\ WorkerJobs'
           /\ UNCHANGED <<stage, script>> => RecordType'
           /\ UNCHANGED <<copy, handoff>> => HandoffType'
           /\ UNCHANGED <<final, caption, package>> => ProductType'
           /\ UNCHANGED <<strays, cleared>> => HistoryType'
           /\ UNCHANGED <<runner, stage>> => RunnerType'
<1>1. UNCHANGED dvars => DownloadTypeOK' /\ WorkerJobs'
  BY DEF TypeInv, DownloadTypeOK, WorkerJobs, dvars
<1>2. /\ UNCHANGED <<stage, script>> => RecordType'
      /\ UNCHANGED <<copy, handoff>> => HandoffType'
      /\ UNCHANGED <<final, caption, package>> => ProductType'
      /\ UNCHANGED <<strays, cleared>> => HistoryType'
  BY DEF TypeInv, RecordType, HandoffType, ProductType, HistoryType
<1>3. UNCHANGED <<runner, stage>> => RunnerType'
  BY DEF TypeInv, RunnerType, AttemptOpen, At, Story, CountedOnce, LateFaults
<1>4. QED
  BY <1>1, <1>2, <1>3

\* A worker of the runner is started or dismissed.
LEMMA WorkerCall ==
    ASSUME TypeInv, NEW w \in Workers,
           \/ /\ worker' = [worker EXCEPT ![w] = [Off EXCEPT !.pc = "starting", !.story = Story]]
              /\ Story \in Stories
           \/ worker' = [worker EXCEPT ![w] = Off],
           UNCHANGED <<output, receipt, faults>>
    PROVE  DownloadTypeOK' /\ WorkerJobs'
<1> DEFINE r == [Off EXCEPT !.pc = "starting", !.story = Story]
<1>1. Off \in WorkerRecord /\ Off.pc = "off"
  BY DEF Off, WorkerRecord, WorkerPC, MaybeVideo
<1>2. Story \in Stories => r \in WorkerRecord /\ r.pc = "starting" /\ r.story \in Stories
  BY <1>1 DEF WorkerRecord, WorkerPC
<1> HIDE DEF r
<1>3. worker' \in [Workers -> WorkerRecord] /\ WorkerJobs'
  BY <1>1, <1>2, WorkerUpdate DEF TypeInv, r
<1>4. QED
  BY <1>3 DEF TypeInv, DownloadTypeOK, WorkerRecord, MaybeVideo

\* The steps of the runner keep the types.
LEMMA RunnerStepType ==
    ASSUME TypeInv, RunnerStep
    PROVE  TypeInv'
<1> SUFFICES /\ DownloadTypeOK' /\ WorkerJobs' /\ RunnerType' /\ RecordType'
             /\ HandoffType' /\ ProductType' /\ HistoryType'
  BY DEF TypeInv
<1>1. /\ RunnerType /\ RecordType /\ HandoffType /\ ProductType /\ DownloadTypeOK /\ WorkerJobs
      /\ ~At("idle") => Story \in Stories
  BY DEF TypeInv, RunnerType, AttemptOpen
<1>2. /\ runner.video \in MaybeVideo /\ runner.script \in MaybeScript
      /\ runner.caption \in MaybeScript /\ runner.pc \in RunnerPC
  BY <1>1 DEF RunnerType, RunnerRecord
<1> USE DEF At
<1>4. ASSUME NEW w \in Workers, StartWorker(w)
      PROVE  DownloadTypeOK' /\ WorkerJobs' /\ RunnerType' /\ RecordType'
             /\ HandoffType' /\ ProductType' /\ HistoryType'
  <2>1. RunnerType'
    BY <1>1, <1>4, NotYetCounted, Continued DEF StartWorker, RunnerType, RunnerRecord, RunnerPC
  <2>2. QED
    BY <1>1, <1>4, <2>1, Untouched, WorkerCall DEF StartWorker
<1>5. ASSUME NEW w \in Workers, WorkerSucceeds(w)
      PROVE  DownloadTypeOK' /\ WorkerJobs' /\ RunnerType' /\ RecordType'
             /\ HandoffType' /\ ProductType' /\ HistoryType'
  <2>1. RunnerType'
    BY <1>1, <1>5, NotYetCounted, Continued
       DEF WorkerSucceeds, Awaited, RunnerType, RunnerRecord, RunnerPC
  <2>2. QED
    BY <1>1, <1>5, <2>1, Untouched, WorkerCall DEF WorkerSucceeds
<1>6. ASSUME NEW w \in Workers, WorkerFails(w)
      PROVE  DownloadTypeOK' /\ WorkerJobs' /\ RunnerType' /\ RecordType'
             /\ HandoffType' /\ ProductType' /\ HistoryType'
  <2>1. RunnerType'
    BY <1>1, <1>6, NotYetCounted, Continued
       DEF WorkerFails, Awaited, RunnerType, RunnerRecord, RunnerPC
  <2>2. QED
    BY <1>1, <1>6, <2>1, Untouched, WorkerCall DEF WorkerFails
<1>8. CASE VerifyArtifact
  <2>1. receipt[Story] \in MaybeVideo
    BY <1>1, <1>8 DEF VerifyArtifact, DownloadTypeOK, MaybeVideo
  <2>2. RunnerType'
    BY <1>1, <1>8, <2>1, NotYetCounted, Continued
       DEF VerifyArtifact, RunnerType, RunnerRecord, RunnerPC
  <2>3. QED
    BY <1>8, <2>2, Untouched DEF VerifyArtifact, dvars
<1>9. CASE CopyArtifact
  <2>1. HandoffType'
    BY <1>1, <1>2, <1>9 DEF CopyArtifact, HandoffType
  <2>2. QED
    BY <1>1, <1>9, <2>1, Untouched, NotYetCounted, GotoType DEF CopyArtifact, dvars, RunnerPC
<1>10. CASE RecordHandoff
  <2>1. HandoffType'
    BY <1>1, <1>2, <1>10 DEF RecordHandoff, HandoffType
  <2>2. QED
    BY <1>1, <1>10, <2>1, Untouched, NotYetCounted, GotoType DEF RecordHandoff, dvars, RunnerPC
<1>11. CASE AppendOutro
  <2>1. PICK cut \in Cuts : final' = [final EXCEPT ![Story] = [video |-> copy[Story], cut |-> cut]]
    BY <1>11 DEF AppendOutro
  <2>2. [video |-> copy[Story], cut |-> cut] \in FinalRecord
    BY <1>1, <1>11, MediaAssumption DEF FinalRecord, HandoffType, AppendOutro
  <2>3. ProductType'
    BY <1>1, <1>11, <2>1, <2>2 DEF AppendOutro, ProductType
  <2>4. QED
    BY <1>1, <1>11, <2>3, Untouched, NotYetCounted, GotoType DEF AppendOutro, dvars, RunnerPC
<1>12. CASE RequestCaption
  BY <1>1, <1>12, Untouched, NotYetCounted, GotoType DEF RequestCaption, dvars, RunnerPC
<1>13. CASE GenerateCaption
  <2>1. ProductType'
    BY <1>1, <1>2, <1>13 DEF GenerateCaption, ProductType
  <2>2. QED
    BY <1>1, <1>13, <2>1, Untouched, NotYetCounted, GotoType DEF GenerateCaption, dvars, RunnerPC
<1>14. CASE ReadCaption
  <2>1. caption[Story] \in MaybeScript
    BY <1>1, <1>14 DEF ReadCaption, ProductType
  <2>2. RunnerType'
    BY <1>1, <1>14, <2>1, NotYetCounted, Continued
       DEF ReadCaption, RunnerType, RunnerRecord, RunnerPC
  <2>3. QED
    BY <1>14, <2>2, Untouched DEF ReadCaption, dvars
<1>15. CASE BeginPackage
  <2>1. NoPackage \in PackageRecord
    BY DEF NoPackage, PackageRecord, MaybeVideo, MaybeScript
  <2>2. ProductType'
    BY <1>1, <1>15, <2>1 DEF BeginPackage, ProductType
  <2>3. QED
    BY <1>1, <1>15, <2>2, Untouched, NotYetCounted, GotoType DEF BeginPackage, dvars, RunnerPC,
       NextToPackage
<1>16. CASE FinishPackage
  <2>1. final[Story].video \in MaybeVideo
    BY <1>1, <1>16 DEF FinishPackage, ProductType, FinalRecord
  <2>2. [video |-> final[Story].video, caption |-> runner.caption, complete |-> TRUE] \in PackageRecord
    BY <1>2, <2>1 DEF PackageRecord
  <2>3. ProductType'
    BY <1>1, <1>16, <2>2 DEF FinishPackage, ProductType
  <2>4. QED
    BY <1>1, <1>16, <2>3, Untouched, NotYetCounted, GotoType DEF FinishPackage, dvars, RunnerPC
<1>17. CASE MarkDone
  BY <1>1, <1>17, Untouched, NotYetCounted, GotoType DEF MarkDone, dvars, RunnerPC
<1>18. CASE AttemptFails
  BY <1>1, <1>18, Untouched, NotYetCounted, GotoType DEF AttemptFails, dvars, RunnerPC
<1>19. CASE SaveDone
  <2>1. /\ RecordType' /\ Story \in Stories
        /\ stage'[Story].attempts = runner.attempts
    BY <1>1, <1>19, RecordedType DEF SaveDone
  <2>2. runner' \in RunnerRecord /\ runner' = [runner EXCEPT !.pc = "reporting"]
    BY <1>1, <1>19 DEF SaveDone, Goto, RunnerType, RunnerRecord, RunnerPC
  <2>3. runner'.pc = "reporting" /\ runner'.story = runner.story /\ runner'.attempts = runner.attempts
    BY <1>1, <2>2 DEF RunnerType, RunnerRecord
  <2>4. RunnerType'
    BY <2>1, <2>2, <2>3 DEF RunnerType, AttemptOpen, CountedOnce, Story
  <2>5. QED
    BY <1>19, <2>1, <2>4, Untouched DEF SaveDone, dvars
<1>20. CASE Report
  BY <1>20, IdleType, Untouched DEF Report, RunnerType, AttemptOpen, dvars
<1>21. CASE SaveFailure
  <2>1. RecordType'
    BY <1>1, <1>21, RecordedType DEF SaveFailure
  <2>2. RunnerType'
    BY <1>21, IdleType DEF SaveFailure, RunnerType, AttemptOpen
  <2>3. QED
    BY <1>21, <2>1, <2>2, Untouched DEF SaveFailure, dvars
<1>22. QED
  BY <1>4, <1>5, <1>6, <1>8, <1>9, <1>10, <1>11, <1>12, <1>13, <1>14, <1>15, <1>16,
     <1>17, <1>18, <1>19, <1>20, <1>21 DEF RunnerStep

\* An invocation starts its attempt, or finds that it has none.
LEMMA InvocationType ==
    ASSUME TypeInv, NEW s \in Stories, BeginAttempt(s) \/ Revisit(s)
    PROVE  TypeInv'
<1>1. stage[s] \in StageRecord
  BY DEF TypeInv, RecordType
<1>2. stage[s].attempts \in 0..MaxRetries
  BY <1>1 DEF StageRecord
<1>3. RunnerType'
  <2>1. CASE BeginAttempt(s)
    <3>1. stage[s].attempts < MaxRetries /\ stage[s].status # "done" /\ UNCHANGED stage
      BY <2>1 DEF BeginAttempt, MayAttempt
    <3>2. PICK n \in 0..MaxRetries : n = stage[s].attempts + 1
      BY <1>2, <3>1, RetriesAssumption
    <3>3. Load(s, "requesting", n)
      BY <2>1, <3>2 DEF BeginAttempt
    <3>4. /\ runner' \in RunnerRecord
          /\ runner'.pc = "requesting" /\ runner'.story = s /\ runner'.attempts = n
      BY <3>3, Loaded DEF RunnerPC
    <3>5. QED
      BY <1>2, <3>1, <3>2, <3>4 DEF RunnerType, AttemptOpen, CountedOnce, Story, At
  <2>2. CASE Revisit(s)
    <3>1. UNCHANGED stage
      BY <2>2 DEF Revisit
    <3>2. PICK n \in 0..MaxRetries : n = stage[s].attempts
      BY <1>2
    <3>3. PICK l \in {"saving", "failing"} :
              /\ l = "saving" <=> stage[s].status = "done"
              /\ Load(s, l, n)
      BY <2>2, <3>2 DEF Revisit
    <3>4. /\ runner' \in RunnerRecord
          /\ runner'.pc = l /\ runner'.story = s /\ runner'.attempts = n
      BY <3>3, Loaded DEF RunnerPC
    <3>5. QED
      BY <3>1, <3>2, <3>3, <3>4 DEF RunnerType, AttemptOpen, CountedOnce, Story, At
  <2>3. QED
    BY <2>1, <2>2
<1>4. QED
  BY <1>3, Untouched DEF BeginAttempt, Revisit, TypeInv, dvars

\* The steps of everybody else keep the types.
LEMMA OtherStepType ==
    ASSUME TypeInv, Environment \/ \E w \in Workers : OwnStep(w)
    PROVE  TypeInv'
<1> SUFFICES /\ DownloadTypeOK' /\ WorkerJobs' /\ RunnerType' /\ RecordType'
             /\ HandoffType' /\ ProductType' /\ HistoryType'
  BY DEF TypeInv
<1>1. /\ RunnerType /\ RecordType /\ HandoffType /\ ProductType /\ HistoryType
      /\ DownloadTypeOK /\ WorkerJobs /\ (~At("idle") => Story \in Stories)
  BY DEF TypeInv, RunnerType, AttemptOpen
<1>2. ASSUME NEW w \in Workers, WorkerMove(w), UNCHANGED pvars
      PROVE  /\ DownloadTypeOK' /\ WorkerJobs' /\ RunnerType' /\ RecordType'
             /\ HandoffType' /\ ProductType' /\ HistoryType'
  BY <1>1, <1>2, WorkerType, Untouched DEF pvars
<1>3. ASSUME NEW w \in Workers, OrphanExits(w)
      PROVE  /\ DownloadTypeOK' /\ WorkerJobs' /\ RunnerType' /\ RecordType'
             /\ HandoffType' /\ ProductType' /\ HistoryType'
  BY <1>3, WorkerCall, Untouched DEF OrphanExits, pvars
<1>4. ASSUME NEW kind, Fault(kind)
      PROVE  faults' \in 0..MaxFaults
  BY <1>1, <1>4, FaultsAssumption DEF Fault, DownloadTypeOK
<1>5. CASE Crash
  <2>1. HistoryType'
    <3>1. Story \in Stories /\ runner.script \in MaybeScript
      BY <1>1, <1>5 DEF Crash, RunnerType, RunnerRecord
    <3>2. [story |-> Story, script |-> runner.script] \in StrayRecord
      BY <3>1 DEF StrayRecord
    <3>3. QED
      BY <1>1, <1>5, <3>2 DEF Crash, HistoryType
  <2>2. RunnerType'
    BY <1>5, IdleType DEF Crash, RunnerType, AttemptOpen, At
  <2>3. DownloadTypeOK' /\ WorkerJobs'
    BY <1>1, <1>4, <1>5 DEF Crash, DownloadTypeOK, WorkerJobs
  <2>4. QED
    BY <1>5, <2>1, <2>2, <2>3, Untouched DEF Crash
<1>6. CASE GenerateNothing \/ LateFailure \/ SaveFailureFails
  <2>1. DownloadTypeOK' /\ WorkerJobs'
    <3>1. faults' \in 0..MaxFaults
      BY <1>4, <1>6 DEF GenerateNothing, LateFailure, SaveFailureFails
    <3>2. QED
      BY <1>1, <1>6, <3>1 DEF GenerateNothing, LateFailure, SaveFailureFails, DownloadTypeOK,
         WorkerJobs
  <2>2. RunnerType'
    <3>1. CASE GenerateNothing
      BY <1>1, <3>1, NotYetCounted, GotoType DEF GenerateNothing, RunnerPC, At
    <3>2. CASE LateFailure
      BY <1>1, <3>2, GotoType DEF LateFailure, LateFaults, Fault, RunnerPC, At
    <3>3. CASE SaveFailureFails
      BY <3>3, IdleType DEF SaveFailureFails, RunnerType, AttemptOpen, At
    <3>4. QED
      BY <1>6, <3>1, <3>2, <3>3
  <2>3. QED
    BY <1>6, <2>1, <2>2, Untouched DEF GenerateNothing, LateFailure, SaveFailureFails
<1>7. ASSUME NEW c \in strays, LateCaption(c)
      PROVE  /\ DownloadTypeOK' /\ WorkerJobs' /\ RunnerType' /\ RecordType'
             /\ HandoffType' /\ ProductType' /\ HistoryType'
  <2>1. c \in StrayRecord
    BY <1>1 DEF HistoryType
  <2>2. c.story \in Stories /\ c.script \in MaybeScript
    BY <2>1 DEF StrayRecord
  <2>3. HistoryType'
    BY <1>1, <1>7 DEF LateCaption, HistoryType
  <2>4. ProductType'
    BY <1>1, <1>7, <2>2 DEF LateCaption, ProductType
  <2>5. QED
    BY <1>7, <2>3, <2>4, Untouched DEF LateCaption, dvars
<1>8. ASSUME NEW s \in Stories, WriteScript(s)
      PROVE  /\ DownloadTypeOK' /\ WorkerJobs' /\ RunnerType' /\ RecordType'
             /\ HandoffType' /\ ProductType' /\ HistoryType'
  <2>1. RecordType'
    BY <1>1, <1>8 DEF WriteScript, RecordType, MaybeScript
  <2>2. QED
    BY <1>8, <2>1, Untouched DEF WriteScript, dvars
<1>9. ASSUME NEW s \in Stories, ClearDownload(s)
      PROVE  /\ DownloadTypeOK' /\ WorkerJobs' /\ RunnerType' /\ RecordType'
             /\ HandoffType' /\ ProductType' /\ HistoryType'
  <2>1. OutputOf[s] \in Paths
    BY PathsAssumption
  <2>2. DownloadTypeOK' /\ WorkerJobs'
    BY <1>1, <1>4, <1>9, <2>1 DEF ClearDownload, DownloadTypeOK, WorkerJobs
  <2>3. HistoryType'
    BY <1>1, <1>9, <2>1 DEF ClearDownload, HistoryType
  <2>4. QED
    BY <1>9, <2>2, <2>3, Untouched DEF ClearDownload
<1>10. QED
  BY <1>2, <1>3, <1>5, <1>6, <1>7, <1>8, <1>9 DEF Environment, OwnStep, WorkerMove

\* The types are an invariant.
LEMMA TypesHold == Spec => []TypeInv
<1>1. TypeInv /\ [Next]_vars => TypeInv'
  <2> SUFFICES ASSUME TypeInv, [Next]_vars PROVE TypeInv'
    OBVIOUS
  <2>1. CASE UNCHANGED vars
    BY <2>1, Untouched DEF vars, pvars, TypeInv
  <2>2. QED
    BY <2>1, RunnerStepType, InvocationType, OtherStepType DEF Next
<1>2. QED
  BY <1>1, TypeInit, PTL DEF Spec

\* Every variable keeps its type, and no attempt is counted beyond max_retries,
\* for any number of stories, workers and faults (runner.py: run_stage).
THEOREM Types == Spec => []TypeOK
BY TypesHold, TypeInvImplies, PTL


(***************************************************************************)
(* Receipts and outputs.                                                   *)
(***************************************************************************)

\* Between the two links only the worker knows which video is at the path.
ReporterKnows ==
    \A w \in Workers :
        WorkerAt(w, "reporting") /\ Target(w) \notin cleared => Output(w) = worker[w].video
Vouched == ReceiptDescribesOutput /\ ReporterKnows

\* A worker never replaces an output or a receipt.
LEMMA NothingReplaced ==
    ASSUME TypeInv, NEW w \in Workers, WorkerMove(w)
    PROVE  /\ \A f \in Paths : output[f] # NoVideo => output'[f] = output[f]
           /\ \A s \in Stories : receipt[s] # NoVideo => receipt'[s] = receipt[s]
<1>1. output \in [Paths -> MaybeVideo] /\ receipt \in [Stories -> MaybeVideo]
  BY DEF TypeInv, DownloadTypeOK, MaybeVideo
<1>2. CASE UNCHANGED <<output, receipt>>
  BY <1>2
<1>3. CASE LinkOutput(w) \/ OutputDiskError(w)
  BY <1>1, <1>3 DEF LinkOutput, OutputDiskError, MayLink, Output
<1>4. CASE LinkReceipt(w) \/ ReceiptDiskError(w)
  BY <1>1, <1>4 DEF LinkReceipt, ReceiptDiskError, Receipt, Reported
<1>5. QED
  BY <1>2, <1>3, <1>4 DEF WorkerMove, WorkerStep, WorkerFault, ReadRequest, Pin, Compare,
     AwaitReceipt, GiveUp,
     Download, DownloadFails, Retry, Leave, DisconnectFails, ConnectionCloses, Kill

\* A reporter goes on knowing as long as its output is not replaced.
LEMMA Reporters ==
    ASSUME NEW q \in Workers, ReporterKnows, UNCHANGED cleared,
           worker[q].pc = "reporting", worker'[q] = worker[q],
           worker[q].video # NoVideo, Target(q) \in Paths,
           \A f \in Paths : output[f] # NoVideo => output'[f] = output[f],
           Target(q) \notin cleared
    PROVE  output'[OutputOf[worker'[q].story]] = worker'[q].video
BY DEF ReporterKnows, WorkerAt, Target, Output

\* The workers' own steps keep outputs and receipts together.
LEMMA VouchedByWorkers ==
    ASSUME TypeInv, Vouched, NEW w \in Workers, WorkerMove(w), UNCHANGED pvars
    PROVE  Vouched'
<1> USE DEF Vouched, ReceiptDescribesOutput, ReporterKnows, WorkerAt, Target, Output, pvars
<1>1. /\ output \in [Paths -> MaybeVideo] /\ receipt \in [Stories -> MaybeVideo]
      /\ worker \in [Workers -> WorkerRecord] /\ OutputOf \in [Stories -> Paths]
      /\ \A q \in Workers : worker[q].pc # "off" => worker[q].story \in Stories
      /\ \A q \in Workers : worker[q].pc = "reporting" => worker[q].video \in Videos
      /\ NoVideo \notin Videos
  BY PathsAssumption, AbsentAssumption
     DEF TypeInv, DownloadTypeOK, WorkerJobs, WorkerRecord, MaybeVideo
<1>2. \A q \in Workers : q # w => worker'[q] = worker[q]
  BY <1>1 DEF WorkerMove, WorkerStep, WorkerFault, ReadRequest, Pin, Compare, AwaitReceipt,
     GiveUp, Download,
     DownloadFails, LinkOutput, LinkReceipt, Leave, OutputDiskError, ReceiptDiskError,
     DisconnectFails, ConnectionCloses, Kill, MoveWorker, Retry
<1>3. \A f \in Paths : output[f] # NoVideo => output'[f] = output[f]
  BY NothingReplaced
<1>4. CASE LinkOutput(w)
  <2>1. worker'[w].story = worker[w].story /\ worker'[w].video = worker[w].video
    BY <1>1, <1>4 DEF LinkOutput, MoveWorker, WorkerRecord
  <2>2. worker'[w].pc = "reporting" => output'[OutputOf[worker[w].story]] = worker[w].video
    BY <1>1, <1>4 DEF LinkOutput, MoveWorker, MayLink, WorkerRecord
  <2>3. ReceiptDescribesOutput'
    BY <1>1, <1>3, <1>4, AbsentAssumption DEF LinkOutput
  <2>4. ReporterKnows'
    BY <1>1, <1>2, <1>3, <2>1, <2>2, Reporters
  <2>5. QED
    BY <2>3, <2>4
<1>5. CASE LinkReceipt(w) \/ ReceiptDiskError(w)
  <2>1. worker[w].pc = "reporting" /\ UNCHANGED <<output, cleared>>
    BY <1>5 DEF LinkReceipt, ReceiptDiskError
  <2>2. worker'[w].pc # "reporting"
    BY <1>1, <1>5 DEF LinkReceipt, ReceiptDiskError, MoveWorker, Retry, WorkerRecord
  <2>3. \A s \in Stories :
            receipt'[s] = receipt[s] \/ (s = worker[w].story /\ receipt'[s] = worker[w].video)
    BY <1>1, <1>5 DEF LinkReceipt, ReceiptDiskError, Reported
  <2>4. OutputOf[worker[w].story] \notin cleared => output[OutputOf[worker[w].story]] = worker[w].video
    BY <2>1
  <2>5. ReceiptDescribesOutput'
    BY <2>1, <2>3, <2>4
  <2>6. ReporterKnows'
    BY <1>2, <2>1, <2>2
  <2>7. QED
    BY <2>5, <2>6
<1>6. CASE OutputDiskError(w)
  <2>1. worker'[w].pc # "reporting" /\ UNCHANGED receipt
    BY <1>1, <1>6 DEF OutputDiskError, Retry, WorkerRecord
  <2>2. ReceiptDescribesOutput'
    BY <1>1, <1>3, <2>1
  <2>3. ReporterKnows'
    BY <1>1, <1>2, <1>3, <2>1, Reporters
  <2>4. QED
    BY <2>2, <2>3
<1>7. CASE UNCHANGED <<output, receipt>> /\ worker'[w].pc # "reporting"
  BY <1>1, <1>2, <1>7
<1>8. ASSUME ReadRequest(w) \/ Compare(w) \/ AwaitReceipt(w) \/ GiveUp(w) \/ Leave(w)
               \/ DisconnectFails(w) \/ ConnectionCloses(w) \/ Kill(w)
      PROVE  UNCHANGED <<output, receipt>> /\ worker'[w].pc # "reporting"
  BY <1>1, <1>8 DEF ReadRequest, Compare, AwaitReceipt, GiveUp, Leave, DisconnectFails,
     ConnectionCloses, Kill, MoveWorker, WorkerRecord
<1>9. ASSUME Download(w) \/ DownloadFails(w)
      PROVE  UNCHANGED <<output, receipt>> /\ worker'[w].pc # "reporting"
  BY <1>1, <1>9 DEF Download, DownloadFails, MoveWorker, Retry, WorkerRecord
<1>10. ASSUME Pin(w)
       PROVE  UNCHANGED <<output, receipt>> /\ worker'[w].pc # "reporting"
  BY <1>1, <1>10 DEF Pin, WorkerRecord
<1>11. QED
  BY <1>4, <1>5, <1>6, <1>7, <1>8, <1>9, <1>10 DEF WorkerMove, WorkerStep, WorkerFault

\* A worker slot that is started or freed does not report.
LEMMA VouchedBySlots ==
    ASSUME TypeInv, Vouched, NEW w \in Workers, UNCHANGED <<output, receipt, cleared>>,
           \/ worker' = [worker EXCEPT ![w] = Off]
           \/ worker' = [worker EXCEPT ![w] = [Off EXCEPT !.pc = "starting", !.story = Story]]
    PROVE  Vouched'
<1>1. worker \in [Workers -> WorkerRecord]
  BY DEF TypeInv, DownloadTypeOK, WorkerRecord, MaybeVideo
<1>2. \A q \in Workers : worker'[q] = worker[q] \/ worker'[q].pc # "reporting"
  <2> DEFINE r == [Off EXCEPT !.pc = "starting", !.story = Story]
  <2>1. Off.pc # "reporting" /\ r.pc # "reporting"
    BY DEF Off
  <2> HIDE DEF r
  <2>2. worker' = [worker EXCEPT ![w] = Off] \/ worker' = [worker EXCEPT ![w] = r]
    BY DEF r
  <2>3. QED
    BY <1>1, <2>1, <2>2
<1>3. ReceiptDescribesOutput'
  BY DEF Vouched, ReceiptDescribesOutput
<1>4. ReporterKnows'
  <2> SUFFICES ASSUME NEW q \in Workers, worker'[q].pc = "reporting",
                      OutputOf[worker'[q].story] \notin cleared
               PROVE  output[OutputOf[worker'[q].story]] = worker'[q].video
    BY DEF ReporterKnows, WorkerAt, Target, Output
  <2>1. worker'[q] = worker[q]
    BY <1>2
  <2>2. QED
    BY <2>1 DEF Vouched, ReporterKnows, WorkerAt, Target, Output
<1>5. QED
  BY <1>3, <1>4 DEF Vouched

\* A cleared path is no longer spoken for.
LEMMA VouchedAfterClear ==
    ASSUME TypeInv, Vouched, NEW s \in Stories, ClearDownload(s)
    PROVE  Vouched'
<1>1. /\ output \in [Paths -> MaybeVideo] /\ receipt \in [Stories -> MaybeVideo]
      /\ OutputOf \in [Stories -> Paths]
      /\ \A q \in Workers : worker[q].pc # "off" => worker[q].story \in Stories
  BY PathsAssumption DEF TypeInv, DownloadTypeOK, WorkerJobs, MaybeVideo
<1>2. ReceiptDescribesOutput'
  BY <1>1 DEF Vouched, ReceiptDescribesOutput, ClearDownload
<1>3. ReporterKnows'
  BY <1>1 DEF Vouched, ReporterKnows, ClearDownload, WorkerAt, Target, Output
<1>4. QED
  BY <1>2, <1>3 DEF Vouched

\* Every step keeps what is vouched for.
LEMMA VouchedStep ==
    ASSUME TypeInv, Vouched, [Next]_vars
    PROVE  Vouched'
<1>1. CASE UNCHANGED <<output, receipt, worker, cleared>>
  BY <1>1 DEF Vouched, ReceiptDescribesOutput, ReporterKnows, WorkerAt, Target, Output
<1>2. ASSUME NEW w \in Workers,
             StartWorker(w) \/ WorkerSucceeds(w) \/ WorkerFails(w) \/ OrphanExits(w)
      PROVE  Vouched'
  BY <1>2, VouchedBySlots DEF StartWorker, WorkerSucceeds, WorkerFails, OrphanExits, pvars
<1>3. CASE RunnerStep
  BY <1>1, <1>2, <1>3 DEF RunnerStep, VerifyArtifact, CopyArtifact, RecordHandoff, AppendOutro,
     RequestCaption, GenerateCaption, ReadCaption, BeginPackage, FinishPackage, MarkDone,
     AttemptFails, SaveDone, Report, SaveFailure, dvars
<1>4. ASSUME NEW w \in Workers, OwnStep(w) PROVE Vouched'
  BY <1>2, <1>4, VouchedByWorkers DEF OwnStep, WorkerMove
<1>5. CASE Environment
  <2>1. ASSUME NEW w \in Workers, WorkerFault(w) \/ ConnectionCloses(w), UNCHANGED pvars
        PROVE  Vouched'
    BY <2>1, VouchedByWorkers DEF WorkerMove
  <2>2. ASSUME NEW s \in Stories, WriteScript(s) \/ ClearDownload(s) PROVE Vouched'
    BY <1>1, <2>2, VouchedAfterClear DEF WriteScript, dvars
  <2>3. ASSUME NEW c \in strays, LateCaption(c) PROVE Vouched'
    BY <1>1, <2>3 DEF LateCaption, dvars
  <2>4. CASE Crash \/ GenerateNothing \/ LateFailure \/ SaveFailureFails
    BY <1>1, <2>4 DEF Crash, GenerateNothing, LateFailure, SaveFailureFails
  <2>5. QED
    BY <1>5, <2>1, <2>2, <2>3, <2>4 DEF Environment
<1>6. CASE UNCHANGED vars
  BY <1>1, <1>6 DEF vars, dvars, pvars
<1>7. ASSUME NEW s \in Stories, BeginAttempt(s) \/ Revisit(s) PROVE Vouched'
  BY <1>1, <1>7 DEF BeginAttempt, Revisit, dvars
<1>8. QED
  BY <1>3, <1>4, <1>5, <1>6, <1>7 DEF Next

\* A receipt describes the video at the output path, however many workers raced
\* for it (mjs: link() never replaces, and the receipt comes second).
THEOREM ReceiptsTrue == Spec => []ReceiptDescribesOutput
<1>1. Init => Vouched
  BY PathsAssumption DEF Init, DownloadInit, Off, Vouched, ReceiptDescribesOutput, ReporterKnows,
     WorkerAt
<1>2. TypeInv /\ Vouched /\ [Next]_vars => Vouched'
  BY VouchedStep
<1>3. Vouched => ReceiptDescribesOutput
  BY DEF Vouched
<1>4. QED
  BY <1>1, <1>2, <1>3, TypesHold, PTL DEF Spec

(***************************************************************************)
(* Stranded outputs.                                                       *)
(***************************************************************************)
Reporting(f) == \E w \in Workers : WorkerAt(w, "reporting") /\ Target(w) = f
Vouching(f) == \E s \in Stories : OutputOf[s] = f /\ receipt[s] # NoVideo

\* A fault counts, and there is nothing to show after one.
LEMMA FaultCounts ==
    ASSUME TypeInv, NEW kind, Fault(kind)
    PROVE  StrandedOnlyByFault'
<1>1. faults' # 0
  BY DEF TypeInv, DownloadTypeOK, Fault
<1>2. QED
  BY <1>1 DEF StrandedOnlyByFault

\* While outputs and receipts are left alone and no reporter moves, nothing is
\* stranded.
LEMMA StrandedStutter ==
    ASSUME StrandedOnlyByFault, UNCHANGED <<output, receipt, faults>>,
           \A w \in Workers : WorkerAt(w, "reporting") => worker'[w] = worker[w]
    PROVE  StrandedOnlyByFault'
<1>1. \A f : Reporting(f) => Reporting(f)'
  BY DEF Reporting, WorkerAt, Target
<1>2. QED
  BY <1>1 DEF StrandedOnlyByFault, Reporting

\* The two links hand over from the reporter to the receipt.
LEMMA StrandedLinks ==
    ASSUME TypeInv, StrandedOnlyByFault, NEW w \in Workers, LinkOutput(w) \/ LinkReceipt(w)
    PROVE  StrandedOnlyByFault'
<1>1. /\ output \in [Paths -> MaybeVideo] /\ receipt \in [Stories -> MaybeVideo]
      /\ worker \in [Workers -> WorkerRecord] /\ OutputOf \in [Stories -> Paths]
      /\ worker[w].story \in Stories /\ worker[w].video \in Videos /\ NoVideo \notin Videos
  BY PathsAssumption, AbsentAssumption DEF TypeInv, DownloadTypeOK, WorkerJobs, WorkerRecord,
     MaybeVideo, LinkOutput, LinkReceipt, WorkerAt
<1>2. faults' = faults /\ \A q \in Workers : q # w => worker'[q] = worker[q]
  BY <1>1 DEF LinkOutput, LinkReceipt, MoveWorker
<1> SUFFICES ASSUME NEW f \in Paths, output'[f] # NoVideo, faults = 0
             PROVE  Vouching(f)' \/ Reporting(f)'
  BY <1>2 DEF StrandedOnlyByFault, Vouching, Reporting
<1>3. \A s \in Stories : receipt[s] # NoVideo => receipt'[s] # NoVideo
  BY NothingReplaced DEF WorkerMove, WorkerStep
<1>4. Vouching(f) => Vouching(f)'
  BY <1>3 DEF Vouching
<1>5. CASE LinkOutput(w)
  <2>1. worker[w].pc = "linking" /\ worker'[w].story = worker[w].story
    BY <1>1, <1>5 DEF LinkOutput, MoveWorker, WorkerAt, WorkerRecord
  <2>2. CASE output[f] # NoVideo
    <3>1. Reporting(f) => Reporting(f)'
      BY <1>2, <2>1 DEF Reporting, WorkerAt, Target
    <3>2. QED
      BY <1>4, <2>2, <3>1 DEF StrandedOnlyByFault, Vouching, Reporting
  <2>3. CASE output[f] = NoVideo
    <3>1. f = OutputOf[worker[w].story] /\ worker'[w].pc = "reporting"
      BY <1>1, <1>5, <2>3 DEF LinkOutput, MoveWorker, Target, WorkerRecord
    <3>2. QED
      BY <2>1, <3>1 DEF Reporting, WorkerAt, Target
  <2>4. QED
    BY <2>2, <2>3
<1>6. CASE LinkReceipt(w)
  <2>1. receipt'[worker[w].story] # NoVideo /\ output' = output
    BY <1>1, <1>6 DEF LinkReceipt, Reported, Receipt
  <2>2. Reporting(f) => Vouching(f)' \/ Reporting(f)'
    BY <1>1, <1>2, <2>1 DEF Reporting, Vouching, WorkerAt, Target
  <2>3. QED
    BY <1>4, <2>1, <2>2 DEF StrandedOnlyByFault, Vouching, Reporting
<1>7. QED
  BY <1>5, <1>6

\* Every step of a worker.
LEMMA StrandedByWorkers ==
    ASSUME TypeInv, StrandedOnlyByFault, NEW w \in Workers, WorkerMove(w)
    PROVE  StrandedOnlyByFault'
<1>1. worker \in [Workers -> WorkerRecord]
  BY DEF TypeInv, DownloadTypeOK, WorkerRecord, MaybeVideo
<1>2. CASE WorkerFault(w)
  BY <1>2, FaultCounts DEF WorkerFault, OutputDiskError, ReceiptDiskError, Kill
<1>3. CASE ReadRequest(w) \/ Compare(w) \/ AwaitReceipt(w) \/ GiveUp(w) \/ Leave(w)
            \/ DisconnectFails(w) \/ ConnectionCloses(w)
  BY <1>1, <1>3, StrandedStutter DEF ReadRequest, Compare, AwaitReceipt, GiveUp, Leave,
     DisconnectFails, ConnectionCloses, MoveWorker, WorkerAt
<1>4. CASE Pin(w) \/ Download(w) \/ DownloadFails(w)
  <2>1. \A q \in Workers : q # w => worker'[q] = worker[q]
    BY <1>1, <1>4 DEF Pin, Download, DownloadFails, MoveWorker, Retry
  <2>2. ~WorkerAt(w, "reporting") /\ UNCHANGED <<output, receipt, faults>>
    BY <1>4 DEF Pin, Download, DownloadFails, WorkerAt
  <2>3. QED
    BY <2>1, <2>2, StrandedStutter
<1>5. QED
  BY <1>2, <1>3, <1>4, StrandedLinks DEF WorkerMove, WorkerStep

\* Every step.
LEMMA StrandedStep ==
    ASSUME TypeInv, StrandedOnlyByFault, [Next]_vars
    PROVE  StrandedOnlyByFault'
<1>1. worker \in [Workers -> WorkerRecord]
  BY DEF TypeInv, DownloadTypeOK, WorkerRecord, MaybeVideo
<1>2. CASE UNCHANGED dvars
  BY <1>2, StrandedStutter DEF dvars
<1>3. ASSUME NEW w \in Workers,
             StartWorker(w) \/ WorkerSucceeds(w) \/ WorkerFails(w) \/ OrphanExits(w)
      PROVE  StrandedOnlyByFault'
  <2>1. /\ UNCHANGED <<output, receipt, faults>> /\ ~WorkerAt(w, "reporting")
        /\ \A q \in Workers : q # w => worker'[q] = worker[q]
    BY <1>1, <1>3 DEF StartWorker, WorkerSucceeds, WorkerFails, OrphanExits, WorkerAt, Off
  <2>2. QED
    BY <2>1, StrandedStutter
<1>4. CASE RunnerStep
  BY <1>2, <1>3, <1>4 DEF RunnerStep, VerifyArtifact, CopyArtifact, RecordHandoff, AppendOutro,
     RequestCaption, GenerateCaption, ReadCaption, BeginPackage, FinishPackage, MarkDone,
     AttemptFails, SaveDone, Report, SaveFailure
<1>5. ASSUME NEW w \in Workers, OwnStep(w) PROVE StrandedOnlyByFault'
  BY <1>3, <1>5, StrandedByWorkers DEF OwnStep, WorkerMove
<1>6. CASE Environment
  <2>1. ASSUME NEW w \in Workers, WorkerFault(w) \/ ConnectionCloses(w)
        PROVE  StrandedOnlyByFault'
    BY <2>1, StrandedByWorkers DEF WorkerMove
  <2>2. ASSUME NEW s \in Stories, WriteScript(s) \/ ClearDownload(s) PROVE StrandedOnlyByFault'
    BY <1>2, <2>2, FaultCounts DEF WriteScript, ClearDownload
  <2>3. ASSUME NEW c \in strays, LateCaption(c) PROVE StrandedOnlyByFault'
    BY <1>2, <2>3 DEF LateCaption
  <2>4. CASE Crash \/ GenerateNothing \/ LateFailure \/ SaveFailureFails
    BY <2>4, FaultCounts DEF Crash, GenerateNothing, LateFailure, SaveFailureFails
  <2>5. QED
    BY <1>6, <2>1, <2>2, <2>3, <2>4 DEF Environment
<1>7. CASE UNCHANGED vars
  BY <1>2, <1>7 DEF vars
<1>8. ASSUME NEW s \in Stories, BeginAttempt(s) \/ Revisit(s) PROVE StrandedOnlyByFault'
  BY <1>2, <1>8 DEF BeginAttempt, Revisit
<1>9. QED
  BY <1>4, <1>5, <1>6, <1>7, <1>8 DEF Next

\* Without a fault no output is left that nobody vouches for or is about to,
\* however many workers race (mjs: publishVerifiedDownload, then atomicJson).
THEOREM NothingStranded == Spec => []StrandedOnlyByFault
<1>1. Init => StrandedOnlyByFault
  BY DEF Init, DownloadInit, StrandedOnlyByFault
<1>2. TypeInv /\ StrandedOnlyByFault /\ [Next]_vars => StrandedOnlyByFault'
  BY StrandedStep
<1>3. QED
  BY <1>1, <1>2, TypesHold, PTL DEF Spec

(***************************************************************************)
(* What the runner holds.  It reads receipt, output and an earlier copy at *)
(* different times; the steps below show why they still agree.             *)
(***************************************************************************)
PastHandoff == {"rendering", "writing", "generating", "reading", "packaging", "finishing",
                "checking"}
PastOutro == {"writing", "generating", "reading", "packaging", "finishing", "checking"}

\* What a story that is done has.
IsDelivered(s) ==
    /\ package[s].complete /\ package[s].video = copy[s] /\ copy[s] # NoVideo
    /\ handoff[s] = copy[s] /\ final[s].video = copy[s]

Holding ==
    /\ runner.pc \in {"copying"} \cup PastCopy =>
         /\ runner.video # NoVideo /\ runner.video = receipt[Story]
         /\ output[OutputOf[Story]] = receipt[Story]
    /\ runner.pc \in PastCopy => copy[Story] = runner.video
Produced ==
    /\ runner.pc \in PastHandoff => handoff[Story] = copy[Story]
    /\ runner.pc \in PastOutro => final[Story].video = copy[Story]
    /\ runner.pc = "checking" => package[Story].complete /\ package[Story].video = copy[Story]
    /\ runner.pc = "saving" => IsDelivered(Story)
DeliveryInv == Holding /\ Produced /\ DoneIsDelivered

\* Nothing changes for the runner while it and the files it made stay as they
\* are, and no output or receipt is taken away.
LEMMA DeliveryStutter ==
    ASSUME TypeInv, DeliveryInv, UNCHANGED <<runner, stage, copy, handoff, final, package>>,
           \A f \in Paths : output[f] # NoVideo => output'[f] = output[f],
           \A s \in Stories : receipt[s] # NoVideo => receipt'[s] = receipt[s]
    PROVE  DeliveryInv'
<1>1. ~At("idle") => Story \in Stories /\ OutputOf[Story] \in Paths
  BY PathsAssumption DEF TypeInv, RunnerType, AttemptOpen
<1>2. Holding'
  BY <1>1 DEF DeliveryInv, Holding, Story, PastCopy, At
<1>3. Produced' /\ DoneIsDelivered'
  BY DEF DeliveryInv, Produced, DoneIsDelivered, IsDelivered, Story
<1>4. QED
  BY <1>2, <1>3 DEF DeliveryInv

\* Where the runner is idle, has not copied anything or has saved its success, only
\* what is done matters.
LEMMA DeliveryEarly ==
    ASSUME DeliveryInv,
           runner'.pc \in {"idle", "requesting", "waiting", "verifying", "reporting", "failing"},
           UNCHANGED <<stage, copy, handoff, final, package>>
    PROVE  DeliveryInv'
BY DEF DeliveryInv, Holding, Produced, DoneIsDelivered, PastCopy, PastHandoff, PastOutro

\* A story that is not done may have its files replaced.
LEMMA DoneElsewhere ==
    ASSUME TypeInv, DoneIsDelivered, runner.pc \notin {"idle", "saving", "reporting", "failing"},
           UNCHANGED stage,
           \A s \in Stories : s # Story =>
               /\ copy'[s] = copy[s] /\ handoff'[s] = handoff[s]
               /\ final'[s] = final[s] /\ package'[s] = package[s]
    PROVE  DoneIsDelivered'
<1>1. stage[Story].status # "done"
  BY NotYetCounted DEF TypeInv, RunnerType, AttemptOpen
<1>2. QED
  BY <1>1 DEF DoneIsDelivered

\* The save of a failure adds nothing to what is done; the save of a success finds
\* its story with everything it takes.
LEMMA DeliverySaves ==
    ASSUME TypeInv, DeliveryInv, NEW status \in {"failed", "done"}, SaveRecord(status),
           ~At("idle"), status = "done" => At("saving"),
           runner'.pc \in {"idle", "reporting"}, UNCHANGED <<copy, handoff, final, package>>
    PROVE  DeliveryInv'
<1>1. Holding' /\ Produced'
  BY DEF Holding, Produced, PastCopy, PastHandoff, PastOutro
<1>2. \A s \in Stories : stage'[s].status = "done" =>
          stage[s].status = "done" \/ (s = Story /\ status = "done")
  BY DEF SaveRecord, TypeInv, RecordType
<1>3. At("saving") => IsDelivered(Story)
  BY DEF DeliveryInv, Produced, At
<1>4. DoneIsDelivered'
  BY <1>2, <1>3 DEF DeliveryInv, DoneIsDelivered, IsDelivered
<1>5. QED
  BY <1>1, <1>4 DEF DeliveryInv

\* A story that is done already is found with everything it takes.
LEMMA DeliveryRevisited ==
    ASSUME TypeInv, DeliveryInv, NEW s \in Stories, BeginAttempt(s) \/ Revisit(s)
    PROVE  DeliveryInv'
<1>1. UNCHANGED <<stage, copy, handoff, final, package>>
  BY DEF BeginAttempt, Revisit
<1>2. \/ runner'.pc \in {"requesting", "failing"}
      \/ runner'.pc = "saving" /\ runner'.story = s /\ stage[s].status = "done"
  BY DEF BeginAttempt, Revisit, Load, Idle
<1>3. CASE runner'.pc \in {"requesting", "failing"}
  BY <1>1, <1>3, DeliveryEarly
<1>4. CASE runner'.pc = "saving" /\ runner'.story = s /\ stage[s].status = "done"
  <2>1. IsDelivered(s) /\ DoneIsDelivered'
    BY <1>1, <1>4 DEF DeliveryInv, DoneIsDelivered, IsDelivered
  <2>2. Holding' /\ Produced'
    BY <1>1, <1>4, <2>1 DEF Holding, Produced, IsDelivered, Story, PastCopy, PastHandoff, PastOutro
  <2>3. QED
    BY <2>1, <2>2 DEF DeliveryInv
<1>5. QED
  BY <1>2, <1>3, <1>4

\* The steps that make something: each label finds what the last one left.
LEMMA DeliveryMakes ==
    ASSUME TypeInv, DeliveryInv,
           \/ VerifyArtifact \/ CopyArtifact \/ RecordHandoff \/ AppendOutro \/ RequestCaption
           \/ GenerateCaption \/ ReadCaption \/ BeginPackage \/ FinishPackage \/ MarkDone
    PROVE  DeliveryInv'
<1> USE DEF At, Story
<1>1. /\ runner.pc \notin {"idle", "saving", "reporting", "failing"}
      /\ runner.story \in Stories /\ runner \in RunnerRecord /\ UNCHANGED <<dvars, stage>>
      /\ copy \in [Stories -> MaybeVideo] /\ handoff \in [Stories -> MaybeVideo]
      /\ final \in [Stories -> FinalRecord] /\ package \in [Stories -> PackageRecord]
  BY DEF TypeInv, RunnerType, AttemptOpen, HandoffType, ProductType, VerifyArtifact, CopyArtifact,
     RecordHandoff, AppendOutro, RequestCaption, GenerateCaption, ReadCaption, BeginPackage,
     FinishPackage, MarkDone
<1>2. runner'.story = runner.story
  BY <1>1 DEF VerifyArtifact, CopyArtifact, RecordHandoff, AppendOutro, RequestCaption,
     GenerateCaption, ReadCaption, BeginPackage, FinishPackage, MarkDone, Goto, RunnerRecord
<1>3. DoneIsDelivered'
  <2>1. \A s \in Stories : s # Story =>
               /\ copy'[s] = copy[s] /\ handoff'[s] = handoff[s]
               /\ final'[s] = final[s] /\ package'[s] = package[s]
    BY <1>1 DEF VerifyArtifact, CopyArtifact, RecordHandoff, AppendOutro, RequestCaption,
       GenerateCaption, ReadCaption, BeginPackage, FinishPackage, MarkDone
  <2>2. QED
    BY <1>1, <2>1, DoneElsewhere DEF DeliveryInv
<1>4. SUFFICES Holding' /\ Produced'
  BY <1>3 DEF DeliveryInv
<1> USE DEF DeliveryInv, Holding, Produced, PastCopy, PastHandoff, PastOutro, dvars, Goto
<1>5. CASE VerifyArtifact
  <2>1. runner'.pc = "copying" /\ runner'.video = receipt[Story]
    BY <1>1, <1>5 DEF VerifyArtifact, ReceiptAccepted, ArtifactMatches, RunnerRecord
  <2>2. QED
    BY <1>1, <1>2, <1>5, <2>1 DEF VerifyArtifact, ReceiptAccepted, ArtifactMatches
<1>6. CASE CopyArtifact
  <2>1. runner'.pc = "recording" /\ runner'.video = runner.video
    BY <1>1, <1>6 DEF CopyArtifact, RunnerRecord
  <2>2. copy'[Story] = runner.video
    BY <1>1, <1>6 DEF CopyArtifact, MayCopy
  <2>3. QED
    BY <1>1, <1>2, <1>6, <2>1, <2>2 DEF CopyArtifact
<1>7. CASE RecordHandoff
  <2>1. runner'.pc = "rendering" /\ runner'.video = runner.video
    BY <1>1, <1>7 DEF RecordHandoff, RunnerRecord
  <2>2. handoff'[Story] = runner.video
    BY <1>1, <1>7 DEF RecordHandoff
  <2>3. QED
    BY <1>1, <1>2, <1>7, <2>1, <2>2 DEF RecordHandoff
<1>8. CASE AppendOutro
  <2>1. runner'.pc = "writing" /\ runner'.video = runner.video
    BY <1>1, <1>8 DEF AppendOutro, RunnerRecord
  <2>2. final'[Story].video = copy[Story]
    BY <1>1, <1>8 DEF AppendOutro
  <2>3. QED
    BY <1>1, <1>2, <1>8, <2>1, <2>2 DEF AppendOutro
<1>9. CASE RequestCaption \/ GenerateCaption \/ ReadCaption
  <2>1. /\ runner'.pc \in {"generating", "reading", "packaging"} /\ runner'.video = runner.video
        /\ runner.pc \in PastOutro
    BY <1>1, <1>9 DEF RequestCaption, GenerateCaption, ReadCaption, RunnerRecord
  <2>2. UNCHANGED <<copy, handoff, final, package>>
    BY <1>9 DEF RequestCaption, GenerateCaption, ReadCaption
  <2>3. QED
    BY <1>1, <1>2, <2>1, <2>2
<1>10. CASE BeginPackage
  <2>1. runner'.pc = "finishing" /\ runner'.video = runner.video
    BY <1>1, <1>10 DEF BeginPackage, NextToPackage, RunnerRecord
  <2>2. QED
    BY <1>1, <1>2, <1>10, <2>1 DEF BeginPackage
<1>11. CASE FinishPackage
  <2>1. runner'.pc = "checking" /\ runner'.video = runner.video
    BY <1>1, <1>11 DEF FinishPackage, RunnerRecord
  <2>2. package'[Story].complete /\ package'[Story].video = final[Story].video
    BY <1>1, <1>11 DEF FinishPackage
  <2>3. QED
    BY <1>1, <1>2, <1>11, <2>1, <2>2 DEF FinishPackage
<1>12. CASE MarkDone
  <2>1. runner'.pc = "saving" /\ UNCHANGED <<copy, handoff, final, package>>
    BY <1>1, <1>12 DEF MarkDone, RunnerRecord
  <2>2. IsDelivered(Story)
    <3>1. runner.pc \in PastCopy /\ runner.pc \in PastHandoff /\ runner.pc \in PastOutro
      BY <1>12 DEF MarkDone
    <3>2. copy[Story] = runner.video /\ runner.video # NoVideo
      BY <3>1
    <3>3. /\ handoff[Story] = copy[Story] /\ final[Story].video = copy[Story]
          /\ package[Story].complete /\ package[Story].video = copy[Story]
      BY <1>12, <3>1 DEF MarkDone
    <3>4. QED
      BY <3>2, <3>3 DEF IsDelivered
  <2>3. IsDelivered(Story)'
    BY <1>2, <2>1, <2>2 DEF IsDelivered
  <2>4. Holding' /\ Produced'
    BY <2>1, <2>3
  <2>5. QED
    BY <2>4
<1>13. QED
  BY <1>5, <1>6, <1>7, <1>8, <1>9, <1>10, <1>11, <1>12

\* Every step keeps what the runner holds and what is done.
LEMMA DeliveryStep ==
    ASSUME TypeInv, DeliveryInv, [Next]_vars
    PROVE  DeliveryInv'
<1>1. CASE UNCHANGED <<output, receipt, runner, stage, copy, handoff, final, package>>
  BY <1>1, DeliveryStutter
<1>2. CASE RunnerStep
  <2>1. ASSUME NEW w \in Workers, StartWorker(w) \/ WorkerSucceeds(w) \/ WorkerFails(w)
        PROVE  DeliveryInv'
    <3>1. runner'.pc \in {"waiting", "verifying", "failing"}
      BY <2>1 DEF StartWorker, WorkerSucceeds, WorkerFails, TypeInv, RunnerType, RunnerRecord
    <3>2. QED
      BY <2>1, <3>1, DeliveryEarly DEF StartWorker, WorkerSucceeds, WorkerFails
  <2>2. CASE AttemptFails \/ Report
    <3>1. runner'.pc \in {"idle", "failing"}
      BY <2>2 DEF AttemptFails, Report, Goto, Idle, TypeInv, RunnerType, RunnerRecord
    <3>2. QED
      BY <2>2, <3>1, DeliveryEarly DEF AttemptFails, Report
  <2>3. CASE SaveDone
    <3>1. runner'.pc = "reporting"
      BY <2>3 DEF SaveDone, Goto, TypeInv, RunnerType, RunnerRecord
    <3>2. QED
      BY <2>3, <3>1, DeliverySaves DEF SaveDone, At
  <2>4. CASE SaveFailure
    <3>1. runner'.pc = "idle"
      BY <2>4 DEF SaveFailure, Idle
    <3>2. QED
      BY <2>4, <3>1, DeliverySaves DEF SaveFailure, At
  <2>5. QED
    BY <1>2, <2>1, <2>2, <2>3, <2>4, DeliveryMakes DEF RunnerStep
<1>3. ASSUME NEW w \in Workers, WorkerMove(w), UNCHANGED pvars PROVE DeliveryInv'
  BY <1>3, NothingReplaced, DeliveryStutter DEF pvars
<1>4. ASSUME NEW w \in Workers, OwnStep(w) PROVE DeliveryInv'
  BY <1>1, <1>3, <1>4 DEF OwnStep, WorkerMove, OrphanExits, pvars
<1>5. CASE Environment
  <2>1. ASSUME NEW s \in Stories, ClearDownload(s) PROVE DeliveryInv'
    BY <2>1, DeliveryEarly DEF ClearDownload, At
  <2>2. CASE Crash \/ LateFailure \/ SaveFailureFails
    <3>1. runner'.pc \in {"idle", "failing"}
      BY <2>2 DEF Crash, LateFailure, SaveFailureFails, Goto, Idle, TypeInv, RunnerType,
         RunnerRecord
    <3>2. QED
      BY <2>2, <3>1, DeliveryEarly DEF Crash, LateFailure, SaveFailureFails
  <2>3. CASE GenerateNothing
    <3>1. /\ runner.pc = "generating" /\ runner'.pc = "reading" /\ runner'.story = Story
          /\ runner'.video = runner.video /\ Story \in Stories
      BY <2>3 DEF GenerateNothing, Goto, At, Story, TypeInv, RunnerType, RunnerRecord, AttemptOpen
    <3>2. UNCHANGED <<output, receipt, stage, copy, handoff, final, package>>
      BY <2>3 DEF GenerateNothing
    <3>3. QED
      BY <3>1, <3>2 DEF DeliveryInv, Holding, Produced, DoneIsDelivered, Story, PastCopy,
         PastHandoff, PastOutro
  <2>4. ASSUME NEW s \in Stories, WriteScript(s) PROVE DeliveryInv'
    BY <1>1, <2>4 DEF WriteScript, dvars
  <2>5. ASSUME NEW c \in strays, LateCaption(c) PROVE DeliveryInv'
    BY <1>1, <2>5 DEF LateCaption, dvars
  <2>6. QED
    BY <1>3, <1>5, <2>1, <2>2, <2>3, <2>4, <2>5 DEF Environment, WorkerMove
<1>6. CASE UNCHANGED vars
  BY <1>1, <1>6 DEF vars, dvars, pvars
<1>7. QED
  BY <1>2, <1>4, <1>5, <1>6, DeliveryRevisited DEF Next

\* The delivery invariant holds.
LEMMA DeliveryHolds == Spec => []DeliveryInv
<1>1. Init => DeliveryInv
  BY DEF Init, Idle, DeliveryInv, Holding, Produced, DoneIsDelivered, PastCopy, PastHandoff,
     PastOutro
<1>2. TypeInv /\ DeliveryInv /\ [Next]_vars => DeliveryInv'
  BY DeliveryStep
<1>3. QED
  BY <1>1, <1>2, TypesHold, PTL DEF Spec

\* The runner works with the video its receipt vouches for, whatever other
\* workers and killed runners have left (handoff.py: handoff_notebooklm_video).
THEOREM HandoffVerified == Spec => []HandedOffIsVerified
<1>1. DeliveryInv => HandedOffIsVerified
  BY DEF DeliveryInv, Holding, HandedOffIsVerified
<1>2. QED
  BY <1>1, DeliveryHolds, PTL

\* A story that is done has a complete package of the video handed off
\* (runner.py: video_produced saves last).
THEOREM DoneDelivered == Spec => []DoneIsDelivered
<1>1. DeliveryInv => DoneIsDelivered
  BY DEF DeliveryInv
<1>2. QED
  BY <1>1, DeliveryHolds, PTL

(***************************************************************************)
(* The outro.                                                              *)
(***************************************************************************)

\* The tolerances of the separate checks add up to this much and no more.
LEMMA AcceptedKeepsProgram ==
    ASSUME NEW source \in Media, NEW outro \in Media, NEW cut \in Media,
           Accepted(source, outro, cut)
    PROVE  KeepsProgram(source, outro, cut)
<1>1. /\ source.videoStart \in Int /\ source.videoLength \in Int /\ source.audioStart \in Int
      /\ source.audioLength \in Int /\ source.frame \in Nat /\ outro.videoLength \in Int
      /\ cut.videoStart \in Int /\ cut.videoLength \in Int /\ cut.audioStart \in Int
      /\ cut.audioLength \in Int
  BY DEF Media
<1>2. cut.pcm = source.pcm
  BY DEF Accepted, SameAudio
<1>3. SameTimeline(source, cut) /\ OutroIncluded(source, outro, cut)
  BY DEF Accepted
<1>4. AudioTolerance(source) \in Int /\ VideoTolerance(source) \in Int
  BY <1>1 DEF AudioTolerance, VideoTolerance, AtLeast
<1>5. Distance(AudioEnd(cut), AudioEnd(source)) <= AudioTolerance(source)
  BY <1>3 DEF SameTimeline
<1>6. Tail(cut) >= Tail(source) + outro.videoLength
                        - VideoTolerance(source) - 3 * AudioTolerance(source)
  BY <1>1, <1>3, <1>4 DEF SameTimeline, OutroIncluded, Tail, VideoEnd, AudioEnd, AudioOffset,
     Distance
<1>7. QED
  BY <1>2, <1>5, <1>6 DEF KeepsProgram

\* A final video that was kept has the program's sound, ending when it ended,
\* and the whole outro but for the tolerances, whatever ffmpeg is able to make
\* of it (media.py: append_branded_outro_preserve_audio).
THEOREM ProgramKept == Spec => []FinalKeepsProgram
<1>1. Init => FinalKeepsProgram
  BY DEF Init, FinalKeepsProgram
<1>2. TypeInv /\ FinalKeepsProgram /\ [Next]_vars => FinalKeepsProgram'
  <2> SUFFICES ASSUME TypeInv, FinalKeepsProgram, [Next]_vars PROVE FinalKeepsProgram'
    OBVIOUS
  <2>1. CASE UNCHANGED final
    BY <2>1 DEF FinalKeepsProgram
  <2>2. CASE AppendOutro
    <3>1. PICK cut \in Cuts :
              /\ Accepted(Original, Outro, cut)
              /\ final' = [final EXCEPT ![Story] = [video |-> copy[Story], cut |-> cut]]
      BY <2>2 DEF AppendOutro
    <3>2. KeepsProgram(Original, Outro, cut)
      BY <3>1, AcceptedKeepsProgram, MediaAssumption
    <3>3. final \in [Stories -> FinalRecord]
      BY DEF TypeInv, ProductType
    <3>4. QED
      BY <3>1, <3>2, <3>3 DEF FinalKeepsProgram
  <2>3. QED
    BY <2>1, <2>2 DEF Next, RunnerStep, OwnStep, Environment, BeginAttempt, Revisit, StartWorker,
       WorkerSucceeds, WorkerFails, VerifyArtifact, CopyArtifact, RecordHandoff, RequestCaption,
       GenerateCaption, GenerateNothing, ReadCaption, BeginPackage, FinishPackage, MarkDone,
       AttemptFails, SaveDone, Report, LateFailure, SaveFailure, SaveFailureFails, Crash,
       OrphanExits, LateCaption, WriteScript, ClearDownload, vars, pvars
<1>3. QED
  BY <1>1, <1>2, TypesHold, PTL DEF Spec

(***************************************************************************)
(* Refinement: each step of VideoProduction is a step of VerifiedDelivery  *)
(* or leaves its variables alone.                                          *)
(***************************************************************************)
Packaged == [s \in Stories |-> IF package[s].complete THEN package[s].video ELSE NoVideo]
Completed == {s \in Stories : stage[s].status = "done"}

\* The workers' steps: a receipt that appears verifies, and nothing else shows.
LEMMA WorkersVerify ==
    ASSUME TypeInv, NEW w \in Workers, WorkerMove(w), UNCHANGED pvars
    PROVE  UNCHANGED receipt \/ \E s \in Stories : Delivery!Verify(s)
<1>1. /\ receipt \in [Stories -> MaybeVideo]
      /\ worker[w].pc = "reporting" => worker[w].story \in Stories /\ worker[w].video \in Videos
  BY DEF TypeInv, DownloadTypeOK, WorkerJobs, MaybeVideo
<1>2. CASE LinkReceipt(w) \/ ReceiptDiskError(w)
  <2>1. worker[w].story \in Stories /\ worker[w].video \in Videos
    BY <1>1, <1>2 DEF LinkReceipt, ReceiptDiskError, WorkerAt
  <2>2. \/ UNCHANGED receipt
        \/ /\ receipt[worker[w].story] = NoVideo
           /\ receipt' = [receipt EXCEPT ![worker[w].story] = worker[w].video]
    BY <1>2 DEF LinkReceipt, ReceiptDiskError, Reported, Receipt
  <2>3. UNCHANGED <<copy, package, stage>>
    BY DEF pvars
  <2>4. QED
    BY <2>1, <2>2, <2>3 DEF Delivery!Verify
<1>3. QED
  BY <1>2 DEF WorkerMove, WorkerStep, WorkerFault, ReadRequest, Pin, Compare, AwaitReceipt,
     GiveUp, Download,
     DownloadFails, LinkOutput, Leave, OutputDiskError, DisconnectFails, ConnectionCloses, Kill

\* Saving a success completes the story, if it was not complete before.
LEMMA SaveCompletes ==
    ASSUME TypeInv, DeliveryInv, SaveDone
    PROVE  UNCHANGED Completed \/ \E s \in Stories : Delivery!Complete(s)
<1> PICK s \in Stories : s = Story
  BY DEF TypeInv, RunnerType, AttemptOpen, SaveDone, At
<1>1. /\ s = Story /\ stage \in [Stories -> StageRecord]
      /\ stage' = [stage EXCEPT ![Story] = [status |-> "done", attempts |-> runner.attempts]]
      /\ UNCHANGED <<receipt, copy, package>>
  BY DEF TypeInv, RecordType, SaveDone, SaveRecord, dvars
<1>2. Completed' = Completed \cup {s}
  BY <1>1 DEF Completed
<1>3. copy[s] # NoVideo /\ package[s].complete /\ package[s].video = copy[s]
  BY <1>1 DEF SaveDone, At, DeliveryInv, Produced, IsDelivered
<1>4. Delivery!Complete(s)
  BY <1>1, <1>2, <1>3 DEF Delivery!Complete, Completed
<1>5. QED
  BY <1>4

\* Saving a failure shows nothing, unless it is a late one.
LEMMA FailureUndoes ==
    ASSUME TypeInv, SaveFailure
    PROVE  UNCHANGED Completed \/ \E s \in Stories : Delivery!Undo(s)
<1> PICK s \in Stories : s = Story
  BY DEF TypeInv, RunnerType, AttemptOpen, SaveFailure, At
<1>1. /\ s = Story /\ stage \in [Stories -> StageRecord]
      /\ stage' = [stage EXCEPT ![Story] = [status |-> "failed", attempts |-> runner.attempts]]
      /\ UNCHANGED <<receipt, copy, package>>
  BY DEF TypeInv, RecordType, SaveFailure, SaveRecord, dvars
<1>2. Completed' = Completed \ {s}
  BY <1>1 DEF Completed
<1>3. CASE s \notin Completed
  BY <1>2, <1>3
<1>4. CASE s \in Completed
  <2>1. stage[Story].status = "done"
    BY <1>1, <1>4 DEF Completed
  <2>2. "save" \in Faults \/ "report" \in Faults
    BY <2>1 DEF TypeInv, RunnerType, AttemptOpen, LateFaults, SaveFailure, At
  <2>3. Delivery!Undo(s)
    BY <1>1, <1>2, <1>4, <2>2 DEF Delivery!Undo, Completed
  <2>4. QED
    BY <2>3
<1>5. QED
  BY <1>3, <1>4

\* The copy delivers, and the package is taken apart and put together.
LEMMA MakesDeliver ==
    ASSUME TypeInv, DeliveryInv, CopyArtifact \/ BeginPackage \/ FinishPackage
    PROVE  \/ UNCHANGED <<receipt, copy, Packaged, Completed>>
           \/ \E s \in Stories : Delivery!Deliver(s) \/ Delivery!Unpack(s) \/ Delivery!Pack(s)
<1> PICK s \in Stories : s = Story
  BY DEF TypeInv, RunnerType, AttemptOpen, CopyArtifact, BeginPackage, FinishPackage, At
<1>1. /\ Story \in Stories /\ Story \notin Completed /\ UNCHANGED <<receipt, stage>>
      /\ copy \in [Stories -> MaybeVideo] /\ package \in [Stories -> PackageRecord]
  BY NotYetCounted DEF TypeInv, RunnerType, AttemptOpen, HandoffType, ProductType, CopyArtifact,
     BeginPackage, FinishPackage, At, Completed, dvars
<1>2. CASE CopyArtifact
  <2>1. receipt[Story] # NoVideo /\ runner.video = receipt[Story]
    BY <1>2 DEF CopyArtifact, At, DeliveryInv, Holding
  <2>2. CASE copy[Story] = NoVideo
    <3>1. copy' = [copy EXCEPT ![s] = receipt[s]] /\ UNCHANGED package
      BY <1>2, <2>1, <2>2 DEF CopyArtifact
    <3>2. Delivery!Deliver(s)
      BY <1>1, <2>1, <2>2, <3>1 DEF Delivery!Deliver
    <3>3. QED
      BY <1>1, <3>2
  <2>3. CASE copy[Story] # NoVideo
    BY <1>1, <1>2, <2>3 DEF CopyArtifact, Packaged, Completed
  <2>4. QED
    BY <2>2, <2>3
<1>3. CASE BeginPackage
  <2>1. package' = [package EXCEPT ![s] = NoPackage] /\ UNCHANGED copy
    BY <1>3 DEF BeginPackage
  <2>2. Packaged' = [Packaged EXCEPT ![s] = NoVideo]
    BY <1>1, <2>1 DEF Packaged, NoPackage
  <2>3. Delivery!Unpack(s)
    BY <1>1, <2>1, <2>2 DEF Delivery!Unpack, Packaged, Completed
  <2>4. QED
    BY <1>1, <2>3
<1>4. CASE FinishPackage
  <2>1. copy[Story] # NoVideo /\ final[Story].video = copy[Story]
    BY <1>4 DEF FinishPackage, At, DeliveryInv, Holding, Produced, PastCopy, PastOutro
  <2>2. /\ package'[Story].complete /\ package'[Story].video = copy[Story] /\ UNCHANGED copy
        /\ \A z \in Stories : z # s => package'[z] = package[z]
    BY <1>1, <1>4, <2>1 DEF FinishPackage
  <2>3. Packaged' = [Packaged EXCEPT ![s] = copy[s]]
    BY <1>1, <2>2 DEF Packaged
  <2>4. Delivery!Pack(s)
    BY <1>1, <2>1, <2>2, <2>3 DEF Delivery!Pack, Packaged, Completed
  <2>5. QED
    BY <1>1, <2>4
<1>5. QED
  BY <1>2, <1>3, <1>4

\* Every step.
LEMMA Refines ==
    ASSUME TypeInv, DeliveryInv, [Next]_vars
    PROVE  [Delivery!Next]_(Delivery!dvars)
<1>1. CASE UNCHANGED <<receipt, copy, Packaged, Completed>>
  BY <1>1 DEF Delivery!dvars, Packaged, Completed
<1>2. CASE UNCHANGED <<receipt, copy, package, stage>>
  BY <1>2 DEF Delivery!dvars
<1>3. ASSUME NEW w \in Workers, WorkerMove(w), UNCHANGED pvars
      PROVE  [Delivery!Next]_(Delivery!dvars)
  BY <1>2, <1>3, WorkersVerify DEF Delivery!Next, pvars
<1>4. CASE SaveDone \/ SaveFailure
  <2>1. UNCHANGED <<receipt, copy, package>>
    BY <1>4 DEF SaveDone, SaveFailure, dvars
  <2>2. UNCHANGED Packaged
    BY <2>1 DEF Packaged
  <2>3. QED
    BY <1>1, <1>4, <2>1, <2>2, SaveCompletes, FailureUndoes DEF Delivery!Next
<1>5. CASE RunnerStep
  <2>1. CASE VerifyArtifact \/ RecordHandoff \/ AppendOutro \/ RequestCaption \/ GenerateCaption
               \/ ReadCaption \/ MarkDone \/ AttemptFails \/ Report
    BY <1>2, <2>1 DEF VerifyArtifact, RecordHandoff, AppendOutro, RequestCaption, GenerateCaption,
       ReadCaption, MarkDone, AttemptFails, Report, dvars
  <2>2. ASSUME NEW w \in Workers, StartWorker(w) \/ WorkerSucceeds(w) \/ WorkerFails(w)
        PROVE  [Delivery!Next]_(Delivery!dvars)
    BY <1>2, <2>2 DEF StartWorker, WorkerSucceeds, WorkerFails
  <2>3. CASE CopyArtifact \/ BeginPackage \/ FinishPackage
    BY <1>1, <2>3, MakesDeliver DEF Delivery!Next
  <2>4. QED
    BY <1>4, <1>5, <2>1, <2>2, <2>3 DEF RunnerStep
<1>6. ASSUME NEW w \in Workers, OwnStep(w) PROVE [Delivery!Next]_(Delivery!dvars)
  BY <1>2, <1>3, <1>6 DEF OwnStep, WorkerMove, OrphanExits, pvars
<1>7. CASE Environment
  <2>1. ASSUME NEW s \in Stories, ClearDownload(s) PROVE [Delivery!Next]_(Delivery!dvars)
    <3>1. Delivery!Discard(s)
      BY <2>1 DEF ClearDownload, Delivery!Discard
    <3>2. QED
      BY <3>1 DEF Delivery!Next
  <2>2. ASSUME NEW s \in Stories, WriteScript(s) PROVE [Delivery!Next]_(Delivery!dvars)
    BY <1>2, <2>2 DEF WriteScript, dvars
  <2>3. ASSUME NEW c \in strays, LateCaption(c) PROVE [Delivery!Next]_(Delivery!dvars)
    BY <1>2, <2>3 DEF LateCaption, dvars
  <2>4. CASE Crash \/ GenerateNothing \/ LateFailure \/ SaveFailureFails
    BY <1>2, <2>4 DEF Crash, GenerateNothing, LateFailure, SaveFailureFails
  <2>5. QED
    BY <1>3, <1>7, <2>1, <2>2, <2>3, <2>4 DEF Environment, WorkerMove
<1>8. CASE UNCHANGED vars
  BY <1>2, <1>8 DEF vars, dvars, pvars
<1>9. ASSUME NEW s \in Stories, BeginAttempt(s) \/ Revisit(s)
      PROVE  [Delivery!Next]_(Delivery!dvars)
  BY <1>2, <1>9 DEF BeginAttempt, Revisit, dvars
<1>10. QED
  BY <1>5, <1>6, <1>7, <1>8, <1>9 DEF Next

\* Video production implements VerifiedDelivery, for any number of stories,
\* workers and faults: a video is delivered once and only after it was verified,
\* done means a package of it, and only a save or a report that fails after the
\* success was saved takes it back (runner.py: video_produced; cli.py:
\* command_stage).
THEOREM Implements == Spec => DeliversVerified
<1>1. Init => Delivery!Init
  BY DEF Init, DownloadInit, Delivery!Init, NoPackage
<1>2. TypeInv /\ DeliveryInv /\ [Next]_vars => [Delivery!Next]_(Delivery!dvars)
  BY Refines
<1>3. QED
  BY <1>1, <1>2, TypesHold, DeliveryHolds, PTL DEF Spec, DeliversVerified, Delivery!Spec
===============================================================================
