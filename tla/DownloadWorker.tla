---------------------------- MODULE DownloadWorker ----------------------------
(***************************************************************************)
(* The HP-local download worker: it looks for an output that is already    *)
(* there, else downloads the video, links it to the output path and then   *)
(* links the receipt, replacing neither.  Several workers may be at it at  *)
(* once: a runner that is killed leaves its worker behind.  A download has *)
(* no deadline, and a worker that cannot disconnect from the browser need   *)
(* not exit.  VideoProduction composes these steps with the runner.         *)
(***************************************************************************)
EXTENDS Naturals

CONSTANTS
    Stories,      \* story identifiers
    Workers,      \* worker processes that may be alive at the same time
    Paths,        \* output paths
    OutputOf,     \* story -> the output path of its request
    Videos,       \* contents a download may have
    Expected,     \* story -> the contents that pass verifyExpected
    RootsNested,  \* notebooklm_request_dir lies within notebooklm_output_root
    Faults,       \* kinds of fault that may strike
    MaxFaults,    \* bound on their number
    NoStory, NoVideo

ASSUME PathsAssumption == OutputOf \in [Stories -> Paths]
ASSUME VideosAssumption == Expected \in [Stories -> SUBSET Videos]
ASSUME AbsentAssumption == NoStory \notin Stories /\ NoVideo \notin Videos
ASSUME FaultsAssumption ==
    /\ Faults \subseteq {"crash", "kill", "disk", "clear", "silent", "save", "report"}
    /\ MaxFaults \in Nat /\ RootsNested \in BOOLEAN

VARIABLES
    output,    \* path -> the video there
    receipt,   \* story -> the video its download receipt describes
    worker,    \* worker process -> where it is, for which story, with which video
    faults     \* number of faults so far

dvars == <<output, receipt, worker, faults>>

Off == [pc |-> "off", story |-> NoStory, video |-> NoVideo, try |-> 1]
DownloadInit ==
    /\ output = [f \in Paths |-> NoVideo]
    /\ receipt = [s \in Stories |-> NoVideo]
    /\ worker = [w \in Workers |-> Off]
    /\ faults = 0

Fault(kind) == kind \in Faults /\ faults < MaxFaults /\ faults' = faults + 1
WorkerAt(w, l) == worker[w].pc = l
MoveWorker(w, l) == worker' = [worker EXCEPT ![w].pc = l]
Running(w) == worker[w].pc \notin {"off", "ok", "failed"}
Target(w) == OutputOf[worker[w].story]
Output(w) == output[Target(w)]
Receipt(w) == receipt[worker[w].story]

\* safePath: output and receipt must both lie within the request's allow_root.
SafePaths == RootsNested

ReadRequest(w) ==
    /\ WorkerAt(w, "starting")
    /\ MoveWorker(w, IF SafePaths THEN "looking" ELSE "failed")
    /\ UNCHANGED <<output, receipt, faults>>

\* verifyExistingArtifact opens and probes the output: at the start, or after
\* a link was refused.
Pin(w) ==
    /\ worker[w].pc \in {"looking", "polling"}
    /\ worker' = [worker EXCEPT ![w].video = Output(w), ![w].pc =
         CASE Output(w) = NoVideo -> IF @ = "looking" THEN "downloading" ELSE "quitting"
           [] Output(w) \in Videos \ Expected[worker[w].story] ->
                IF @ = "looking" THEN "failed" ELSE "quitting"
           [] OTHER -> IF @ = "looking" THEN "comparing" ELSE "awaiting"]
    /\ UNCHANGED <<output, receipt, faults>>

\* verifyExistingReceipt and verifyPinnedPathUnchanged.
Matches(w) == Receipt(w) = worker[w].video /\ Output(w) = worker[w].video

\* An output found at the start must have its receipt at once.
Compare(w) ==
    /\ WorkerAt(w, "comparing")
    /\ MoveWorker(w, IF Matches(w) THEN "ok" ELSE "failed")
    /\ UNCHANGED <<output, receipt, faults>>

\* After a refused link the receipt of the other worker is polled for.
AwaitReceipt(w) ==
    /\ WorkerAt(w, "awaiting")
    /\ Receipt(w) # NoVideo
    /\ MoveWorker(w, IF Matches(w) THEN "leaving" ELSE "quitting")
    /\ UNCHANGED <<output, receipt, faults>>

\* Mutant of PollEnds: the poll has no last attempt.
PollGoesOn(w) == FALSE
\* Forty attempts are over.
PollEnds(w) == Receipt(w) = NoVideo

GiveUp(w) ==
    /\ WorkerAt(w, "awaiting") /\ PollEnds(w)
    /\ MoveWorker(w, "quitting")
    /\ UNCHANGED <<output, receipt, faults>>

\* NotebookLM delivers a video, however long that takes, and the probe accepts it.
Download(w) ==
    /\ WorkerAt(w, "downloading")
    /\ \E v \in Expected[worker[w].story] :
         worker' = [worker EXCEPT ![w].video = v, ![w].pc = "linking"]
    /\ UNCHANGED <<output, receipt, faults>>

\* The loop of main: a second attempt, then the error is thrown.
Retry(w) ==
    worker' = [worker EXCEPT
        ![w].pc = IF worker[w].try = 1 THEN "downloading" ELSE "quitting", ![w].try = 2]

\* The page or the download fails, or the video is not as expected; before the
\* first attempt, the browser is not there, or has no authenticated context.
DownloadFails(w) ==
    /\ WorkerAt(w, "downloading")
    /\ \/ Retry(w)
       \/ worker[w].try = 1 /\ (MoveWorker(w, "failed") \/ MoveWorker(w, "quitting"))
    /\ UNCHANGED <<output, receipt, faults>>

\* Mutant of MayLink: the output is renamed over the one that is there.
MayRename(w) == TRUE
MayLink(w) == Output(w) = NoVideo

\* publishVerifiedDownload: link() refuses to replace an output (EEXIST).
LinkOutput(w) ==
    /\ WorkerAt(w, "linking")
    /\ IF MayLink(w)
       THEN output' = [output EXCEPT ![Target(w)] = worker[w].video] /\ MoveWorker(w, "reporting")
       ELSE UNCHANGED output /\ MoveWorker(w, "polling")
    /\ UNCHANGED <<receipt, faults>>

\* Mutant of Reported: the receipt is only printed.
ReportedOnStdout(w) == receipt
Reported(w) == [receipt EXCEPT ![worker[w].story] = worker[w].video]

\* atomicJson: likewise for the receipt.
LinkReceipt(w) ==
    /\ WorkerAt(w, "reporting")
    /\ IF Receipt(w) = NoVideo
       THEN receipt' = Reported(w) /\ MoveWorker(w, "leaving")
       ELSE UNCHANGED receipt /\ MoveWorker(w, "polling")
    /\ UNCHANGED <<output, faults>>

\* A file operation raises before or after the link: the loop tries again.
OutputDiskError(w) ==
    /\ WorkerAt(w, "linking") /\ Output(w) = NoVideo
    /\ Fault("disk")
    /\ \/ UNCHANGED output
       \/ output' = [output EXCEPT ![Target(w)] = worker[w].video]
    /\ Retry(w)
    /\ UNCHANGED receipt

ReceiptDiskError(w) ==
    /\ WorkerAt(w, "reporting") /\ Receipt(w) = NoVideo
    /\ Fault("disk")
    /\ \/ UNCHANGED receipt
       \/ receipt' = [receipt EXCEPT ![worker[w].story] = worker[w].video]
    /\ Retry(w)
    /\ UNCHANGED output

\* The finally clause disconnects the browser, after a success and after an error.
Leave(w) ==
    /\ worker[w].pc \in {"leaving", "quitting"}
    /\ MoveWorker(w, IF WorkerAt(w, "leaving") THEN "ok" ELSE "failed")
    /\ UNCHANGED <<output, receipt, faults>>

\* Disconnecting raises.  The exit code is only set: the socket that is still open
\* keeps the process.
DisconnectFails(w) ==
    /\ worker[w].pc \in {"leaving", "quitting"}
    /\ MoveWorker(w, "hanging")
    /\ UNCHANGED <<output, receipt, faults>>

\* The browser closes the connection, if it ever does.
ConnectionCloses(w) ==
    /\ WorkerAt(w, "hanging")
    /\ MoveWorker(w, "failed")
    /\ UNCHANGED <<output, receipt, faults>>

Kill(w) ==
    /\ Running(w)
    /\ Fault("kill")
    /\ MoveWorker(w, "failed")
    /\ UNCHANGED <<output, receipt>>

WorkerStep(w) ==
    \/ ReadRequest(w) \/ Pin(w) \/ Compare(w) \/ AwaitReceipt(w) \/ GiveUp(w)
    \/ Download(w) \/ DownloadFails(w) \/ LinkOutput(w) \/ LinkReceipt(w)
    \/ Leave(w) \/ DisconnectFails(w)
WorkerFault(w) == OutputDiskError(w) \/ ReceiptDiskError(w) \/ Kill(w)

WorkerPC == {"off", "starting", "looking", "comparing", "downloading", "linking",
             "reporting", "polling", "awaiting", "leaving", "quitting", "hanging", "ok", "failed"}

DownloadTypeOK ==
    /\ output \in [Paths -> Videos \cup {NoVideo}]
    /\ receipt \in [Stories -> Videos \cup {NoVideo}]
    /\ worker \in [Workers -> [pc : WorkerPC, story : Stories \cup {NoStory},
                               video : Videos \cup {NoVideo}, try : 1..2]]
    /\ faults \in 0..MaxFaults
================================================================================
