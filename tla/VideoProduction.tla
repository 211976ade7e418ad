---------------------------- MODULE VideoProduction ----------------------------
(***************************************************************************)
(* produce-video: the runner asks a download worker for the video, hands   *)
(* the verified video over, has the outro appended and the caption         *)
(* written, and packages the result.  There is one runner at a time (the   *)
(* repository lock of Workflow); the workers and the caption generator it  *)
(* started live on when it is killed.  What it saves is the story it       *)
(* loaded, so a script stored meanwhile is lost.                           *)
(***************************************************************************)
EXTENDS DownloadWorker, OutroTimeline

CONSTANTS
    MaxRetries,  \* cfg.max_retries
    Scripts,     \* final scripts; a caption is named after its script
    NoScript,
    Original,    \* the medium every download is
    Outro,       \* the branded outro
    Cuts         \* media that ffmpeg may leave when the outro is appended

ASSUME RetriesAssumption == MaxRetries \in 1..10
ASSUME ScriptsAssumption == NoScript \notin Scripts
ASSUME MediaAssumption == Original \in Media /\ Outro \in Media /\ Cuts \subseteq Media

VARIABLES
    runner,   \* the invocation that holds the lock: where it is, and its memory,
              \* with the attempts of its story that it has counted
    stage,    \* story -> the video_produced record in the state file
    script,   \* story -> wispr_final_script in the state file
    copy,     \* story -> notebooklm-original.mp4 in the handoff directory
    handoff,  \* story -> the video handoff.json describes
    final,    \* story -> final-with-branded-outro.mp4
    caption,  \* story -> caption.md in the handoff directory
    package,  \* story -> the content package
    strays,   \* captions that generators may still write whose runner was killed
    cleared   \* output paths the operator has cleared

pvars == <<runner, stage, script, copy, handoff, final, caption, package, strays, cleared>>
vars == <<dvars, pvars>>

Idle == [pc |-> "idle", story |-> NoStory, worker |-> "none", script |-> NoScript,
         video |-> NoVideo, caption |-> NoScript, attempts |-> 0]
NoFinal == [video |-> NoVideo, cut |-> Original]
NoPackage == [video |-> NoVideo, caption |-> NoScript, complete |-> FALSE]

Init ==
    /\ DownloadInit
    /\ runner = Idle
    /\ stage = [s \in Stories |-> [status |-> "pending", attempts |-> 0]]
    /\ script = [s \in Stories |-> NoScript]
    /\ copy = [s \in Stories |-> NoVideo]
    /\ handoff = [s \in Stories |-> NoVideo]
    /\ final = [s \in Stories |-> NoFinal]
    /\ caption = [s \in Stories |-> NoScript]
    /\ package = [s \in Stories |-> NoPackage]
    /\ strays = {}
    /\ cleared = {}

At(l) == runner.pc = l
Goto(l) == runner' = [runner EXCEPT !.pc = l]
Story == runner.story

\* The save of the copy loaded at the start overwrites the whole state file, a
\* script stored since included.
SavedScript == runner.script

SaveRecord(status) ==
    /\ stage' = [stage EXCEPT ![Story] = [status |-> status, attempts |-> runner.attempts]]
    /\ script' = [script EXCEPT ![Story] = SavedScript]

\* The state file is loaded.
Load(s, l, attempts) ==
    runner' = [Idle EXCEPT !.pc = l, !.story = s, !.script = script[s], !.attempts = attempts]

\* Mutants of MayAttempt: off by one; a story that is done is produced again.
MayAttemptLate(s) == stage[s].status # "done" /\ stage[s].attempts <= MaxRetries
MayAttemptAgain(s) == stage[s].attempts < MaxRetries
MayAttempt(s) == stage[s].status # "done" /\ stage[s].attempts < MaxRetries

\* An attempt is counted in memory; the earlier stages and the adapters are in place.
BeginAttempt(s) ==
    /\ At("idle") /\ MayAttempt(s)
    /\ Load(s, "requesting", stage[s].attempts + 1)
    /\ UNCHANGED <<dvars, stage, script, copy, handoff, final, caption, package, strays, cleared>>

\* run_stage returns at once if the stage is done, and raises if its budget is spent.
Revisit(s) ==
    /\ At("idle")
    /\ \/ stage[s].status = "done" /\ Load(s, "saving", stage[s].attempts)
       \/ /\ stage[s].status # "done" /\ stage[s].attempts >= MaxRetries
          /\ Load(s, "failing", stage[s].attempts)
    /\ UNCHANGED <<dvars, stage, script, copy, handoff, final, caption, package, strays, cleared>>

\* validate_notebook_request wants output and receipt within allow_root.
RequestValid == SafePaths

StartWorker(w) ==
    /\ At("requesting") /\ RequestValid
    /\ worker[w] = Off
    /\ worker' = [worker EXCEPT ![w] = [Off EXCEPT !.pc = "starting", !.story = Story]]
    /\ runner' = [runner EXCEPT !.pc = "waiting", !.worker = w]
    /\ UNCHANGED <<output, receipt, faults, stage, script, copy, handoff, final, caption,
                   package, strays, cleared>>

Awaited(w) == At("waiting") /\ runner.worker = w

WorkerSucceeds(w) ==
    /\ Awaited(w) /\ WorkerAt(w, "ok")
    /\ worker' = [worker EXCEPT ![w] = Off]
    /\ runner' = [runner EXCEPT !.pc = "verifying", !.worker = "none"]
    /\ UNCHANGED <<output, receipt, faults, stage, script, copy, handoff, final, caption,
                   package, strays, cleared>>

WorkerFails(w) ==
    /\ Awaited(w) /\ WorkerAt(w, "failed")
    /\ worker' = [worker EXCEPT ![w] = Off]
    /\ runner' = [runner EXCEPT !.pc = "failing", !.worker = "none"]
    /\ UNCHANGED <<output, receipt, faults, stage, script, copy, handoff, final, caption,
                   package, strays, cleared>>

\* A receipt is there; a worker writes no other than a well-formed one for its request.
ReceiptAccepted == receipt[Story] # NoVideo
ArtifactMatches == output[OutputOf[Story]] = receipt[Story]

\* _verified_download_artifact pins the output the receipt describes.
VerifyArtifact ==
    /\ At("verifying") /\ ReceiptAccepted /\ ArtifactMatches
    /\ runner' = [runner EXCEPT !.pc = "copying", !.video = receipt[Story]]
    /\ UNCHANGED <<dvars, stage, script, copy, handoff, final, caption, package, strays, cleared>>

\* Mutant of MayCopy: an earlier copy is taken as it is.
MayCopyAnyway == TRUE
\* An earlier copy must be of the same video.
MayCopy == copy[Story] \in {NoVideo, runner.video}

\* _atomic_copy_to_directory links the copy into place unless it is there.
CopyArtifact ==
    /\ At("copying") /\ MayCopy
    /\ copy' = [copy EXCEPT ![Story] = IF @ = NoVideo THEN runner.video ELSE @]
    /\ Goto("recording")
    /\ UNCHANGED <<dvars, stage, script, handoff, final, caption, package, strays, cleared>>

RecordHandoff ==
    /\ At("recording")
    /\ handoff' = [handoff EXCEPT ![Story] = runner.video]
    /\ Goto("rendering")
    /\ UNCHANGED <<dvars, stage, script, copy, final, caption, package, strays, cleared>>

\* A rendered video that passes every check replaces the earlier one.
AppendOutro ==
    /\ At("rendering")
    /\ \E cut \in Cuts :
         /\ Accepted(Original, Outro, cut)
         /\ final' = [final EXCEPT ![Story] = [video |-> copy[Story], cut |-> cut]]
    /\ Goto("writing")
    /\ UNCHANGED <<dvars, stage, script, copy, handoff, caption, package, strays, cleared>>

\* The script is asked for only now, and from the copy in memory.
RequestCaption ==
    /\ At("writing") /\ runner.script # NoScript
    /\ Goto("generating")
    /\ UNCHANGED <<dvars, stage, script, copy, handoff, final, caption, package, strays, cleared>>

GenerateCaption ==
    /\ At("generating")
    /\ caption' = [caption EXCEPT ![Story] = runner.script]
    /\ Goto("reading")
    /\ UNCHANGED <<dvars, stage, script, copy, handoff, final, package, strays, cleared>>

\* The generator exits with success and has written nothing.
GenerateNothing ==
    /\ At("generating")
    /\ Fault("silent")
    /\ Goto("reading")
    /\ UNCHANGED <<output, receipt, worker, stage, script, copy, handoff, final, caption,
                   package, strays, cleared>>

\* read_generated_caption takes the file that is there.
ReadCaption ==
    /\ At("reading") /\ caption[Story] # NoScript
    /\ runner' = [runner EXCEPT !.pc = "packaging", !.caption = caption[Story]]
    /\ UNCHANGED <<dvars, stage, script, copy, handoff, final, caption, package, strays, cleared>>

\* Mutant of NextToPackage: the record is saved before the manifest is written.
AfterPackage == "saving"
NextToPackage == "finishing"

\* The package is rewritten in place.
BeginPackage ==
    /\ At("packaging")
    /\ package' = [package EXCEPT ![Story] = NoPackage]
    /\ Goto(NextToPackage)
    /\ UNCHANGED <<dvars, stage, script, copy, handoff, final, caption, strays, cleared>>

FinishPackage ==
    /\ At("finishing")
    /\ package' = [package EXCEPT ![Story] =
         [video |-> final[Story].video, caption |-> runner.caption, complete |-> TRUE]]
    /\ Goto("checking")
    /\ UNCHANGED <<dvars, stage, script, copy, handoff, final, caption, strays, cleared>>

\* The audio of the story, if it has one, is as it was; mark_done.
MarkDone ==
    /\ At("checking")
    /\ Goto("saving")
    /\ UNCHANGED <<dvars, stage, script, copy, handoff, final, caption, package, strays, cleared>>

\* A check of the step refuses, or the step raises: a field the story lacks, an
\* earlier stage that is not done, a file that cannot be written.
AttemptFails ==
    /\ runner.pc \notin {"idle", "waiting", "saving", "reporting", "failing"}
    /\ Goto("failing")
    /\ UNCHANGED <<dvars, stage, script, copy, handoff, final, caption, package, strays, cleared>>

SaveDone ==
    /\ At("saving")
    /\ SaveRecord("done")
    /\ Goto("reporting")
    /\ UNCHANGED <<dvars, copy, handoff, final, caption, package, strays, cleared>>

Report ==
    /\ At("reporting")
    /\ runner' = Idle
    /\ UNCHANGED <<dvars, stage, script, copy, handoff, final, caption, package, strays, cleared>>

\* The save or the report raises: the handler takes over, whatever is on record.
LateFailure ==
    /\ \/ At("saving") /\ Fault("save")
       \/ At("reporting") /\ Fault("report")
    /\ Goto("failing")
    /\ UNCHANGED <<output, receipt, worker, stage, script, copy, handoff, final, caption,
                   package, strays, cleared>>

\* The handler records the failure, over a success too, or cannot.
SaveFailure ==
    /\ At("failing")
    /\ SaveRecord("failed")
    /\ runner' = Idle
    /\ UNCHANGED <<dvars, copy, handoff, final, caption, package, strays, cleared>>
SaveFailureFails ==
    /\ At("failing")
    /\ Fault("save")
    /\ runner' = Idle
    /\ UNCHANGED <<output, receipt, worker, stage, script, copy, handoff, final, caption,
                   package, strays, cleared>>

\* The runner is killed and the operator removes its lock; its worker and its
\* caption generator are not.
Crash ==
    /\ ~At("idle")
    /\ Fault("crash")
    /\ strays' = IF At("generating")
                 THEN strays \cup {[story |-> Story, script |-> runner.script]}
                 ELSE strays
    /\ runner' = Idle
    /\ UNCHANGED <<output, receipt, worker, stage, script, copy, handoff, final, caption,
                   package, cleared>>

\* An abandoned worker ends, and nobody reads its exit code.
OrphanExits(w) ==
    /\ worker[w].pc \in {"ok", "failed"} /\ ~Awaited(w)
    /\ worker' = [worker EXCEPT ![w] = Off]
    /\ UNCHANGED <<output, receipt, faults, pvars>>

\* An abandoned generator writes its caption.
LateCaption(c) ==
    /\ caption' = [caption EXCEPT ![c.story] = c.script]
    /\ strays' = strays \ {c}
    /\ UNCHANGED <<dvars, runner, stage, script, copy, handoff, final, package, cleared>>

\* The Wispr integration stores a script, whatever the runner is doing.
WriteScript(s) ==
    /\ \E x \in Scripts : x # script[s] /\ script' = [script EXCEPT ![s] = x]
    /\ UNCHANGED <<dvars, runner, stage, copy, handoff, final, caption, package, strays, cleared>>

\* Between attempts the operator removes an output and its receipt.
ClearDownload(s) ==
    /\ At("idle")
    /\ Fault("clear")
    /\ output' = [output EXCEPT ![OutputOf[s]] = NoVideo]
    /\ receipt' = [receipt EXCEPT ![s] = NoVideo]
    /\ cleared' = cleared \cup {OutputOf[s]}
    /\ UNCHANGED <<worker, runner, stage, script, copy, handoff, final, caption, package, strays>>

RunnerStep ==
    \/ \E w \in Workers : StartWorker(w) \/ WorkerSucceeds(w) \/ WorkerFails(w)
    \/ VerifyArtifact \/ CopyArtifact \/ RecordHandoff \/ AppendOutro
    \/ RequestCaption \/ GenerateCaption \/ ReadCaption \/ BeginPackage \/ FinishPackage
    \/ MarkDone \/ AttemptFails \/ SaveDone \/ Report \/ SaveFailure
OwnStep(w) == (WorkerStep(w) /\ UNCHANGED pvars) \/ OrphanExits(w)
Environment ==
    \/ Crash \/ GenerateNothing \/ LateFailure \/ SaveFailureFails
    \/ \E w \in Workers : (WorkerFault(w) \/ ConnectionCloses(w)) /\ UNCHANGED pvars
    \/ \E c \in strays : LateCaption(c)
    \/ \E s \in Stories : WriteScript(s) \/ ClearDownload(s)

Next ==
    \/ \E s \in Stories : BeginAttempt(s) \/ Revisit(s)
    \/ RunnerStep
    \/ \E w \in Workers : OwnStep(w)
    \/ Environment

Spec == Init /\ [][Next]_vars

\* Cron starts attempts again and again, and neither runner nor worker stops half-way,
\* except where it waits without a deadline: for the caption generator, for the video
\* that NotebookLM delivers, and for the browser to close a connection.
FairSpec ==
    /\ Spec
    /\ \A s \in Stories : SF_vars(BeginAttempt(s))
    /\ WF_vars(~At("generating") /\ RunnerStep)
    /\ \A w \in Workers : WF_vars(worker[w].pc \notin {"downloading", "hanging"} /\ OwnStep(w))

(***************************************************************************)
(* Properties.                                                             *)
(***************************************************************************)
RunnerPC == {"idle", "requesting", "waiting", "verifying", "copying", "recording",
             "rendering", "writing", "generating", "reading", "packaging", "finishing",
             "checking", "saving", "reporting", "failing"}
MaybeVideo == Videos \cup {NoVideo}
MaybeScript == Scripts \cup {NoScript}

\* Every variable has its type, and no record counts more attempts than allowed
\* (runner.py: run_stage).
TypeOK ==
    /\ DownloadTypeOK
    /\ runner \in [pc : RunnerPC, story : Stories \cup {NoStory},
                   worker : Workers \cup {"none"}, script : MaybeScript,
                   video : MaybeVideo, caption : MaybeScript, attempts : 0..MaxRetries]
    /\ ~At("idle") => Story \in Stories
    /\ stage \in [Stories -> [status : {"pending", "failed", "done"}, attempts : 0..MaxRetries]]
    /\ script \in [Stories -> MaybeScript]
    /\ copy \in [Stories -> MaybeVideo]
    /\ handoff \in [Stories -> MaybeVideo]
    /\ final \in [Stories -> [video : MaybeVideo, cut : Media]]
    /\ caption \in [Stories -> MaybeScript]
    /\ package \in [Stories -> [video : MaybeVideo, caption : MaybeScript, complete : BOOLEAN]]
    /\ strays \subseteq [story : Stories, script : MaybeScript]
    /\ cleared \subseteq Paths

\* A download receipt describes the video at the output path, whichever workers
\* raced for it, as long as the operator has not interfered (mjs: the two
\* link() calls and verifyExistingArtifact).
ReceiptDescribesOutput ==
    \A s \in Stories :
        receipt[s] # NoVideo /\ OutputOf[s] \notin cleared => output[OutputOf[s]] = receipt[s]

\* An output that no receipt vouches for, and for which no worker is about to
\* write one, would fail every later worker: only a fault leaves one behind
\* (mjs: publishVerifiedDownload first, atomicJson second).
StrandedOnlyByFault ==
    \A f \in Paths : output[f] # NoVideo /\ faults = 0 =>
        \/ \E s \in Stories : OutputOf[s] = f /\ receipt[s] # NoVideo
        \/ \E w \in Workers : WorkerAt(w, "reporting") /\ Target(w) = f

PastCopy == {"recording", "rendering", "writing", "generating", "reading", "packaging",
             "finishing", "checking"}

\* From the handoff on the runner works with the very video the receipt
\* vouches for, though it reads receipt, output and an earlier copy at
\* different times (handoff.py: handoff_notebooklm_video).
HandedOffIsVerified ==
    runner.pc \in PastCopy =>
        /\ copy[Story] = receipt[Story] /\ receipt[Story] # NoVideo
        /\ output[OutputOf[Story]] = receipt[Story]

\* A story is recorded as done only with a complete package of the video that
\* was handed off, and stays so whatever abandoned processes do.
DoneIsDelivered ==
    \A s \in Stories : stage[s].status = "done" =>
        /\ package[s].complete /\ package[s].video = copy[s] /\ copy[s] # NoVideo
        /\ handoff[s] = copy[s] /\ final[s].video = copy[s]

\* Whatever ffmpeg made of it, a final video that was kept has the program's
\* sound, ending when it ended, and the whole outro but for the tolerances
\* (media.py: append_branded_outro_preserve_audio).
FinalKeepsProgram ==
    \A s \in Stories : final[s] # NoFinal => KeepsProgram(Original, Outro, final[s].cut)

\* captions.py "Caption copy is generated from the final Wispr script, not from an early
\* story draft": a story is recorded as done with a caption of the script it is
\* recorded with.
CaptionOfFinalScript ==
    [][\A s \in Stories : stage[s].status # "done" /\ stage'[s].status = "done" =>
         package[s].caption = script'[s]]_vars

\* Production delivers each story as VerifiedDelivery promises.  Only the failure of a
\* save or of a report is recorded over a success (command_stage).
Delivery == INSTANCE VerifiedDelivery WITH
    LateFailures <- "save" \in Faults \/ "report" \in Faults,
    verified <- receipt, delivered <- copy,
    packaged <- [s \in Stories |-> IF package[s].complete THEN package[s].video ELSE NoVideo],
    done <- {s \in Stories : stage[s].status = "done"}
DeliversVerified == Delivery!Spec

\* The waits that have no deadline: for the caption generator, and for a worker that
\* waits for its download or for its connection to close.
WaitsOutside ==
    \/ At("generating")
    \/ \E w \in Workers : Awaited(w) /\ worker[w].pc \in {"downloading", "hanging"}

\* Attempt after attempt, every story is produced or its budget is spent, unless the
\* runner comes to wait for ever outside: no other wait is without end (mjs: forty
\* polls), and no failure, early or late, lets a story be attempted for ever.
EventuallySettled ==
    \/ \A s \in Stories : <>[](stage[s].status = "done" \/ stage[s].attempts = MaxRetries)
    \/ <>[]WaitsOutside

\* README "`project_root`, `notebooklm_request_dir`, `notebooklm_output_root`, and
\* `content_root` are independent trusted deployment roots": where they lie does
\* not keep a request from its worker.
IndependentRootsReachWorker ==
    At("requesting") /\ (\E w \in Workers : worker[w] = Off) =>
        ENABLED \E w \in Workers : StartWorker(w)
================================================================================
