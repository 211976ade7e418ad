------------------------------ MODULE MCWorkflow ------------------------------
(***************************************************************************)
(* Small instances of Workflow.  Two invocations, one or two stories, one  *)
(* or two publication stages, and at most one fault.                       *)
(***************************************************************************)
EXTENDS Workflow, TLC

CONSTANTS s1, s2

OneStory == <<s1>>
TwoStories == <<s1, s2>>
OnePlatform == <<"x_published">>
TwoPlatforms == <<"instagram_published", "x_published">>

AllConfigured == Stages \ {"extracted"}
OnePublisher == NotebookStages \cup {"x_published"}
QueueOnly == {"video_queued"}

Real(cmd) == [cmd |-> cmd, story |-> s1, dry |-> FALSE]
Simulated(cmd) == [cmd |-> cmd, story |-> s1, dry |-> TRUE]

\* Every command, real and simulated, on the first story.
EveryRequest == {Real(cmd) : cmd \in Commands} \cup {Simulated(cmd) : cmd \in Commands}
RealRequests == {Real(cmd) : cmd \in Commands}
\* Real commands, queueing by resume only, and the one dry run that saves outside
\* the inner handler.
RealAndRehearsed == (RealRequests \ {Real("video_queued")}) \cup {Simulated("resume")}
\* What a crontab issues.
ResumeOnly == {[cmd |-> "resume", story |-> NoStory, dry |-> FALSE]}

ProcSymmetry == Permutations(Proc)
===============================================================================
