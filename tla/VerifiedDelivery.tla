--------------------------- MODULE VerifiedDelivery ---------------------------
(***************************************************************************)
(* What video production promises, whatever processes do the work: a video *)
(* is delivered to the pipeline once and only after it was verified, and a *)
(* story is done with a package of exactly the delivered video.  It may be *)
(* taken off the done ones again, where failures are recorded late.        *)
(***************************************************************************)
CONSTANTS Stories, Videos, NoVideo,
          LateFailures    \* a failure may be recorded over a success

VARIABLES
    verified,   \* story -> the video a receipt vouches for
    delivered,  \* story -> the video the pipeline works with
    packaged,   \* story -> the video in a complete content package
    done        \* stories whose production is recorded as done

dvars == <<verified, delivered, packaged, done>>

Init ==
    /\ verified = [s \in Stories |-> NoVideo]
    /\ delivered = [s \in Stories |-> NoVideo]
    /\ packaged = [s \in Stories |-> NoVideo]
    /\ done = {}

Verify(s) ==
    /\ verified[s] = NoVideo
    /\ \E v \in Videos : verified' = [verified EXCEPT ![s] = v]
    /\ UNCHANGED <<delivered, packaged, done>>

\* The operator throws a download away; what was delivered stays.
Discard(s) ==
    /\ verified' = [verified EXCEPT ![s] = NoVideo]
    /\ UNCHANGED <<delivered, packaged, done>>

Deliver(s) ==
    /\ delivered[s] = NoVideo /\ verified[s] # NoVideo
    /\ delivered' = [delivered EXCEPT ![s] = verified[s]]
    /\ UNCHANGED <<verified, packaged, done>>

\* A package is taken apart only while the story is not done.
Unpack(s) ==
    /\ s \notin done
    /\ packaged' = [packaged EXCEPT ![s] = NoVideo]
    /\ UNCHANGED <<verified, delivered, done>>

Pack(s) ==
    /\ s \notin done /\ delivered[s] # NoVideo
    /\ packaged' = [packaged EXCEPT ![s] = delivered[s]]
    /\ UNCHANGED <<verified, delivered, done>>

Complete(s) ==
    /\ delivered[s] # NoVideo /\ packaged[s] = delivered[s]
    /\ done' = done \cup {s}
    /\ UNCHANGED <<verified, delivered, packaged>>

\* The record of a success is overwritten.
Undo(s) ==
    /\ LateFailures /\ s \in done
    /\ done' = done \ {s}
    /\ UNCHANGED <<verified, delivered, packaged>>

Next ==
    \E s \in Stories :
        \/ Verify(s) \/ Discard(s) \/ Deliver(s) \/ Unpack(s) \/ Pack(s) \/ Complete(s)
        \/ Undo(s)

Spec == Init /\ [][Next]_dvars
===============================================================================
