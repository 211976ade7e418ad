----------------------------- MODULE OutroTimeline -----------------------------
(***************************************************************************)
(* media.py: may a rendered video (the source followed by the silent       *)
(* branded outro) be kept?  A medium is what ffprobe and the hashes say of *)
(* it, times in milliseconds.                                              *)
(***************************************************************************)
EXTENDS Integers

Media == [videoStart : Int, videoLength : Int, audioStart : Int, audioLength : Int,
          frame : Nat, audios : Nat, size : STRING, pcm : STRING, signature : STRING,
          packets : STRING, comparable : BOOLEAN]

Distance(a, b) == IF a >= b THEN a - b ELSE b - a
AtLeast(a, b) == IF a >= b THEN a ELSE b
VideoEnd(m) == m.videoStart + m.videoLength
AudioEnd(m) == m.audioStart + m.audioLength
AudioOffset(m) == m.audioStart - m.videoStart

\* Two frames of the source, one frame, and their lower limits.
VideoTolerance(source) == AtLeast(100, 2 * source.frame)
AudioTolerance(source) == AtLeast(50, source.frame)

\* Checked before ffmpeg is started.
MayAppend(source, outro) ==
    source.audios = 1 /\ outro.audios = 0 /\ source.size = outro.size

\* Packets are compared only where a remux keeps them (AAC in MP4).
SameAudio(source, final) ==
    /\ final.pcm = source.pcm
    /\ final.audios = 1
    /\ final.signature = source.signature
    /\ source.comparable /\ final.comparable => final.packets = source.packets

\* Mutant of SameTimeline: the offset between audio and video is not looked at.
SameTimelineWithoutOffset(source, final) ==
    /\ Distance(final.audioStart, source.audioStart) <= AudioTolerance(source)
    /\ Distance(AudioEnd(final), AudioEnd(source)) <= AudioTolerance(source)

SameTimeline(source, final) ==
    /\ Distance(final.audioStart, source.audioStart) <= AudioTolerance(source)
    /\ Distance(AudioOffset(final), AudioOffset(source)) <= AudioTolerance(source)
    /\ Distance(AudioEnd(final), AudioEnd(source)) <= AudioTolerance(source)

HasDurations(m) == m.videoLength > 0 /\ m.audioLength > 0

OutroIncluded(source, outro, final) ==
    /\ Distance(final.videoLength, source.videoLength + outro.videoLength)
         <= VideoTolerance(source)
    /\ Distance(final.audioLength, source.audioLength) <= 50
    /\ final.videoLength > final.audioLength

\* The rendered video replaces an earlier one only if every check passes.
Accepted(source, outro, final) ==
    /\ MayAppend(source, outro)
    /\ SameAudio(source, final)
    /\ HasDurations(source) /\ outro.videoLength > 0 /\ HasDurations(final)
    /\ OutroIncluded(source, outro, final)
    /\ SameTimeline(source, final)

\* How long the picture runs on after the sound has ended.
Tail(m) == VideoEnd(m) - AudioEnd(m)

\* Whatever the tolerances add up to, the outro lengthens the silent tail and
\* the sound ends when it ended.
KeepsProgram(source, outro, final) ==
    /\ final.pcm = source.pcm
    /\ Distance(AudioEnd(final), AudioEnd(source)) <= AudioTolerance(source)
    /\ Tail(final) >= Tail(source) + outro.videoLength
                        - VideoTolerance(source) - 3 * AudioTolerance(source)
================================================================================
