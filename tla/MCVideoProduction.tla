-------------------------- MODULE MCVideoProduction --------------------------
(***************************************************************************)
(* Small instances of VideoProduction: one story, two workers, two         *)
(* downloads, two scripts; a ten second program with an eight second outro.*)
(***************************************************************************)
EXTENDS VideoProduction

CONSTANTS s1, v1, v2

OneOutput == [s \in Stories |-> "s1-notebooklm.mp4"]
BothExpected == [s \in Stories |-> {v1, v2}]

Program == [videoStart |-> 500, videoLength |-> 10000, audioStart |-> 500,
            audioLength |-> 10000, frame |-> 33, audios |-> 1, size |-> "1080p", pcm |-> "talk",
            signature |-> "aac", packets |-> "original", comparable |-> TRUE]
Silent == [Program EXCEPT !.videoStart = 0, !.videoLength = 8000, !.audios = 0, !.pcm = "none"]
Appended == [Program EXCEPT !.videoLength = 18000]
\* What ffmpeg may do wrong: the picture starts early, the outro is cut off, the
\* sound is encoded anew.
Renders == {Appended, [Appended EXCEPT !.videoStart = 0], [Appended EXCEPT !.videoLength = 17000],
            [Appended EXCEPT !.pcm = "resampled"]}
==============================================================================
