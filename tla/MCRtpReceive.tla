---------------------------- MODULE MCRtpReceive ----------------------------
(* What is sent to the session: audio, with the loop of the numbers and a    *)
(* packet without data; video, frames in parts and no resync; a jump forward *)
(* and back; a second source that outlasts the first, with and without a     *)
(* resync; keys, alone and among audio.                                      *)
EXTENDS RtpReceive

audio  == <<"peer", "media", 1>>
empty  == <<"peer", "empty", 1>>
part   == <<"peer", "media", 0>>
ahead  == <<"peer", "media", Jump>>
behind == <<"peer", "media", -Jump>>
other  == <<"stray", "media", 1>>
key    == <<"key">>

Audio(s) == [script |-> s, handled |-> TRUE]
Video(s) == [script |-> s, handled |-> FALSE]

SomeStreams ==
  {Audio(<<audio, audio, empty, audio, audio, audio>>), Video(<<audio, part, audio, part>>),
   Audio(<<audio, ahead, audio>>), Audio(<<audio, audio, behind, audio>>),
   Audio(<<audio, other, other, other, audio, audio>>),
   Video(<<audio, other, other, other, audio>>), Audio(<<key, key>>),
   Audio(<<audio, key, audio>>)}
=============================================================================
