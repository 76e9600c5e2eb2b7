---------------------------- MODULE MCMduStreams ----------------------------
(* Instances of MduStreams for TLC.                                        *)
EXTENDS MduStreams, TLC

CONSTANTS u1, u2, u3,   \* client units
          p1, p2,       \* device channels
          a1, a2        \* ports

Video(pu, s) == [pu |-> pu, sub |-> s, media |-> "vod"]
Audio(pu)    == [pu |-> pu, sub |-> 0, media |-> "aod"]

TwoCUs   == {u1, u2}
ThreeCUs == {u1, u2, u3}
OnePU    == {p1}
TwoPUs   == {p1, p2}

MainOnly == {0}
OnePort  == {a1}
TwoPorts == {a1, a2}

(* Two video streams of different devices. *)
TwoVideos == {Video(p1, 0), Video(p2, 0)}
(* A video stream and the sound of the same device. *)
VideoAndAudio == {Video(p1, 0), Audio(p1)}

Direct    == {FirstNode}
Relayed   == {OtherNode}
NoRoute   == {FALSE}
AnyRoute  == {FALSE, TRUE}
AllFreed  == {"stale"}
AnyFreed  == {"null", "stale"}

(* What a step can depend on: neither the messages of the last handler nor *)
(* the history of what CUs said is read by any handler.                    *)
TablesOnly == <<tables, cmd, asked>>

(* The CUs are interchangeable, and so are the ports. *)
Symmetry == Permutations(CU) \cup Permutations(Port)
=============================================================================
