----------------------------- MODULE MCTalkBack -----------------------------
(***************************************************************************)
(* Instances of TalkBack: two or three CUs, two CSGs.  No two CUs and no   *)
(* two CSGs are told apart by the specification.                           *)
(***************************************************************************)
EXTENDS TalkBack, TLC

CONSTANTS u1, u2, u3, g1, g2

TwoCUs == {u1, u2}
ThreeCUs == {u1, u2, u3}
TwoCsgs == {g1, g2}

Symmetry == Permutations(CU) \cup Permutations(Csg)

=============================================================================
