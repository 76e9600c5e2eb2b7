----------------------------- MODULE MCPuWatch -----------------------------
(* Instances of PuWatch for TLC. *)
EXTENDS PuWatch

CONSTANTS k1, k2

Two == {k1, k2}
OneDead == {k1}
Direct == {First}
Both == {First, Other}
=============================================================================
