---------------------------- MODULE MCCmuSession ----------------------------
(***************************************************************************)
(* Instances of CmuSession: localid as in the shipped MDU.conf.            *)
(***************************************************************************)
EXTENDS CmuSession

Minus1 == -1

=============================================================================
