------------------------------ MODULE AsyncOps ------------------------------
(***************************************************************************)
(* What a proactor promises of the operations submitted to it              *)
(* (src/include/io_queue.h): a submission either returns its result at     *)
(* once, and is never reported, or is pending; a pending operation is      *)
(* reported to its callback once, and it is reported as long as the key    *)
(* stays registered.                                                       *)
(***************************************************************************)
EXTENDS Naturals

CONSTANT Operations

VARIABLES
  state,    \* of each operation: "new", "returned" or "pending"
  reported, \* how often its callback was called
  closed    \* the key has been unregistered

vars == <<state, reported, closed>>

TypeOK ==
  /\ state \in [Operations -> {"new", "returned", "pending"}]
  /\ reported \in [Operations -> 0..1]
  /\ closed \in BOOLEAN

Submit(o) ==
  /\ state[o] = "new"
  /\ \/ state' = [state EXCEPT ![o] = "returned"]
     \/ ~closed /\ state' = [state EXCEPT ![o] = "pending"]
  /\ UNCHANGED <<reported, closed>>

Complete(o) ==
  /\ state[o] = "pending" /\ reported[o] = 0
  /\ reported' = [reported EXCEPT ![o] = 1]
  /\ UNCHANGED <<state, closed>>

Close ==
  /\ ~closed
  /\ closed' = TRUE
  /\ UNCHANGED <<state, reported>>

Init ==
  /\ state = [o \in Operations |-> "new"]
  /\ reported = [o \in Operations |-> 0]
  /\ closed = FALSE

Next == Close \/ \E o \in Operations : Submit(o) \/ Complete(o)

Spec == Init /\ [][Next]_vars

\* A pending operation of a registered key is completed.
FairSpec ==
  Spec /\ \A o \in Operations : WF_vars(~closed /\ Complete(o))
=============================================================================
