---------------------------- MODULE Subscriptions ----------------------------
(***************************************************************************)
(* What the MDU's tables promise, without the tables: a set of             *)
(* subscriptions <<cu, stream>> and the set of streams the MDU has asked   *)
(* its source for and not released since.                                  *)
(*                                                                         *)
(* A CU takes or gives up one subscription at a time; a stream is asked    *)
(* for when a CU needs it and released only when its last CU gives it up;  *)
(* a stream that breaks loses all its CUs together; a restart forgets      *)
(* every subscription.  MduStreams implements this specification.          *)
(***************************************************************************)

CONSTANTS CU,      \* client units
          Stream   \* media streams

VARIABLES subs,      \* the subscriptions, a subset of CU \X Stream
          upstream   \* streams asked for and not released

avars == <<subs, upstream>>

Viewers(k) == {u \in CU : <<u, k>> \in subs}

Init == /\ subs = {}
        /\ upstream = {}

(* A CU subscribes; the source is asked for the stream if it was not. *)
Subscribe(u, k) ==
    /\ subs' = subs \cup {<<u, k>>}
    /\ upstream' = upstream \cup {k}

(* There is no room to record the CU, the source is asked nevertheless. *)
Refuse(k) ==
    /\ upstream' = upstream \cup {k}
    /\ UNCHANGED subs

(* A CU gives up its subscription; the last one releases the stream. *)
Unsubscribe(u, k) ==
    /\ <<u, k>> \in subs
    /\ subs' = subs \ {<<u, k>>}
    /\ upstream' = IF Viewers(k) = {u} THEN upstream \ {k} ELSE upstream

(* A stream fails: all its CUs lose it in one step. *)
Drop(k) ==
    /\ subs' = {s \in subs : s[2] # k}
    /\ UNCHANGED upstream

Restart ==
    /\ subs' = {}
    /\ UNCHANGED upstream

Next ==
    \/ \E u \in CU, k \in Stream : Subscribe(u, k) \/ Unsubscribe(u, k)
    \/ \E k \in Stream : Refuse(k) \/ Drop(k)
    \/ Restart

Spec == Init /\ [][Next]_avars
=============================================================================
