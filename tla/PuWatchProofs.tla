--------------------------- MODULE PuWatchProofs ---------------------------
(***************************************************************************)
(* The safety of the stream watchdog, for every number of streams, entries *)
(* and list nodes and every lag of the walk.                               *)
(*                                                                         *)
(* The watchdog works on a list that changes under its feet.  What keeps   *)
(* it inside the list is that every removal moves its node with the list,  *)
(* whoever removes; what keeps it from a wild pTransfer is that it has     *)
(* read one before it clears, removes and wipes.                           *)
(***************************************************************************)
EXTENDS PuWatch, ListLemmas

\* The first position of e in a list, 0 if there is none, and all of them.
FirstPlace(s, e) == SelectInSeq(s, LAMBDA f : f = e)
Places(s, e) == { i \in 1..Len(s) : s[i] = e }

(* The first place of an element, and the list without it. *)
LEMMA RemovedFirst ==
  ASSUME NEW S, NEW s \in Seq(S), NEW e
  PROVE  /\ FirstPlace(s, e) \in 0..Len(s)
         /\ RemoveFirst(s, e) \in Seq(S)
         /\ Len(RemoveFirst(s, e)) = IF FirstPlace(s, e) = 0 THEN Len(s)
                                                            ELSE Len(s) - 1
<1>. DEFINE at == FirstPlace(s, e)
<1>1. at = IF Places(s, e) # {} THEN Min(Places(s, e)) ELSE 0
  BY DEF FirstPlace, SelectInSeq, Places
<1>2. RemoveFirst(s, e) = IF Places(s, e) # {} THEN RemoveAt(s, at) ELSE s
  BY DEF RemoveFirst, FirstPlace, SelectInSeq, Places
<1>3. Places(s, e) \in SUBSET (1..Len(s)) /\ Len(s) \in Nat
  BY DEF Places
<1>. HIDE DEF at
<1>4. CASE Places(s, e) = {}
  BY <1>1, <1>2, <1>3, <1>4 DEF at
<1>5. CASE Places(s, e) # {}
  <2>1. at \in 1..Len(s)
    BY <1>1, <1>3, <1>5, MinOfNaturals
  <2>2. /\ SubSeq(s, 1, at - 1) \in Seq(S) /\ Len(SubSeq(s, 1, at - 1)) = at - 1
        /\ SubSeq(s, at + 1, Len(s)) \in Seq(S)
        /\ Len(SubSeq(s, at + 1, Len(s))) = Len(s) - at
    BY <1>3, <2>1
  <2>3. RemoveAt(s, at) \in Seq(S) /\ Len(RemoveAt(s, at)) = Len(s) - 1
    <3>. DEFINE before == SubSeq(s, 1, at - 1)
                after  == SubSeq(s, at + 1, Len(s))
    <3>1. RemoveAt(s, at) = before \o after
      BY DEF RemoveAt
    <3>2. /\ before \in Seq(S) /\ after \in Seq(S)
          /\ Len(before) = at - 1 /\ Len(after) = Len(s) - at
      BY <2>2
    <3>. HIDE DEF before, after
    <3>. QED  BY <1>3, <2>1, <3>1, <3>2
  <2>. QED  BY <1>2, <1>3, <1>5, <2>1, <2>3 DEF at
<1>. QED  BY <1>4, <1>5

-----------------------------------------------------------------------------
(* The inductive invariant: the types, with those of the call in progress, *)
(* the watchdog inside the list, and its entry read before it is used.     *)

CallType == [at : {"idle", "lock", "locked"}, op : Ops \cup {"none"},
             stream : Stream \cup {NoStream}, from : {First, Other},
             head : BOOLEAN, freed : BOOLEAN]

WatchInv ==
  /\ TypeOK
  /\ io \in CallType
  /\ pos <= Len(list)
  /\ walk \in {"clear", "remove", "wipe"} => current \in Entry

(* The start, and every new start after a crash. *)
LEMMA StartInv ==
  /\ Init => WatchInv
  /\ Crash => WatchInv'
<1>1. /\ NoCall \in CallType
      /\ [e \in Entry |-> NoStream] \in [Entry -> Stream \cup {NoStream}]
      /\ [e \in Entry |-> Other] \in [Entry -> {First, Other}]
      /\ [e \in Entry |-> FALSE] \in [Entry -> BOOLEAN]
      /\ MaxAge \in Nat /\ MaxLag \in Nat /\ MaxNodes \in Nat
      /\ [e \in Entry |-> 0] \in [Entry -> 0..MaxAge]
      /\ <<>> \in Seq(Entry) /\ Len(<<>>) = 0
  BY WatchAssumption DEF NoCall, CallType, Ops, MaxAge, WatchAssumption
<1>2. Init => WatchInv
  BY <1>1, WatchAssumption DEF Init, WatchInv, TypeOK, NoCall, WatchAssumption
<1>3. Crash => WatchInv'
  BY <1>1, WatchAssumption DEF Crash, WatchInv, TypeOK, NoCall, WatchAssumption
<1>. QED  BY <1>2, <1>3

\* What holds of the list and of the node the watchdog points to.
InList == list \in Seq(Entry) /\ Len(list) <= MaxNodes /\ pos \in 0..Len(list)

(* A removal, whoever makes it, keeps the watchdog's node inside the list. *)
LEMMA RemovalInList ==
  ASSUME InList, NEW e, g_list_remove(e)
  PROVE  InList'
<1>. DEFINE at == FirstPlace(list, e)
<1>1. /\ list' = RemoveFirst(list, e)
      /\ pos' = CASE at = 0 \/ pos < at -> pos
                  [] pos = at -> 0
                  [] OTHER    -> pos - 1
  BY DEF g_list_remove, FirstPlace
<1>2. /\ at \in 0..Len(list)
      /\ list' \in Seq(Entry)
      /\ Len(list') = IF at = 0 THEN Len(list) ELSE Len(list) - 1
  BY <1>1, RemovedFirst DEF InList
<1>3. Len(list) \in Nat /\ MaxNodes \in Nat
  BY WatchAssumption DEF InList, WatchAssumption
<1>. HIDE DEF at
<1>4. CASE at = 0 \/ pos < at
  BY <1>1, <1>2, <1>3, <1>4 DEF InList
<1>5. CASE at # 0 /\ pos = at
  BY <1>1, <1>2, <1>3, <1>5 DEF InList
<1>6. CASE at # 0 /\ pos > at
  BY <1>1, <1>2, <1>3, <1>6 DEF InList
<1>. QED  BY <1>2, <1>3, <1>4, <1>5, <1>6 DEF InList

(* A cleared entry keeps the types. *)
LEMMA WipeTypes ==
  ASSUME TypeOK, NEW e \in Entry, Wipe(e)
  PROVE  /\ key' \in [Entry -> Stream \cup {NoStream}]
         /\ node' \in [Entry -> {First, Other}]
         /\ viewed' \in [Entry -> BOOLEAN]
         /\ age' \in [Entry -> 0..MaxAge]
<1>1. 0 \in 0..MaxAge
  BY WatchAssumption DEF MaxAge, WatchAssumption
<1>. QED  BY <1>1 DEF TypeOK, Wipe

(* The types of what the handlers of the I/O thread write. *)
EntryTypes ==
  /\ key \in [Entry -> Stream \cup {NoStream}]
  /\ node \in [Entry -> {First, Other}]
  /\ viewed \in [Entry -> BOOLEAN]
  /\ age \in [Entry -> 0..MaxAge]

LEMMA OpenKeeps ==
  ASSUME WatchInv, NEW k \in Stream \cup {NoStream}, NEW n \in {First, Other},
         avInsertList(k, n), UNCHANGED pos
  PROVE  EntryTypes' /\ InList'
<1>. USE DEF EntryTypes, InList
<1>1. 0 \in 0..MaxAge /\ Len(list) \in Nat /\ MaxNodes \in Nat
  BY WatchAssumption DEF MaxAge, WatchAssumption, WatchInv, TypeOK
<1>2. CASE \E e \in EntriesOf(k) :
             /\ viewed' = [viewed EXCEPT ![e] = TRUE]
             /\ UNCHANGED <<list, key, node, age>>
  BY <1>1, <1>2 DEF WatchInv, TypeOK, EntriesOf
<1>3. ASSUME NEW e \in Entry, Len(list) < MaxNodes, list' = Append(list, e),
             key' = [key EXCEPT ![e] = k], node' = [node EXCEPT ![e] = n],
             viewed' = [viewed EXCEPT ![e] = TRUE],
             age' = IF n = First THEN [age EXCEPT ![e] = 0] ELSE age
      PROVE  EntryTypes' /\ InList'
  <2>1. /\ list \in Seq(Entry) /\ age \in [Entry -> 0..MaxAge]
        /\ pos \in 0..Len(list)
    BY DEF WatchInv, TypeOK
  <2>2. list' \in Seq(Entry) /\ Len(list') = Len(list) + 1
    BY <1>3, <2>1
  <2>3. InList'
    BY <1>1, <1>3, <2>1, <2>2
  <2>4. age' \in [Entry -> 0..MaxAge]
    BY <1>1, <1>3, <2>1
  <2>5. EntryTypes'
    BY <1>3, <2>4 DEF WatchInv, TypeOK
  <2>. QED  BY <2>3, <2>5
<1>4. CASE UNCHANGED <<entries, age>>
  BY <1>1, <1>4 DEF WatchInv, TypeOK, entries
<1>. QED  BY <1>2, <1>3, <1>4 DEF avInsertList

LEMMA RemoveKeeps ==
  ASSUME WatchInv, NEW k, removeTransfer(k)
  PROVE  EntryTypes' /\ InList'
<1>1. InList
  BY DEF InList, WatchInv, TypeOK
<1>2. ASSUME NEW e \in EntriesOf(k), g_list_remove(e), Wipe(e)
      PROVE  EntryTypes' /\ InList'
  <2>1. e \in Entry
    BY DEF EntriesOf
  <2>2. EntryTypes'
    BY <1>2, <2>1, WipeTypes DEF EntryTypes, WatchInv
  <2>. QED  BY <1>1, <1>2, <2>2, RemovalInList
<1>3. CASE UNCHANGED <<entries, age, pos>>
  BY <1>1, <1>3 DEF InList, EntryTypes, WatchInv, TypeOK, entries
<1>. QED  BY <1>2, <1>3 DEF removeTransfer

LEMMA MediaKeeps ==
  ASSUME WatchInv, NEW k, mdu_datafrom_csg(k), UNCHANGED pos
  PROVE  EntryTypes' /\ InList'
<1>1. 0 \in 0..MaxAge
  BY WatchAssumption DEF MaxAge, WatchAssumption
<1>2. age' \in [Entry -> 0..MaxAge]
  BY <1>1 DEF mdu_datafrom_csg, WatchInv, TypeOK
<1>. QED  BY <1>2 DEF EntryTypes, InList, mdu_datafrom_csg, WatchInv, TypeOK, entries

-----------------------------------------------------------------------------
(* Every step keeps the invariant. *)

LEMMA CallKeeps ==
  ASSUME WatchInv, NEW op \in Ops, NEW k \in Stream, NEW n \in Nodes, Call(op, k, n)
  PROVE  WatchInv'
<1>1. io' \in CallType
  BY WatchAssumption DEF Call, CallType, WatchAssumption
<1>. QED  BY <1>1 DEF Call, WatchInv, TypeOK, CallType, entries, watchdog

LEMMA LockKeeps ==
  ASSUME WatchInv, Lock
  PROVE  WatchInv'
<1>1. io' \in CallType
  BY DEF Lock, WatchInv, CallType
<1>. QED  BY <1>1 DEF Lock, WatchInv, TypeOK, CallType, entries, watchdog

LEMMA HandleKeeps ==
  ASSUME WatchInv, Handle
  PROVE  WatchInv'
<1>1. CASE Crash
  BY <1>1, StartInv
<1>2. CASE /\ \/ io.op = "open" /\ avInsertList(io.stream, io.from) /\ UNCHANGED pos
              \/ io.op \in {"close", "stop"} /\ removeTransfer(io.stream)
              \/ io.op = "media" /\ mdu_datafrom_csg(io.stream) /\ UNCHANGED pos
           /\ Unlock
           /\ UNCHANGED <<lag, walk, current>>
  <2>1. io.stream \in Stream \cup {NoStream} /\ io.from \in {First, Other}
    BY DEF WatchInv, CallType
  <2>2. EntryTypes' /\ InList'
    BY <1>2, <2>1, OpenKeeps, RemoveKeeps, MediaKeeps
  <2>3. io' \in CallType /\ lock' = "free"
    BY <1>2 DEF Unlock, NoCall, CallType, Ops
  <2>4. Len(list') \in Nat /\ MaxNodes \in Nat
    BY <2>2, WatchAssumption DEF InList, WatchAssumption
  <2>. QED  BY <1>2, <2>2, <2>3, <2>4
            DEF WatchInv, TypeOK, EntryTypes, InList, CallType
<1>. QED  BY <1>1, <1>2 DEF Handle

LEMMA WatchdogKeeps ==
  ASSUME WatchInv, puExistTime
  PROVE  WatchInv'
<1>1. /\ InList /\ Len(list) \in Nat /\ MaxNodes \in Nat /\ MaxLag \in Nat
      /\ MaxAge \in Nat
  BY WatchAssumption DEF InList, WatchInv, TypeOK, WatchAssumption, MaxAge
<1>2. CASE WatchHead
  <2>1. Len(list) > 0
    BY <1>1, <1>2 DEF WatchHead, InList
  <2>. QED  BY <1>1, <1>2, <2>1, WatchAssumption
            DEF WatchHead, WatchInv, TypeOK, entries, WatchAssumption
<1>3. CASE WatchLock
  BY <1>1, <1>3 DEF WatchLock, WatchInv, TypeOK, entries
<1>4. CASE WatchLook
  <2>1. CASE Crash
    BY <2>1, StartInv
  <2>2. ASSUME pos # 0
        PROVE  list[pos] \in Entry
    BY <1>1, <2>2 DEF InList
  <2>3. CASE ~Crash
    BY <1>1, <1>4, <2>2, <2>3 DEF WatchLook, WatchInv, TypeOK, entries
  <2>. QED  BY <2>1, <2>3
<1>5. CASE WatchClear
  BY <1>5 DEF WatchClear, WatchInv, TypeOK
<1>6. CASE WatchRemove
  <2>1. InList'
    BY <1>1, <1>6, RemovalInList DEF WatchRemove
  <2>2. io' \in CallType
    <3>1. /\ io \in CallType
          /\ io' = [io EXCEPT !.freed = @ \/ (io.head /\ list # <<>> /\ list[1] = current)]
      BY <1>6 DEF WatchRemove, WatchInv
    <3>2. (io.freed \/ (io.head /\ list # <<>> /\ list[1] = current)) \in BOOLEAN
      OBVIOUS
    <3>. QED  BY <3>1, <3>2 DEF CallType
  <2>3. Len(list') \in Nat
    BY <2>1 DEF InList
  <2>. QED  BY <1>1, <1>6, <2>1, <2>2, <2>3
            DEF WatchRemove, WatchInv, TypeOK, InList, CallType
<1>7. CASE WatchWipe
  <2>1. EntryTypes'
    BY <1>7, WipeTypes DEF WatchWipe, WatchInv, EntryTypes
  <2>. QED  BY <1>7, <2>1 DEF WatchWipe, WatchInv, TypeOK, EntryTypes
<1>8. CASE WatchNext
  <2>1. Successor \in 0..Len(list)
    BY <1>1 DEF Successor, InList
  <2>. QED  BY <1>1, <1>8, <2>1 DEF WatchNext, WatchInv, TypeOK, entries
<1>. QED  BY <1>2, <1>3, <1>4, <1>5, <1>6, <1>7, <1>8 DEF puExistTime

LEMMA TickKeeps ==
  ASSUME WatchInv, Tick
  PROVE  WatchInv'
<1>1. MaxLag \in Nat /\ MaxAge \in Nat
  BY WatchAssumption DEF WatchAssumption, MaxAge
<1>2. lag' \in 0..MaxLag
  BY <1>1 DEF Tick, WatchInv, TypeOK
<1>3. age' \in [Entry -> 0..MaxAge]
  BY <1>1 DEF Tick, WatchInv, TypeOK
<1>. QED  BY <1>2, <1>3 DEF Tick, WatchInv, TypeOK, entries, watchdog

LEMMA NextKeeps ==
  ASSUME WatchInv, [Next]_vars
  PROVE  WatchInv'
<1>1. CASE UNCHANGED vars
  BY <1>1 DEF vars, entries, watchdog, WatchInv, TypeOK
<1>2. CASE IoStep
  BY <1>2, CallKeeps, LockKeeps, HandleKeeps DEF IoStep
<1>. QED  BY <1>1, <1>2, WatchdogKeeps, TickKeeps DEF Next

(* The types hold; in them, the watchdog's node is one of the list at all  *)
(* times, although the handlers remove nodes while it walks (puExistTime). *)
THEOREM AlwaysTyped == Spec => []TypeOK
<1>1. Init => WatchInv
  BY StartInv
<1>2. WatchInv /\ [Next]_vars => WatchInv'
  BY NextKeeps
<1>3. WatchInv => TypeOK
  BY DEF WatchInv
<1>. QED  BY <1>1, <1>2, <1>3, PTL DEF Spec

-----------------------------------------------------------------------------
(* The watchdog decides to end only a stream that is listed and that the   *)
(* CMU opened first, and either it was silent for too long or its media    *)
(* came after the watchdog read its clock: the unsigned difference,        *)
(* and nothing else, turns it against a live stream (mdusock.c:1544).      *)
SilentOrAhead ==
  [][walk = "look" /\ walk' = "clear" =>
       /\ Listed(current') /\ node[current'] = First
       /\ age[current'] > Limit \/ age[current'] < lag]_vars

LEMMA SilenceIsAge ==
  ASSUME WatchInv, NEW e \in Entry, lag <= age[e], Silence(e) > Limit
  PROVE  age[e] > Limit
<1>1. /\ age[e] \in 0..MaxAge /\ lag \in Nat /\ MaxAge \in Nat
      /\ TimeRange \in Nat \ {0} /\ TimeRange > MaxAge /\ Limit \in Nat
  BY WatchAssumption DEF WatchInv, TypeOK, WatchAssumption, MaxAge
<1>2. age[e] - lag \in 0..(TimeRange - 1)
  BY <1>1
<1>3. (age[e] - lag) % TimeRange = age[e] - lag
  BY <1>1, <1>2, ModSmall
<1>. QED  BY <1>1, <1>3 DEF Silence

(* puExistTime keeps to that rule: what SilentOnly misses is the clock.    *)
THEOREM EndsSilentOrAhead == Spec => SilentOrAhead
<1>. DEFINE Rule ==
       walk = "look" /\ walk' = "clear" =>
         /\ Listed(current') /\ node[current'] = First
         /\ age[current'] > Limit \/ age[current'] < lag
<1>1. Init => WatchInv
  BY StartInv
<1>2. WatchInv /\ [Next]_vars => WatchInv'
  BY NextKeeps
<1>3. ASSUME WatchInv, [Next]_vars, walk = "look", walk' = "clear"
      PROVE  /\ Listed(current') /\ node[current'] = First
             /\ age[current'] > Limit \/ age[current'] < lag
  <2>1. /\ pos # 0 /\ current' = list[pos]
        /\ node[list[pos]] = First /\ Silence(list[pos]) > Limit
    <3>1. ~ UNCHANGED vars
      BY <1>3 DEF vars, watchdog
    <3>2. ~ Tick
      BY <1>3 DEF Tick, watchdog
    <3>3. ~ IoStep
      BY <1>3 DEF IoStep, Call, Lock, Handle, Crash, watchdog
    <3>4. WatchLook
      BY <1>3, <3>1, <3>2, <3>3
      DEF Next, puExistTime, WatchHead, WatchLock, WatchClear, WatchRemove,
          WatchWipe, WatchNext
    <3>. QED  BY <1>3, <3>4 DEF WatchLook, Crash
  <2>2. pos \in 1..Len(list) /\ list[pos] \in Entry
    BY <1>3, <2>1 DEF WatchInv, TypeOK
  <2>3. Listed(current')
    BY <2>1, <2>2 DEF Listed, Contains
  <2>4. age[list[pos]] \in Int /\ lag \in Int
    BY <1>3, <2>2 DEF WatchInv, TypeOK
  <2>. QED  BY <1>3, <2>1, <2>2, <2>3, <2>4, SilenceIsAge
<1>4. WatchInv /\ [Next]_vars => [Rule]_vars
  BY <1>3
<1>. QED  BY <1>1, <1>2, <1>4, PTL DEF Spec, SilentOrAhead


=============================================================================
