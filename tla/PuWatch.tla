------------------------------ MODULE PuWatch ------------------------------
(***************************************************************************)
(* The watchdog thread puExistTime and the I/O thread on m_pTransferList.  *)
(*                                                                         *)
(* Every five seconds the watchdog walks the list and drops the streams of *)
(* which no media came for fifteen.  It reads the head of the list before  *)
(* it takes m_transferListMutex, and gives the mutex back at the end of    *)
(* each iteration: from the second entry on it works unlocked, and its     *)
(* unlock releases whoever holds the mutex.  The handlers of the I/O       *)
(* thread run under the mutex, but destoryPUList and mdu_datafrom_csg read *)
(* the head before it too.                                                 *)
(*                                                                         *)
(* Time is relative and counted in periods of five seconds: age[e] is how  *)
(* long ago puLastTime of entry e was set, lag how long ago the watchdog   *)
(* read its clock.  The next pointer of a freed list node is NULL, as      *)
(* g_slice leaves it; its data is another chunk's address or NULL.         *)
(*                                                                         *)
(* Abstracted: a stream has one CU, so that a CLOSE empties its CU list;   *)
(* the CULINKs and m_subscribeListMutex (see MduStreams).                  *)
(***************************************************************************)
EXTENDS Integers, Sequences, SequencesExt

CONSTANTS
  Stream,     \* the streams (STREAMKEY)
  Dead,       \* streams whose source sends nothing any more
  MaxCalls,   \* number of transfer entries (MAX_CALLS)
  Nodes,      \* who opens: subset of {First, Other}
  Limit,      \* periods of silence that are tolerated (15 s)
  MaxLag,     \* bound: periods a walk of the watchdog may take
  MaxNodes,   \* bound: nodes of the list
  TimeRange,  \* values of a guint (2^32)
  NoStream,   \* key of an entry cleared by memset
  NoEntry     \* a NULL pointer

First == "first"
Other == "other"
Entry == 1..MaxCalls
MaxAge == Limit + MaxLag + 1

ASSUME WatchAssumption ==
  /\ Dead \subseteq Stream /\ NoStream \notin Stream /\ NoEntry \notin Entry
  /\ Nodes \subseteq {First, Other}
  /\ MaxCalls \in Nat \ {0} /\ MaxNodes \in Nat
  /\ Limit \in Nat \ {0} /\ MaxLag \in Nat \ {0}
  /\ TimeRange \in Nat /\ TimeRange > Limit + MaxAge

VARIABLES
  list,      \* m_pTransferList: the entries, in order
  key,       \* mStreamKey of an entry
  node,      \* mduNode of an entry
  viewed,    \* mCUList of an entry is not empty
  age,       \* periods since puLastTime of an entry was set
  lag,       \* periods since tlast of the watchdog was set
  lock,      \* owner of m_transferListMutex: "free", "io" or "watch"
  io,        \* the I/O thread: where it is, its call, the head it read
  walk,      \* where the watchdog is
  pos,       \* the node its pCurrent points to, 0 when that node is freed
  current    \* its pTransfer

entries == <<list, key, node, viewed>>
watchdog == <<walk, pos, current>>
vars == <<entries, age, lag, lock, io, watchdog>>

Ops == {"open", "close", "stop", "media"}
NoCall == [at |-> "idle", op |-> "none", stream |-> NoStream, from |-> First,
           head |-> FALSE, freed |-> FALSE]

Init ==
  /\ list = <<>>
  /\ key = [e \in Entry |-> NoStream] /\ node = [e \in Entry |-> Other]
  /\ viewed = [e \in Entry |-> FALSE]
  /\ age = [e \in Entry |-> 0] /\ lag = 0
  /\ lock = "free"
  /\ io = NoCall
  /\ walk = "head" /\ pos = 0 /\ current = NoEntry

-----------------------------------------------------------------------------
Listed(e) == Contains(list, e)
EntriesOf(k) == { e \in Entry : Listed(e) /\ key[e] = k }
FirstFree(e) == ~viewed[e] /\ \A f \in Entry : f < e => viewed[f]

(* Mutant: the walk ends behind the node.                                  *)
SuccessorNone == 0

\* g_list_next of the watchdog's node.
Successor == IF pos \in 1..(Len(list) - 1) THEN pos + 1 ELSE 0

\* The first node of entry e is freed: whoever points to it points to freed
\* memory.
g_list_remove(e) ==
  LET at == SelectInSeq(list, LAMBDA f : f = e)
  IN /\ list' = RemoveFirst(list, e)
     /\ pos' = CASE at = 0 \/ pos < at -> pos
                [] pos = at -> 0
                [] OTHER    -> pos - 1

\* memset of entry e.
Wipe(e) ==
  /\ key' = [key EXCEPT ![e] = NoStream]
  /\ node' = [node EXCEPT ![e] = Other]
  /\ viewed' = [viewed EXCEPT ![e] = FALSE]
  /\ age' = [age EXCEPT ![e] = 0]

\* The process dies of a bad pointer and is started again.
Crash ==
  /\ list' = <<>>
  /\ key' = [e \in Entry |-> NoStream] /\ node' = [e \in Entry |-> Other]
  /\ viewed' = [e \in Entry |-> FALSE]
  /\ age' = [e \in Entry |-> 0] /\ lag' = 0
  /\ lock' = "free" /\ io' = NoCall
  /\ walk' = "head" /\ pos' = 0 /\ current' = NoEntry

-----------------------------------------------------------------------------
(* The I/O thread.                                                         *)

\* A handler is called; two of them read the head of the list at once.
Call(op, k, n) ==
  /\ io.at = "idle"
  /\ op = "media" => k \notin Dead
  /\ op # "open" => n = First
  /\ io' = [at |-> "lock", op |-> op, stream |-> k, from |-> n,
            head |-> op \in {"stop", "media"} /\ list # <<>>, freed |-> FALSE]
  /\ UNCHANGED <<entries, age, lag, lock, watchdog>>

Lock ==
  /\ io.at = "lock" /\ lock = "free"
  /\ lock' = "io"
  /\ io' = [io EXCEPT !.at = "locked"]
  /\ UNCHANGED <<entries, age, lag, watchdog>>

(* Mutant: the search of a stream that is not listed does not end.         *)
UnlockFound ==
  IF io.op = "close" /\ EntriesOf(io.stream) = {}
  THEN UNCHANGED <<lock, io>>
  ELSE lock' = "free" /\ io' = NoCall

Unlock ==
  /\ lock' = "free"
  /\ io' = NoCall

\* The entry of stream k that a walk from the head finds.
Found(k, e) ==
  /\ e \in EntriesOf(k)
  /\ io.op \in {"stop", "media"} => io.head /\ ~io.freed

(* Mutant: mduNode is not set.                                             *)
avInsertListOther(k, n) ==
  \E e \in Entry :
    /\ EntriesOf(k) = {} /\ FirstFree(e) /\ Len(list) < MaxNodes
    /\ list' = Append(list, e)
    /\ key' = [key EXCEPT ![e] = k]
    /\ node' = [node EXCEPT ![e] = "none"]
    /\ viewed' = [viewed EXCEPT ![e] = TRUE]
    /\ age' = [age EXCEPT ![e] = 0]

\* avInsertList: a listed stream gets its CU; another one takes the first
\* free entry, and its time starts if the CMU opened it.
avInsertList(k, n) ==
  \/ \E e \in EntriesOf(k) :
       /\ viewed' = [viewed EXCEPT ![e] = TRUE]
       /\ UNCHANGED <<list, key, node, age>>
  \/ \E e \in Entry :
       /\ EntriesOf(k) = {} /\ FirstFree(e) /\ Len(list) < MaxNodes
       /\ list' = Append(list, e)
       /\ key' = [key EXCEPT ![e] = k]
       /\ node' = [node EXCEPT ![e] = n]
       /\ viewed' = [viewed EXCEPT ![e] = TRUE]
       /\ age' = IF n = First THEN [age EXCEPT ![e] = 0] ELSE age
  \/ /\ EntriesOf(k) = {}
     /\ (\A e \in Entry : viewed[e]) \/ Len(list) = MaxNodes
     /\ UNCHANGED <<entries, age>>

\* removeTransfer and destoryPUList: the entry is unlisted and cleared.
removeTransfer(k) ==
  \/ \E e \in EntriesOf(k) : Found(k, e) /\ g_list_remove(e) /\ Wipe(e)
  \/ /\ \A e \in EntriesOf(k) : ~Found(k, e)
     /\ UNCHANGED <<entries, age, pos>>

\* mdu_datafrom_csg: media postpones the end of its stream.
mdu_datafrom_csg(k) ==
  /\ age' = [e \in Entry |-> IF e \in EntriesOf(k) /\ Found(k, e) /\ node[e] = First
                             THEN 0 ELSE age[e]]
  /\ UNCHANGED entries

\* What the handler does under the mutex.  From a head that was freed in the
\* meantime it finds nothing, or the process dies.
Handle ==
  /\ io.at = "locked"
  /\ \/ /\ \/ io.op = "open" /\ avInsertList(io.stream, io.from) /\ UNCHANGED pos
           \/ io.op \in {"close", "stop"} /\ removeTransfer(io.stream)
           \/ io.op = "media" /\ mdu_datafrom_csg(io.stream) /\ UNCHANGED pos
        /\ Unlock
        /\ UNCHANGED <<lag, walk, current>>
     \/ io.op \in {"stop", "media"} /\ io.freed /\ Crash

-----------------------------------------------------------------------------
(* The watchdog.                                                           *)

\* tlast.tv_sec - pTransfer->puLastTime, a guint: unsigned where the glong of
\* tv_sec has 32 bits, as here.
Silence(e) == (age[e] - lag) % TimeRange

\* The head is read without the mutex; a walk starts when the list is not
\* empty and the last walk is a period ago.
WatchHead ==
  /\ walk = "head" /\ list # <<>> /\ lag >= 1
  /\ pos' = 1
  /\ lag' = 0
  /\ walk' = "lock"
  /\ UNCHANGED <<entries, age, lock, io, current>>

WatchLock ==
  /\ walk = "lock" /\ lock = "free"
  /\ lock' = "watch"
  /\ walk' = "look"
  /\ UNCHANGED <<entries, age, lag, io, pos, current>>

\* The stream of the current node: silent for too long or not.  The CMU is
\* told of a silent one.
WatchLook ==
  /\ walk = "look"
  /\ \/ /\ pos # 0
        /\ current' = list[pos]
        /\ walk' = IF node[list[pos]] = First /\ Silence(list[pos]) > Limit
                   THEN "clear" ELSE "next"
        /\ UNCHANGED <<entries, age, lag, lock, io, pos>>
     \/ /\ pos = 0
        /\ walk' = "next"
        /\ UNCHANGED <<entries, age, lag, lock, io, pos, current>>
     \/ pos = 0 /\ Crash

\* The CUs of the silent stream are removed ...
WatchClear ==
  /\ walk = "clear"
  /\ viewed' = [viewed EXCEPT ![current] = FALSE]
  /\ walk' = "remove"
  /\ UNCHANGED <<list, key, node, age, lag, lock, io, pos, current>>

\* ... then its node, which the I/O thread may hold as the head ...
WatchRemove ==
  /\ walk = "remove"
  /\ g_list_remove(current)
  /\ io' = [io EXCEPT !.freed = @ \/ (io.head /\ list # <<>> /\ list[1] = current)]
  /\ walk' = "wipe"
  /\ UNCHANGED <<key, node, viewed, age, lag, lock, current>>

\* ... and the entry is cleared.
WatchWipe ==
  /\ walk = "wipe"
  /\ Wipe(current)
  /\ walk' = "next"
  /\ UNCHANGED <<list, lag, lock, io, pos, current>>

\* The next node, read from the current one, which may have been freed; the
\* mutex is released whoever holds it, and not taken for the next iteration.
WatchNext ==
  /\ walk = "next"
  /\ pos' = Successor
  /\ walk' = IF Successor = 0 THEN "head" ELSE "look"
  /\ current' = NoEntry
  /\ lock' = "free"
  /\ UNCHANGED <<entries, age, lag, io>>

puExistTime ==
  \/ WatchHead \/ WatchLock \/ WatchLook \/ WatchClear \/ WatchRemove
  \/ WatchWipe \/ WatchNext

-----------------------------------------------------------------------------
\* A period passes; a walk takes at most MaxLag of them.
Tick ==
  /\ walk # "head" => lag < MaxLag
  /\ lag' = IF lag < MaxLag THEN lag + 1 ELSE lag
  /\ age' = [e \in Entry |-> IF node[e] = First /\ age[e] < MaxAge
                             THEN age[e] + 1 ELSE age[e]]
  /\ UNCHANGED <<entries, lock, io, watchdog>>

IoStep ==
  \/ \E op \in Ops, k \in Stream, n \in Nodes : Call(op, k, n)
  \/ Lock
  \/ Handle

Next == IoStep \/ puExistTime \/ Tick

Spec == Init /\ [][Next]_vars

(***************************************************************************)
(* Fairness: the scheduler runs both threads, a thread that waits for the  *)
(* mutex gets it in the end, and time goes on.  Nobody has to call.        *)
(***************************************************************************)
FairSpec ==
  /\ Spec
  /\ SF_vars(puExistTime)
  /\ SF_vars(Lock) /\ WF_vars(Handle) /\ WF_vars(Tick)

-----------------------------------------------------------------------------
(* Properties.                                                             *)

\* The types of the variables.
TypeOK ==
  /\ list \in Seq(Entry) /\ Len(list) <= MaxNodes
  /\ key \in [Entry -> Stream \cup {NoStream}]
  /\ node \in [Entry -> {First, Other}]
  /\ viewed \in [Entry -> BOOLEAN]
  /\ age \in [Entry -> 0..MaxAge] /\ lag \in 0..MaxLag
  /\ lock \in {"free", "io", "watch"}
  /\ io.at \in {"idle", "lock", "locked"} /\ io.op \in Ops \cup {"none"}
  /\ walk \in {"head", "lock", "look", "clear", "remove", "wipe", "next"}
  /\ pos \in 0..MaxNodes /\ current \in Entry \cup {NoEntry}

\* The watchdog ends a stream only after fifteen seconds without media ("if
\* the time greater than 15s", mdusock.c:1499).
SilentOnly ==
  [][walk = "look" /\ walk' = "clear" => age[current'] > Limit]_vars

\* A stream of a dead source that the CMU opened first is removed in the end,
\* although the list changes under the watchdog's feet (puExistTime).  A walk
\* that never ends, because handlers keep appending nodes while time stands
\* still, is left out.
SilentRemoved ==
  []<>(walk = "head") =>
    \A k \in Dead, e \in Entry :
      e \in EntriesOf(k) /\ node[e] = First ~> e \notin EntriesOf(k)

\* Whoever locks the list lets it go: no handler waits for ever.
LockReleased == lock # "free" ~> lock = "free"

=============================================================================
