--------------------------- MODULE IoQueueKeyProofs ---------------------------
(***************************************************************************)
(* A key of the proactor queue for every number of threads, operation      *)
(* keys, messages and arrivals.                                            *)
(*                                                                         *)
(* Who holds the mutex (Locks) holds for every way a key is used.  What    *)
(* the lists hold needs an application that uses no operation key for two  *)
(* operations at a time (ExclusiveUses): an operation is in a list, in the *)
(* hands of one thread, or nowhere.                                        *)
(***************************************************************************)
EXTENDS IoQueueKey, ListLemmas

(* The threads are told apart. *)
LEMMA ThreadIds ==
  /\ \A t \in Senders \cup Receivers \cup Pollers \cup {App} :
       t \in Threads /\ t # NoThread /\ t \in Threads \ {NoThread}
  /\ \A p \in Pollers : p # App /\ p \notin Senders /\ p \notin Receivers
  /\ App \notin Senders /\ App \notin Receivers
  /\ \A s \in Senders : s \notin Receivers
  /\ NoThread \in Threads /\ App # NoThread
BY KeyAssumption DEF Threads

-----------------------------------------------------------------------------
(* What the steps of a thread leave alone. *)

SenderPlaces == {"idle", "speculate", "direct", "spin", "fill", "queue"}
ReceiverPlaces == {"idle", "direct", "fill", "queue", "waiting", "stopped"}

LEMMA SenderFrame ==
  ASSUME NEW s, NEW op, SendStep(s, op)
  PROVE  /\ UNCHANGED <<mutex, use, connecting, closing, job, link, inbox,
                        arrived, reports, received, dropped>>
         /\ pc' = pc \/ \E x \in SenderPlaces : pc' = [pc EXCEPT ![s] = x]
<1>. DEFINE Frame ==
              /\ UNCHANGED <<mutex, use, connecting, closing, job, link, inbox,
                             arrived, reports, received, dropped>>
              /\ pc' = pc \/ \E x \in SenderPlaces : pc' = [pc EXCEPT ![s] = x]
<1>1. SendCheck(s) => Frame
  BY DEF SendCheck, Goto, Return, key, lists, ops, caller, net, results, SenderPlaces
<1>2. SendSpeculate(s) => Frame
  BY DEF SendSpeculate, Goto, key, lists, ops, caller, net, results, SenderPlaces
<1>3. SendDirect(s) => Frame
  <2>1. SendDirect(s) => UNCHANGED <<mutex, use, connecting, closing, job, link, inbox,
                                     arrived, reports, received, dropped>>
    BY DEF SendDirect, key, lists, ops, caller, net, results
  <2>2. SendDirect(s) => \E x \in SenderPlaces : pc' = [pc EXCEPT ![s] = x]
    BY DEF SendDirect, Goto, Return, SenderPlaces
  <2>. QED  BY <2>1, <2>2
<1>4. SendSpin(s) => Frame
  <2>1. SendSpin(s) => UNCHANGED <<mutex, use, connecting, closing, job, link, inbox,
                                   arrived, reports, received, dropped>>
    BY DEF SendSpin, key, lists, ops, caller, net, results
  <2>2. SendSpin(s) => pc' = pc \/ \E x \in SenderPlaces : pc' = [pc EXCEPT ![s] = x]
    BY DEF SendSpin, Goto, Return, SenderPlaces
  <2>. QED  BY <2>1, <2>2
<1>5. SendSeesFree(s) => Frame
  BY DEF SendSeesFree, Goto, key, lists, ops, caller, net, results, SenderPlaces
<1>6. SendFill(s, op) => Frame
  BY DEF SendFill, Goto, key, lists, ops, caller, net, results, SenderPlaces
<1>7. SendQueue(s) => Frame
  BY DEF SendQueue, Goto, Return, key, lists, ops, caller, net, results, SenderPlaces
<1>. QED  BY <1>1, <1>2, <1>3, <1>4, <1>5, <1>6, <1>7 DEF SendStep

\* A step of the receiver's call, whatever the function.
ReceiverStep(r) ==
  \/ ReadStep(r)
  \/ /\ pc[r] = "direct" /\ ~Empty(AcceptList)
     /\ Goto(r, "fill")
     /\ UNCHANGED <<mutex, lists, ops, key, caller, job, net, results>>

LEMMA ReceiverFrame ==
  ASSUME NEW r, ReceiverStep(r)
  PROVE  /\ UNCHANGED <<mutex, use, buffer, connecting, closing, caller, job, link,
                        arrived, wire, answer, reports>>
         /\ \E x \in ReceiverPlaces : pc' = [pc EXCEPT ![r] = x]
BY DEF ReceiverStep, ReadStep, ReadCheck, ReadDirect, ReadFill, ReadQueue, Goto,
       Take, key, lists, ops, caller, net, results, ReceiverPlaces

\* The world outside.
Outside == Unregister \/ Arrive \/ Established

LEMMA OutsideFrame ==
  ASSUME Outside
  PROVE  UNCHANGED <<mutex, use, lists, ops, connecting, pc, caller, job, wire,
                     results>>
BY DEF Outside, Unregister, Arrive, Established, key, lists, ops, caller, net, results

LEMMA NextCases ==
  ASSUME Next
  PROVE  \/ \E s \in Senders, op \in {SEND, SEND_TO} :
              (op = SEND_TO <=> Datagram) /\ SendStep(s, op)
         \/ \E r \in Receivers : ReceiverStep(r)
         \/ \E p \in Pollers, e \in {READABLE, WRITEABLE, EXCEPTION} : Poll(p, e)
         \/ \E p \in Pollers : PollerStep(p)
         \/ AppStep
         \/ Outside
<1>1. ASSUME NEW s \in Senders, top_ioqueue_send(s) \/ top_ioqueue_sendto(s)
      PROVE  \E op \in {SEND, SEND_TO} : (op = SEND_TO <=> Datagram) /\ SendStep(s, op)
  BY <1>1 DEF top_ioqueue_send, top_ioqueue_sendto, SEND, SEND_TO
<1>2. ASSUME NEW r \in Receivers,
             top_ioqueue_recv(r) \/ top_ioqueue_recvfrom(r) \/ top_ioqueue_accept(r)
      PROVE  ReceiverStep(r)
  BY <1>2 DEF top_ioqueue_recv, top_ioqueue_recvfrom, top_ioqueue_accept, ReadStep,
              ReceiverStep
<1>. QED  BY <1>1, <1>2 DEF Next, Outside

-----------------------------------------------------------------------------
(* The mutex. *)

Writing(p) == pc[p] \in {"writing", "written"}

\* The mutex: who must be holding it.
Locks ==
  /\ mutex = App <=> pc[App] = "locked"
  /\ \A p \in Pollers :
       Writing(p) \/ (InCallback(p) /\ ~AllowConcurrent) => mutex = p

LockInv ==
  /\ pc \in [Threads \ {NoThread} -> Place] /\ mutex \in Threads
  /\ Locks

LEMMA PollerCases ==
  ASSUME NEW p, PollerStep(p)
  PROVE  \/ /\ mutex = NoThread
            /\ \/ pc[p] \in {READABLE, WRITEABLE, EXCEPTION} /\ Leave(p)
               \/ /\ pc[p] \in {WRITEABLE, EXCEPTION} /\ connecting /\ ~closing
                  /\ ConnectDone(p)
               \/ pc[p] = WRITEABLE /\ WriteBegin(p)
               \/ pc[p] = READABLE /\ \E h \in {AcceptList, ReadList} : ReadBegin(p, h)
         \/ WriteSend(p) \/ WriteFinish(p) \/ WriteCallback(p)
         \/ ConnectCallback(p) \/ ReadCallback(p)
<1>1. topque_dispatch_write_event(p) =>
        \/ /\ mutex = NoThread /\ pc[p] = WRITEABLE
           /\ Leave(p) \/ (connecting /\ ~closing /\ ConnectDone(p)) \/ WriteBegin(p)
        \/ WriteSend(p) \/ WriteFinish(p) \/ WriteCallback(p) \/ ConnectCallback(p)
  BY DEF topque_dispatch_write_event
<1>2. topque_dispatch_read_event(p) =>
        \/ /\ mutex = NoThread /\ pc[p] = READABLE
           /\ Leave(p) \/ ReadBegin(p, AcceptList) \/ ReadBegin(p, ReadList)
        \/ ReadCallback(p)
  BY DEF topque_dispatch_read_event
<1>3. topque_dispatch_exception_event(p) =>
        /\ mutex = NoThread /\ pc[p] = EXCEPTION
        /\ Leave(p) \/ (connecting /\ ~closing /\ ConnectDone(p))
  BY DEF topque_dispatch_exception_event
<1>. QED  BY <1>1, <1>2, <1>3 DEF PollerStep

(* A poller that takes the mutex, and one that lets it go. *)
LEMMA PollerLocks ==
  ASSUME LockInv, NEW p \in Pollers, PollerStep(p)
  PROVE  LockInv'
<1>1. /\ pc \in [Threads \ {NoThread} -> Place] /\ mutex \in Threads /\ Locks
      /\ p \in Threads \ {NoThread} /\ p \in Threads /\ p # NoThread /\ p # App
      /\ NoThread \in Threads
      /\ \A q \in Pollers : q # NoThread /\ q # App /\ q \in Threads \ {NoThread}
      /\ App \in Threads \ {NoThread} /\ App # NoThread
  BY ThreadIds DEF LockInv
<1>2. use' = use
  BY PollerCases DEF Leave, ConnectDone, WriteBegin, ReadBegin, WriteSend, WriteFinish,
       WriteCallback, ConnectCallback, ReadCallback, key
<1>3. ASSUME mutex = NoThread, mutex' \in {NoThread, p},
             NEW x \in Place, pc' = [pc EXCEPT ![p] = x],
             x \in {"writing", "written"} => mutex' = p,
             x \in {"writeCall", "readCall", "connectCall", "postCall"} /\ ~AllowConcurrent
               => mutex' = p
      PROVE  LockInv'
  BY <1>1, <1>2, <1>3 DEF LockInv, Locks, Writing, InCallback, AllowConcurrent
<1>4. CASE mutex = NoThread /\ Leave(p)
  BY <1>3, <1>4 DEF Leave, Goto, Place
<1>5. CASE mutex = NoThread /\ ConnectDone(p)
  BY <1>3, <1>5 DEF ConnectDone, Unlock, Goto, Place
<1>6. CASE mutex = NoThread /\ WriteBegin(p)
  BY <1>3, <1>6 DEF WriteBegin, Goto, Place
<1>7. ASSUME mutex = NoThread, NEW h, ReadBegin(p, h) PROVE LockInv'
  BY <1>3, <1>7 DEF ReadBegin, Unlock, Goto, Place
<1>8. CASE WriteSend(p)
  BY <1>1, <1>2, <1>8 DEF LockInv, Locks, Writing, InCallback, AllowConcurrent,
       WriteSend, Goto, Place
<1>9. CASE WriteFinish(p)
  BY <1>1, <1>2, <1>9 DEF LockInv, Locks, Writing, InCallback, AllowConcurrent,
       WriteFinish, Unlock, Goto, Place
<1>10. ASSUME mutex' = IF mutex = p THEN NoThread ELSE mutex,
              pc' \in [Threads \ {NoThread} -> Place], pc'[p] = "idle",
              \A t \in Pollers \cup {App} : t # p => pc'[t] = pc[t]
       PROVE  LockInv'
  BY <1>1, <1>2, <1>10 DEF LockInv, Locks, Writing, InCallback, AllowConcurrent
<1>11. CASE WriteCallback(p) \/ ConnectCallback(p)
  BY <1>1, <1>10, <1>11 DEF WriteCallback, ConnectCallback, AfterCallback, Goto, Place
<1>12. CASE ReadCallback(p)
  <2>1. /\ pc' \in [Threads \ {NoThread} -> Place] /\ pc'[p] = "idle"
        /\ \A t \in Pollers \cup {App} : t # p => pc'[t] = pc[t]
    BY <1>1, <1>12, ThreadIds DEF ReadCallback, Told, Goto, Place
  <2>. QED  BY <1>10, <1>12, <2>1 DEF ReadCallback, AfterCallback
<1>. QED
  BY <1>4, <1>5, <1>6, <1>7, <1>8, <1>9, <1>11, <1>12, PollerCases

LEMMA AppLocks ==
  ASSUME LockInv, AppStep
  PROVE  LockInv'
<1>1. /\ pc \in [Threads \ {NoThread} -> Place] /\ mutex \in Threads /\ Locks
      /\ NoThread \in Threads
      /\ \A q \in Pollers : q # NoThread /\ q # App /\ q \in Threads \ {NoThread}
      /\ App \in Threads \ {NoThread} /\ App # NoThread /\ App \in Threads
  BY ThreadIds DEF LockInv
<1>2. ASSUME mutex' = mutex, use' = use, NEW x \in Place, x # "locked",
             pc[App] # "locked", pc' = [pc EXCEPT ![App] = x]
      PROVE  LockInv'
  BY <1>1, <1>2 DEF LockInv, Locks, Writing, InCallback, AllowConcurrent
<1>3. CASE top_ioqueue_connect
  BY <1>2, <1>3 DEF top_ioqueue_connect, Goto, key, Place
<1>4. ASSUME NEW k, top_ioqueue_post_completion(k) PROVE LockInv'
  BY <1>2, <1>4 DEF top_ioqueue_post_completion, Goto, key, Place
<1>5. CASE PostCallback
  <2>1. /\ pc' \in [Threads \ {NoThread} -> Place] /\ pc'[App] = "idle"
        /\ \A p \in Pollers : pc'[p] = pc[p]
    BY <1>1, <1>5, ThreadIds DEF PostCallback, Told, Goto, Place
  <2>2. pc[App] # "locked" /\ mutex' = mutex /\ use' = use
    BY <1>5 DEF PostCallback, key
  <2>. QED  BY <1>1, <2>1, <2>2 DEF LockInv, Locks, Writing, InCallback, AllowConcurrent
<1>6. ASSUME NEW k, top_ioqueue_op_key_init(k) PROVE LockInv'
  BY <1>1, <1>6 DEF top_ioqueue_op_key_init, key, LockInv, Locks, Writing, InCallback,
       AllowConcurrent
<1>7. CASE top_ioqueue_lock_key
  BY <1>1, <1>7 DEF top_ioqueue_lock_key, Goto, key, LockInv, Locks, Writing, InCallback,
       AllowConcurrent, Place
<1>8. CASE top_ioqueue_unlock_key
  BY <1>1, <1>8 DEF top_ioqueue_unlock_key, Goto, key, LockInv, Locks, Writing, InCallback,
       AllowConcurrent, Place
<1>. QED  BY <1>3, <1>4, <1>5, <1>6, <1>7, <1>8 DEF AppStep

LEMMA NextLocks == LockInv /\ [Next]_vars => LockInv'
<1>. SUFFICES ASSUME LockInv, [Next]_vars PROVE LockInv'
  OBVIOUS
<1>1. ASSUME NEW t \in Senders \cup Receivers, NEW x \in Place,
             pc' = pc \/ pc' = [pc EXCEPT ![t] = x], mutex' = mutex, use' = use
      PROVE  LockInv'
  BY <1>1, ThreadIds DEF LockInv, Locks, Writing, InCallback, AllowConcurrent
<1>2. ASSUME NEW s \in Senders, NEW op, SendStep(s, op) PROVE LockInv'
  BY <1>1, <1>2, SenderFrame DEF SenderPlaces, Place
<1>3. ASSUME NEW r \in Receivers, ReceiverStep(r) PROVE LockInv'
  BY <1>1, <1>3, ReceiverFrame DEF ReceiverPlaces, Place
<1>4. ASSUME NEW p \in Pollers, NEW e \in {READABLE, WRITEABLE, EXCEPTION}, Poll(p, e)
      PROVE  LockInv'
  BY <1>4, ThreadIds DEF Poll, Goto, key, LockInv, Locks, Writing, InCallback,
       AllowConcurrent, READABLE, WRITEABLE, EXCEPTION, Place
<1>5. CASE Outside \/ UNCHANGED vars
  <2>1. UNCHANGED <<mutex, use, pc>>
    BY <1>5, OutsideFrame DEF vars, key
  <2>. QED  BY <2>1 DEF LockInv, Locks, Writing, InCallback, AllowConcurrent
<1>. QED  BY <1>2, <1>3, <1>4, <1>5, PollerLocks, AppLocks, NextCases

LEMMA LockInvariant == Spec => []LockInv
<1>1. Init => LockInv
  BY ThreadIds DEF Init, LockInv, Locks, Writing, InCallback, Place
<1>. QED  BY <1>1, NextLocks, PTL DEF Spec

(* With concurrency disabled, whoever holds the key's lock keeps the       *)
(* dispatch functions out of its callbacks (top_ioqueue_lock_key), however *)
(* the key is used.                                                        *)
THEOREM LockAlwaysExcludes == Spec => []LockExcludes
<1>1. LockInv => LockExcludes
  BY ThreadIds DEF LockInv, Locks, LockExcludes
<1>. QED  BY <1>1, LockInvariant, PTL

(* Submissions check the closing flag again before they add an event. *)
LEMMA NoWatchStep ==
  ASSUME Next, closing
  PROVE  evs' \subseteq evs
<1>1. ASSUME NEW s, NEW op, SendStep(s, op) PROVE evs' \subseteq evs
  BY <1>1 DEF SendStep, SendCheck, SendSpeculate, SendDirect, SendSpin, SendSeesFree,
       SendFill, SendQueue, key
<1>2. ASSUME NEW r, ReceiverStep(r) PROVE evs' \subseteq evs
  BY <1>2 DEF ReceiverStep, ReadStep, ReadCheck, ReadDirect, ReadFill, ReadQueue, key
<1>3. ASSUME NEW p, PollerStep(p) PROVE evs' \subseteq evs
  BY <1>3, PollerCases DEF Leave, ConnectDone, WriteBegin, ReadBegin, WriteSend,
       WriteFinish, WriteCallback, ConnectCallback, ReadCallback, Unwatch, key
<1>4. ASSUME NEW p, NEW e, Poll(p, e) PROVE evs' \subseteq evs
  BY <1>4 DEF Poll, key
<1>5. AppStep => evs' \subseteq evs
  BY DEF AppStep, top_ioqueue_connect, top_ioqueue_post_completion, PostCallback,
      top_ioqueue_op_key_init, top_ioqueue_lock_key, top_ioqueue_unlock_key, key
<1>6. Outside => evs' \subseteq evs
  BY DEF Outside, Unregister, Arrive, Established, key
<1>. QED  BY <1>1, <1>2, <1>3, <1>4, <1>5, <1>6, NextCases

(* No event is added to the poll set for a key that has been unregistered, *)
(* whatever the submitting threads had checked before (the second checks   *)
(* of the closing flag).                                                   *)
THEOREM NeverWatchedAfterClose == Spec => NoWatchAfterClose
<1>1. [Next]_vars => [closing => evs' \subseteq evs]_vars
  BY NoWatchStep
<1>. QED  BY <1>1, PTL DEF Spec, NoWatchAfterClose

-----------------------------------------------------------------------------
(* How an application uses a key. *)

\* No two threads use one operation key (io_queue.h: "An operation specific
\* key to be associated with the pending operation"), and none is initialised
\* again while it holds an operation.
Exclusive(u) ==
  /\ \A m, n \in Msgs :
       m[1] \in u.active /\ n[1] \in u.active /\ u.keyOf[m] = u.keyOf[n] => m[1] = n[1]
  /\ \A q, r \in Receivers : u.readKey[q] = u.readKey[r] => q = r
  /\ \A m \in Msgs, r \in Receivers \cap u.active :
       m[1] \in u.active => u.keyOf[m] # u.readKey[r]
  /\ u.careful

ExclusiveUses == \A u \in Uses : Exclusive(u)

\* The messages that somebody sends, and their operation keys.
Sent == {m \in Msgs : m[1] \in use.active}
SendKeys == {KeyOf[m] : m \in Sent}
ReadHead == IF use.calls = ACCEPT THEN AcceptList ELSE ReadList

\* The list a node belongs to.
home == [n \in Nodes |-> IF n \in Heads THEN n
                         ELSE IF n \in SendKeys THEN WriteList ELSE ReadHead]

\* The heads, and the keys whose links lead to another node.
ring == {n \in Nodes : n \in Heads \/ next[n] \notin {n, Null}}

LinkTypes == /\ next \in [Nodes -> Nodes \cup {Null}]
             /\ prev \in [Nodes -> Nodes \cup {Null}]

\* Links lead both ways, stay in one list, and leave out the nodes outside.
Links ==
  /\ \A n \in ring :
       /\ next[n] \in ring /\ prev[next[n]] = n /\ home[next[n]] = home[n]
       /\ prev[n] \in ring /\ next[prev[n]] = n
  /\ \A n \in Nodes \ ring : next[n] = prev[n]

-----------------------------------------------------------------------------
(* The lists. *)

LEMMA NodeIds ==
  /\ Null \notin Nodes /\ Heads \subseteq Nodes /\ OpKeys \subseteq Nodes
  /\ \A k \in OpKeys : k \notin Heads /\ k # Null
  /\ \A n \in Nodes \ Heads : n \in OpKeys
  /\ ReadList \in Heads /\ WriteList \in Heads /\ AcceptList \in Heads
  /\ ReadList # WriteList /\ AcceptList # WriteList /\ ReadList # AcceptList
  /\ Null \notin Msgs
BY KeyAssumption DEF Nodes, Heads, ReadList, WriteList, AcceptList

LEMMA PushLinks ==
  ASSUME LinkTypes, Links, NEW h \in Heads, NEW k \in OpKeys, k \notin ring,
         home[k] = h, home' = home, PushBack(h, k)
  PROVE  /\ LinkTypes' /\ Links' /\ ring' = ring \cup {k}
         /\ \A g \in Heads : next'[g] # g => g = h \/ next[g] # g
         /\ next'[h] # h
<1>1. /\ h \in ring /\ h \in Nodes /\ k \in Nodes /\ k # h /\ k # Null /\ h # Null
      /\ k \notin Heads /\ home[h] = h
  BY NodeIds DEF ring, home
<1>2. PICK last \in ring : last = prev[h] /\ next[last] = h /\ last # k /\ home[last] = h
  BY <1>1 DEF Links
<1>3. /\ next' = [next EXCEPT ![k] = h, ![last] = k]
      /\ prev' = [prev EXCEPT ![k] = last, ![h] = k]
  BY <1>2 DEF PushBack
<1>4. ring \subseteq Nodes /\ Null \notin Nodes /\ last \in Nodes
  BY <1>2, NodeIds DEF ring
<1>5. LinkTypes'
  BY <1>1, <1>3, <1>4 DEF LinkTypes
<1>6. /\ next'[k] = h /\ next'[last] = k /\ prev'[k] = last /\ prev'[h] = k
      /\ \A n \in Nodes : n # k /\ n # last => next'[n] = next[n]
      /\ \A n \in Nodes : n # k /\ n # h => prev'[n] = prev[n]
  BY <1>1, <1>2, <1>3, <1>4 DEF LinkTypes
<1>7. ring' = ring \cup {k}
  <2>1. last \notin Heads => next[last] \notin {last, Null}
    BY <1>2 DEF ring
  <2>2. ring' = {n \in Nodes : n \in Heads \/ next'[n] \notin {n, Null}}
    BY DEF ring
  <2>3. \A n \in Nodes : n \in ring' <=> n \in ring \/ n = k
    BY <1>1, <1>2, <1>4, <1>6, <2>1, <2>2 DEF ring
  <2>. QED  BY <1>1, <1>4, <2>2, <2>3
<1>8. \A n \in ring : /\ next[n] \in ring /\ prev[next[n]] = n
                      /\ home[next[n]] = home[n]
                      /\ prev[n] \in ring /\ next[prev[n]] = n
  BY DEF Links
<1>9. ASSUME NEW n \in ring'
      PROVE  /\ next'[n] \in ring' /\ prev'[next'[n]] = n
             /\ home[next'[n]] = home[n]
             /\ prev'[n] \in ring' /\ next'[prev'[n]] = n
  BY <1>1, <1>2, <1>4, <1>6, <1>7, <1>8, <1>9
<1>10. ASSUME NEW n \in Nodes \ ring' PROVE next'[n] = prev'[n]
  BY <1>1, <1>2, <1>4, <1>6, <1>7, <1>10 DEF Links
<1>11. Links'
  BY <1>9, <1>10 DEF Links
<1>12. \A g \in Heads : next'[g] # g => g = h \/ next[g] # g
  <2>1. \A g \in Heads : g = last => g = h
    BY <1>2, NodeIds DEF home
  <2>. QED  BY <1>1, <1>6, <2>1, NodeIds
<1>13. next'[h] # h
  BY <1>1, <1>2, <1>6, <1>8
<1>. QED  BY <1>5, <1>7, <1>11, <1>12, <1>13

LEMMA EraseLinks ==
  ASSUME LinkTypes, Links, NEW k \in OpKeys, k \in ring, home' = home, Erase(k)
  PROVE  /\ LinkTypes' /\ Links' /\ ring' \subseteq ring \ {k}
         /\ \A g \in Heads : next'[g] # g => next[g] # g
<1>1. k \in Nodes /\ k # Null /\ k \notin Heads /\ ring \subseteq Nodes /\ Null \notin Nodes
  BY NodeIds DEF ring
<1>2. PICK a \in ring, b \in ring :
           /\ a = next[k] /\ b = prev[k] /\ prev[a] = k /\ next[b] = k
           /\ home[a] = home[k] /\ home[k] = home[b]
  BY DEF Links
<1>3. a # k /\ b # k
  BY <1>1, <1>2 DEF ring
<1>4. /\ next' = [next EXCEPT ![b] = a, ![k] = k]
      /\ prev' = [prev EXCEPT ![a] = b, ![k] = k]
  BY <1>2 DEF Erase
<1>5. LinkTypes'
  BY <1>1, <1>2, <1>4 DEF LinkTypes
<1>6. /\ next'[k] = k /\ next'[b] = a /\ prev'[k] = k /\ prev'[a] = b
      /\ \A n \in Nodes : n # k /\ n # b => next'[n] = next[n]
      /\ \A n \in Nodes : n # k /\ n # a => prev'[n] = prev[n]
  BY <1>1, <1>2, <1>3, <1>4 DEF LinkTypes
<1>7. \A n \in ring : /\ next[n] \in ring /\ prev[next[n]] = n
                      /\ home[next[n]] = home[n]
                      /\ prev[n] \in ring /\ next[prev[n]] = n
  BY DEF Links
<1>8. \A n \in Nodes : n \in ring' <=> n \in ring /\ n # k /\ (n \in Heads \/ n # a \/ n # b)
  <2>1. ring' = {n \in Nodes : n \in Heads \/ next'[n] \notin {n, Null}}
    BY DEF ring
  <2>2. \A n \in Nodes : n \in ring <=> n \in Heads \/ next[n] \notin {n, Null}
    BY DEF ring
  <2>3. a # Null
    BY <1>1, <1>2
  <2>. QED  BY <1>1, <1>2, <1>3, <1>6, <2>1, <2>2, <2>3
<1>9. ring' \subseteq ring \ {k}
  BY <1>1, <1>8 DEF ring
<1>10. ASSUME NEW n \in ring'
       PROVE  /\ next'[n] \in ring' /\ prev'[next'[n]] = n
              /\ home[next'[n]] = home[n]
              /\ prev'[n] \in ring' /\ next'[prev'[n]] = n
  <2>1. n \in ring /\ n # k /\ n \in Nodes /\ (n \in Heads \/ n # a \/ n # b)
    BY <1>1, <1>8, <1>9, <1>10
  <2>2. /\ n = b => next'[n] = a
        /\ n # b => next'[n] = next[n] /\ next[n] # k /\ next[n] # a
    BY <1>1, <1>2, <1>6, <1>7, <2>1
  <2>3. /\ n = a => prev'[n] = b
        /\ n # a => prev'[n] = prev[n] /\ prev[n] # k /\ prev[n] # b
    BY <1>1, <1>2, <1>6, <1>7, <2>1
  <2>4. next'[n] \in ring' /\ prev'[next'[n]] = n /\ home[next'[n]] = home[n]
    <3>1. CASE n = b
      BY <1>1, <1>2, <1>3, <1>6, <1>8, <2>1, <2>2, <3>1
    <3>2. CASE n # b
      BY <1>1, <1>2, <1>3, <1>6, <1>7, <1>8, <2>1, <2>2, <3>2
    <3>. QED  BY <3>1, <3>2
  <2>5. prev'[n] \in ring' /\ next'[prev'[n]] = n
    <3>1. CASE n = a
      BY <1>1, <1>2, <1>3, <1>6, <1>8, <2>1, <2>3, <3>1
    <3>2. CASE n # a
      BY <1>1, <1>2, <1>3, <1>6, <1>7, <1>8, <2>1, <2>3, <3>2
    <3>. QED  BY <3>1, <3>2
  <2>. QED  BY <2>4, <2>5
<1>11. ASSUME NEW n \in Nodes \ ring' PROVE next'[n] = prev'[n]
  <2>1. CASE n \notin ring
    <3>1. next[n] = prev[n] /\ n # a /\ n # b /\ n # k
      BY <1>2, <2>1 DEF Links
    <3>. QED  BY <1>6, <3>1
  <2>2. CASE n \in ring
    BY <1>2, <1>3, <1>6, <1>8, <1>11, <2>2
  <2>. QED  BY <2>1, <2>2
<1>12. Links'
  BY <1>10, <1>11 DEF Links
<1>13. \A g \in Heads : next'[g] # g => next[g] # g
  BY <1>1, <1>2, <1>6, NodeIds
<1>. QED  BY <1>5, <1>9, <1>12, <1>13

\* Memory that is cleared was in no list.
LEMMA ClearLinks ==
  ASSUME LinkTypes, Links, NEW k \in OpKeys, k \notin ring, home' = home,
         next' = [next EXCEPT ![k] = Null], prev' = [prev EXCEPT ![k] = Null]
  PROVE  /\ LinkTypes' /\ Links' /\ ring' = ring
         /\ \A g \in Heads : next'[g] = next[g]
<1>1. /\ k \in Nodes /\ k # Null /\ k \notin Heads /\ ring \subseteq Nodes
      /\ LinkTypes'
  BY NodeIds DEF ring, LinkTypes
<1>2. /\ next'[k] = Null /\ prev'[k] = Null
      /\ \A n \in Nodes : n # k => next'[n] = next[n] /\ prev'[n] = prev[n]
  BY <1>1 DEF LinkTypes
<1>3. ring' = ring
  <2>1. \A n \in Nodes : n \in ring' <=> n \in ring
    BY <1>1, <1>2 DEF ring
  <2>. QED  BY <1>1, <2>1 DEF ring
<1>4. Links'
  BY <1>1, <1>2, <1>3 DEF Links
<1>. QED  BY <1>1, <1>2, <1>3, <1>4, NodeIds

(* A walk along a list meets only its own nodes. *)
LEMMA ListedInRing ==
  ASSUME Links, NEW h \in Heads
  PROVE  Listed(h) \subseteq {k \in ring : k \in OpKeys /\ home[k] = h}
<1>. DEFINE n == Cardinality(OpKeys)
            step(x) == IF x \in Nodes THEN next[x] ELSE Null
            Walk(f) == f = [i \in 0..n |-> IF i = 0 THEN h ELSE step(f[i - 1])]
            at == CHOOSE f : Walk(f)
            R == {x \in ring : home[x] = h}
            Way(i, f) == f[0] = h /\ \A j \in 1..i : f[j] = step(f[j - 1])
            S == {i \in Nat : ~ \E f \in [0..i -> R] : Way(i, f)}
            T == {i \in 0..n : at[i] \notin R}
<1>1. n \in Nat
  BY KeyAssumption, FS_CardinalityType
<1>2. h \in R /\ \A x \in R : step(x) \in R
  BY NodeIds DEF Links, home, ring
<1>3. Listed(h) = {at[i] : i \in 1..n} \cap OpKeys
  BY DEF Listed
<1>. HIDE DEF step, R, n
<1>4. S = {}
  <2>. SUFFICES ASSUME S # {} PROVE FALSE
    OBVIOUS
  <2>1. PICK m \in S : \A i \in S : m <= i
    BY LeastNatural
  <2>2. CASE m = 0
    <3>. DEFINE f == [j \in 0..0 |-> h]
    <3>1. f \in [0..0 -> R] /\ Way(0, f)
      BY <1>2
    <3>. QED  BY <2>1, <2>2, <3>1
  <2>3. CASE m # 0
    <3>1. m \in Nat /\ m - 1 \in Nat /\ m - 1 \notin S
      <4>1. m \in Nat
        BY <2>1
      <4>. HIDE DEF S
      <4>2. m - 1 \in Nat /\ ~(m <= m - 1)
        BY <2>3, <4>1
      <4>. QED  BY <2>1, <4>1, <4>2
    <3>2. PICK f \in [0..(m - 1) -> R] : Way(m - 1, f)
      BY <3>1
    <3>. DEFINE g == [j \in 0..m |-> IF j = m THEN step(f[m - 1]) ELSE f[j]]
    <3>3. g \in [0..m -> R]
      BY <1>2, <3>1, <3>2
    <3>4. Way(m, g)
      BY <2>3, <3>1, <3>2
    <3>. QED  BY <2>1, <3>3, <3>4
  <2>. QED  BY <2>2, <2>3
<1>5. \E f : Walk(f)
  <2>1. PICK f \in [0..n -> R] : Way(n, f)
    BY <1>1, <1>4
  <2>2. Walk(f)
    BY <1>1, <2>1
  <2>. QED  BY <2>2
<1>6. at = [i \in 0..n |-> IF i = 0 THEN h ELSE step(at[i - 1])]
  BY <1>5
<1>. HIDE DEF at
<1>7. T = {}
  <2>. SUFFICES ASSUME T # {} PROVE FALSE
    OBVIOUS
  <2>1. T \in SUBSET Nat
    BY <1>1
  <2>2. PICK m \in T : \A i \in T : m <= i
    BY <2>1, LeastNatural
  <2>3. m # 0
    BY <1>1, <1>2, <1>6, <2>2
  <2>4. m - 1 \in 0..n /\ m \in 0..n /\ ~(m <= m - 1)
    BY <1>1, <2>2, <2>3
  <2>5. m - 1 \notin T
    <3>. HIDE DEF T
    <3>. QED  BY <2>2, <2>4
  <2>6. at[m] = step(at[m - 1])
    BY <1>6, <2>3, <2>4
  <2>. QED  BY <1>2, <2>2, <2>4, <2>5, <2>6
<1>8. \A i \in 1..n : at[i] \in R
  BY <1>1, <1>7
<1>. QED  BY <1>3, <1>8 DEF R

-----------------------------------------------------------------------------
(* The inductive invariant. *)

\* Where the threads are.
Places ==
  /\ \A s \in Senders :
       pc[s] \in SenderPlaces
       /\ (pc[s] # "idle" => s \in use.active /\ sending[s] <= MaxMessages)
  /\ \A r \in Receivers :
       pc[r] \in ReceiverPlaces /\ (pc[r] # "idle" => r \in use.active)
  /\ \A p \in Pollers : pc[p] \in {"idle", READABLE, WRITEABLE, EXCEPTION, "writing",
                                   "written", "writeCall", "readCall", "connectCall"}
  /\ pc[App] \in {"idle", "connectQueue", "locked", "postCall"}
  /\ \A t \in Pollers \cup {App} : job[t].value \in -1..MaxArrivals

IsSend(k) == opkey[k].op \in {SEND, SEND_TO}

\* The message waits for its completion.
Awaited(m) == m \in Sent /\ answer[m] = "pending" /\ reports[m] = <<>>

\* The receiver of key k waits.
WaitsFor(k) ==
  \E r \in Receivers : r \in use.active /\ pc[r] = "waiting" /\ ReadKey[r] = k

\* A key in a list holds an operation that somebody waits for.
Filed ==
  \A k \in OpKeys : k \in ring =>
    /\ k \in SendKeys => /\ IsSend(k) /\ Awaited(opkey[k].msg)
                         /\ KeyOf[opkey[k].msg] = k
    /\ k \notin SendKeys => opkey[k].op = use.calls /\ WaitsFor(k)

\* A sender fills and queues its key while it is in no list and nobody works
\* on it.
Queueing ==
  \A s \in Senders :
    /\ pc[s] = "fill" => opkey[CurrentKey(s)].op = NONE
    /\ pc[s] = "queue" =>
         /\ IsSend(CurrentKey(s)) /\ opkey[CurrentKey(s)].msg = Current(s)
         /\ CurrentKey(s) \notin ring
         /\ \A p \in Pollers : Writing(p) => job[p].key # CurrentKey(s)

\* A message is in the hands of one thread, and in a list only while this
\* thread writes it.
SendJobs ==
  \A t \in Pollers \cup {App} : job[t].msg # Null =>
    /\ Awaited(job[t].msg) /\ job[t].key = KeyOf[job[t].msg]
    /\ pc[t] \in {"writing", "written", "writeCall", "postCall"}
    /\ \A u \in Pollers \cup {App} : job[u].msg = job[t].msg => u = t
    /\ \A k \in SendKeys : k \in ring /\ opkey[k].msg = job[t].msg => Writing(t)

\* So is the operation of a receiver, which is in no list then.
ReadJobs ==
  \A t \in Pollers \cup {App} : job[t].msg = Null /\ job[t].key # Null =>
    /\ pc[t] \in {"readCall", "postCall"}
    /\ WaitsFor(job[t].key) /\ job[t].key \notin ring
    /\ \A u \in Pollers \cup {App} : job[u].key = job[t].key => u = t

\* What a thread has in its hands where it is.
Hands ==
  \A t \in Pollers \cup {App} :
    /\ Writing(t) => /\ job[t].msg # Null /\ job[t].msg = opkey[job[t].key].msg
                     /\ IsSend(job[t].key)
                     /\ job[t].key \in ring <=> ~Datagram
    /\ pc[t] = "writeCall" => job[t].msg # Null
    /\ pc[t] \in {"readCall", "postCall"} => job[t].key # Null
    /\ pc[t] = "readCall" => job[t].msg = Null

\* Messages that are not sent yet have no outcome.
Fresh ==
  \A m \in Msgs : m[2] >= sending[m[1]] => answer[m] = "none" /\ reports[m] = <<>>

Base == TypeOK /\ Exclusive(use) /\ Locks /\ Places /\ Links

KeyInv ==
  Base /\ Filed /\ Queueing /\ SendJobs /\ ReadJobs /\ Hands /\ Fresh /\ CompletedOnce

LEMMA UseFacts ==
  ASSUME Base
  PROVE  /\ use \in Use /\ KeyOf \in [Msgs -> OpKeys] /\ ReadKey \in [Receivers -> OpKeys]
         /\ BufferOf \in [Msgs -> Buffers] /\ use.calls \in {"recv", "recvfrom", ACCEPT}
         /\ Sent \subseteq Msgs /\ SendKeys \subseteq OpKeys
         /\ \A m \in Sent : KeyOf[m] \in SendKeys
         /\ \A m, n \in Sent : KeyOf[m] = KeyOf[n] => m[1] = n[1]
         /\ \A q, r \in Receivers : ReadKey[q] = ReadKey[r] => q = r
         /\ \A r \in Receivers : r \in use.active => ReadKey[r] \notin SendKeys
         /\ ReadHead \in Heads /\ ReadHead # WriteList
         /\ \A h \in Heads : home[h] = h
         /\ \A k \in SendKeys : home[k] = WriteList
         /\ \A k \in OpKeys \ SendKeys : home[k] = ReadHead
<1>1. use \in Use /\ Exclusive(use)
  BY KeyAssumption DEF Base, TypeOK
<1>2. /\ KeyOf \in [Msgs -> OpKeys] /\ ReadKey \in [Receivers -> OpKeys]
      /\ BufferOf \in [Msgs -> Buffers] /\ use.calls \in {"recv", "recvfrom", ACCEPT}
  BY <1>1 DEF Use, KeyOf, ReadKey, BufferOf
<1>3. Sent \subseteq Msgs /\ SendKeys \subseteq OpKeys /\ \A m \in Sent : KeyOf[m] \in SendKeys
  BY <1>2 DEF Sent, SendKeys
<1>4. /\ \A m, n \in Sent : KeyOf[m] = KeyOf[n] => m[1] = n[1]
      /\ \A q, r \in Receivers : ReadKey[q] = ReadKey[r] => q = r
  BY <1>1 DEF Exclusive, Sent, KeyOf, ReadKey
<1>5. \A r \in Receivers : r \in use.active => ReadKey[r] \notin SendKeys
  BY <1>1 DEF Exclusive, Sent, SendKeys, KeyOf, ReadKey
<1>6. ReadHead \in Heads /\ ReadHead # WriteList
  BY NodeIds DEF ReadHead
<1>7. /\ \A h \in Heads : home[h] = h
      /\ \A k \in SendKeys : home[k] = WriteList
      /\ \A k \in OpKeys \ SendKeys : home[k] = ReadHead
  BY <1>3, NodeIds DEF home
<1>. QED  BY <1>1, <1>2, <1>3, <1>4, <1>5, <1>6, <1>7

LEMMA UseKept ==
  ASSUME use' = use
  PROVE  /\ Sent' = Sent /\ SendKeys' = SendKeys /\ home' = home /\ ReadHead' = ReadHead
         /\ KeyOf' = KeyOf /\ ReadKey' = ReadKey /\ BufferOf' = BufferOf
         /\ Datagram' = Datagram /\ AllowConcurrent' = AllowConcurrent
         /\ Patient' = Patient /\ (Exclusive(use) => Exclusive(use)')
BY DEF Sent, SendKeys, home, ReadHead, KeyOf, ReadKey, BufferOf, Datagram,
       AllowConcurrent, Patient, Exclusive

(* The message that a sender is sending. *)
LEMMA CurrentFacts ==
  ASSUME Base, NEW s \in Senders, s \in use.active, sending[s] <= MaxMessages
  PROVE  /\ Current(s) \in Sent /\ Current(s) \in Msgs /\ CurrentKey(s) \in SendKeys
         /\ CurrentKey(s) \in OpKeys /\ Current(s)[1] = s /\ Current(s)[2] = sending[s]
         /\ CurrentKey(s) = KeyOf[Current(s)]
<1>1. sending[s] \in 1..MaxMessages
  BY KeyAssumption DEF Base, TypeOK
<1>2. Current(s) \in Msgs /\ Current(s)[1] = s /\ Current(s)[2] = sending[s]
  BY <1>1 DEF Current, Msgs
<1>. QED  BY <1>2, UseFacts DEF Sent, CurrentKey


-----------------------------------------------------------------------------
(* Senders. *)

Answer == {"none", "sent", "error", "busy", "cancelled", "pending"}

CallerTypes ==
  /\ pc \in [Threads \ {NoThread} -> Place]
  /\ retry \in [Senders -> 0..PENDING_RETRY]
  /\ sending \in [Senders -> 1..(MaxMessages + 1)]
  /\ answer \in [Msgs -> Answer]

LEMMA ReturnTypes ==
  ASSUME Base, NEW s \in Senders, s \in use.active, sending[s] <= MaxMessages,
         NEW result \in Answer, Return(s, result)
  PROVE  CallerTypes'
<1>1. Current(s) \in Msgs /\ s \in Threads \ {NoThread}
  BY CurrentFacts, ThreadIds
<1>2. pc' \in [Threads \ {NoThread} -> Place]
  BY <1>1 DEF Return, Goto, Base, TypeOK, Place
<1>3. retry' \in [Senders -> 0..PENDING_RETRY]
  BY DEF Return, Base, TypeOK, PENDING_RETRY
<1>4. sending' \in [Senders -> 1..(MaxMessages + 1)]
  <2>1. sending[s] + 1 \in 1..(MaxMessages + 1)
    BY KeyAssumption DEF Base, TypeOK
  <2>. QED  BY <2>1 DEF Return, Base, TypeOK
<1>5. answer' \in [Msgs -> Answer]
  BY <1>1 DEF Return, Base, TypeOK, Answer
<1>. QED  BY <1>2, <1>3, <1>4, <1>5 DEF CallerTypes

\* What TypeOK says of the variables that a sender does not write, or writes
\* in one place only.
LEMMA SenderTypes ==
  ASSUME Base, NEW s \in Senders, NEW op \in {SEND, SEND_TO}, SendStep(s, op),
         LinkTypes', evs' \subseteq {READABLE, WRITEABLE, EXCEPTION}
  PROVE  TypeOK'
<1>1. /\ s \in Threads \ {NoThread} /\ CallerTypes /\ buffer \in [Buffers -> Msgs \cup {Null}]
      /\ wire \in Seq(Msgs)
      /\ opkey \in [OpKeys -> [op : Ops, buf : Buffers \cup {Null},
                               written : -1..Size, msg : Msgs \cup {Null}]]
  BY ThreadIds DEF Base, TypeOK, CallerTypes, Answer
<1>2. SendCheck(s) \/ pc[s] # "idle"
  BY DEF SendStep, SendSpeculate, SendDirect, SendSpin, SendSeesFree, SendFill, SendQueue
<1>3. s \in use.active /\ sending[s] <= MaxMessages
  BY <1>2 DEF SendCheck, Base, Places
<1>4. Current(s) \in Msgs /\ CurrentKey(s) \in OpKeys /\ BufferOf[Current(s)] \in Buffers
  BY <1>3, CurrentFacts, UseFacts
<1>5. CallerTypes'
  <2>1. \A result \in Answer : Return(s, result) => CallerTypes'
    BY <1>3, ReturnTypes
  <2>2. {"sent", "error", "busy", "cancelled", "pending"} \subseteq Answer
    BY DEF Answer
  <2>3. ASSUME NEW x \in SenderPlaces, pc' = [pc EXCEPT ![s] = x],
               UNCHANGED <<answer, caller>>
        PROVE  CallerTypes'
    BY <1>1, <2>3 DEF CallerTypes, caller, SenderPlaces, Place
  <2>4. SendCheck(s) => CallerTypes'
    BY <2>1, <2>2, <2>3 DEF SendCheck, Goto, SenderPlaces
  <2>5. SendSpeculate(s) \/ SendSeesFree(s) \/ SendFill(s, op) => CallerTypes'
    BY <2>3 DEF SendSpeculate, SendSeesFree, SendFill, Goto, SenderPlaces, results
  <2>6. SendDirect(s) => CallerTypes'
    BY <2>1, <2>2, <2>3 DEF SendDirect, Goto, SenderPlaces
  <2>7. SendSpin(s) => CallerTypes'
    <3>1. CASE SendSpin(s) /\ retry[s] < PENDING_RETRY
      <4>1. retry[s] \in 0..PENDING_RETRY /\ retry[s] # PENDING_RETRY
        BY <1>1, <3>1 DEF CallerTypes, PENDING_RETRY
      <4>2. UNCHANGED <<pc, answer, sending>> /\ retry' = [retry EXCEPT ![s] = retry[s] + 1]
        BY <3>1, <4>1 DEF SendSpin
      <4>3. retry[s] + 1 \in 0..PENDING_RETRY
        BY <4>1 DEF PENDING_RETRY
      <4>. QED  BY <1>1, <4>2, <4>3 DEF CallerTypes
    <3>2. CASE SendSpin(s) /\ ~(retry[s] < PENDING_RETRY)
      BY <2>1, <2>2, <3>2 DEF SendSpin
    <3>. QED  BY <3>1, <3>2
  <2>8. SendQueue(s) => CallerTypes'
    BY <2>1, <2>2 DEF SendQueue
  <2>. QED  BY <2>4, <2>5, <2>6, <2>7, <2>8 DEF SendStep
<1>6. buffer' \in [Buffers -> Msgs \cup {Null}]
  BY <1>1, <1>4 DEF SendStep, SendCheck, SendSpeculate, SendDirect, SendSpin,
       SendSeesFree, SendFill, SendQueue, ops
<1>7. opkey' \in [OpKeys -> [op : Ops, buf : Buffers \cup {Null},
                             written : -1..Size, msg : Msgs \cup {Null}]]
  <2>1. SendFill(s, op) \/ opkey' = opkey
    BY DEF SendStep, SendCheck, SendSpeculate, SendDirect, SendSpin, SendSeesFree,
        SendQueue, ops
  <2>2. 0 \in -1..Size /\ op \in Ops
    BY KeyAssumption DEF Ops
  <2>. QED  BY <1>1, <1>4, <2>1, <2>2 DEF SendFill
<1>8. wire' \in Seq(Msgs)
  <2>1. SendDirect(s) \/ wire' = wire
    BY DEF SendStep, SendCheck, SendSpeculate, SendSpin, SendSeesFree, SendFill,
        SendQueue, net
  <2>2. \A n \in 1..Size : [i \in 1..n |-> Current(s)] \in Seq(Msgs)
    BY <1>4, KeyAssumption
  <2>3. SendDirect(s) => wire' = wire \/ \E n \in 1..Size :
                           wire' = wire \o [i \in 1..n |-> Current(s)]
    BY DEF SendDirect
  <2>4. \A w \in Seq(Msgs) : wire \o w \in Seq(Msgs)
    BY <1>1
  <2>. QED  BY <1>1, <2>1, <2>2, <2>3, <2>4
<1>9. use' = use /\ UNCHANGED <<mutex, connecting, closing, job, link, inbox, arrived,
                                reports, received, dropped>>
  BY SenderFrame
<1>. QED
  BY <1>5, <1>6, <1>7, <1>8, <1>9 DEF Base, TypeOK, LinkTypes, CallerTypes, Answer


\* A step of sender s that submits nothing: it goes on, or returns.
Moves(s) ==
  /\ s \in use.active /\ sending[s] <= MaxMessages
  /\ UNCHANGED <<mutex, use, next, prev, opkey, job, reports>>
  /\ \/ /\ UNCHANGED <<answer, sending>>
        /\ \E x \in SenderPlaces \ {"queue"} :
             /\ pc' = [pc EXCEPT ![s] = x] \/ pc' = pc
             /\ x = "fill" => opkey[CurrentKey(s)].op = NONE
     \/ /\ answer' = [answer EXCEPT ![Current(s)] = answer'[Current(s)]]
        /\ answer'[Current(s)] # "pending"
        /\ sending' = [sending EXCEPT ![s] = sending[s] + 1]
        /\ pc' = [pc EXCEPT ![s] = "idle"]

LEMMA SenderMoves ==
  ASSUME Base, NEW s \in Senders, NEW op, SendStep(s, op),
         ~SendFill(s, op), ~SendQueue(s)
  PROVE  Moves(s)
<1>1. s \in use.active /\ sending[s] <= MaxMessages
  BY DEF SendStep, SendCheck, SendSpeculate, SendDirect, SendSpin, SendSeesFree, Base,
      Places
<1>2. Current(s) \in Msgs /\ s \in Threads \ {NoThread}
  BY <1>1, CurrentFacts, ThreadIds
<1>3. UNCHANGED <<mutex, use, next, prev, opkey, job, reports>>
  BY DEF SendStep, SendCheck, SendSpeculate, SendDirect, SendSpin, SendSeesFree,
      key, lists, ops, results
<1>4. ASSUME NEW result, result # "pending", Return(s, result)
      PROVE  /\ answer' = [answer EXCEPT ![Current(s)] = answer'[Current(s)]]
             /\ answer'[Current(s)] # "pending"
             /\ sending' = [sending EXCEPT ![s] = sending[s] + 1]
             /\ pc' = [pc EXCEPT ![s] = "idle"]
  BY <1>2, <1>4 DEF Return, Goto, Base, TypeOK
<1>5. CASE SendCheck(s)
  BY <1>1, <1>3, <1>4, <1>5 DEF SendCheck, Goto, caller, Moves, SenderPlaces
<1>6. CASE SendSpeculate(s)
  <2>1. /\ UNCHANGED <<answer, sending>>
        /\ pc' = [pc EXCEPT ![s] = "direct"] \/ pc' = [pc EXCEPT ![s] = "spin"]
    BY <1>6 DEF SendSpeculate, Goto, caller, results
  <2>. QED  BY <1>1, <1>3, <2>1 DEF Moves, SenderPlaces
<1>7. CASE SendDirect(s)
  BY <1>1, <1>3, <1>4, <1>7 DEF SendDirect, Goto, caller, Moves, SenderPlaces
<1>8. CASE SendSpin(s)
  BY <1>1, <1>3, <1>4, <1>8 DEF SendSpin, Moves, SenderPlaces
<1>9. CASE SendSeesFree(s)
  BY <1>1, <1>3, <1>9 DEF SendSeesFree, top_ioqueue_is_pending, Goto, caller, results,
       Moves, SenderPlaces
<1>. QED  BY <1>5, <1>6, <1>7, <1>8, <1>9 DEF SendStep

LEMMA MovesKeep ==
  ASSUME KeyInv, NEW s \in Senders, Moves(s), TypeOK', Locks'
  PROVE  KeyInv'
<1>1. /\ Current(s) \in Msgs /\ Current(s)[1] = s /\ Current(s)[2] = sending[s]
      /\ answer[Current(s)] = "none"
  <2>1. /\ Current(s) \in Msgs /\ Current(s)[1] = s /\ Current(s)[2] = sending[s]
    BY CurrentFacts DEF KeyInv, Moves
  <2>2. sending[s] \in Nat
    BY DEF KeyInv, Base, TypeOK
  <2>3. Current(s)[2] >= sending[Current(s)[1]]
    BY <2>1, <2>2
  <2>. QED  BY <2>1, <2>3 DEF KeyInv, Fresh
<1>2. /\ ring' = ring /\ SendKeys' = SendKeys /\ Sent' = Sent /\ home' = home
      /\ KeyOf' = KeyOf /\ ReadKey' = ReadKey /\ Datagram' = Datagram
      /\ use' = use
  BY UseKept DEF Moves, ring
<1>3. \A m \in Msgs : /\ answer'[m] = answer[m] \/ (m = Current(s) /\ answer[m] = "none"
                                                     /\ answer'[m] # "pending")
                      /\ reports'[m] = reports[m]
  BY <1>1 DEF Moves, KeyInv, Base, TypeOK
<1>4. \A t \in Pollers \cup Receivers \cup {App} : pc'[t] = pc[t]
  BY ThreadIds DEF Moves, KeyInv, Base, TypeOK
<1>5. \A k : WaitsFor(k)' <=> WaitsFor(k)
  BY <1>2, <1>4 DEF WaitsFor
<1>6. \A m : Awaited(m)' <=> Awaited(m)
  BY <1>2, <1>3, UseFacts DEF Awaited, KeyInv
<1>7. /\ \A r \in Senders : r # s => sending'[r] = sending[r] /\ pc'[r] = pc[r]
      /\ sending'[s] = sending[s] \/ (sending'[s] = sending[s] + 1 /\ pc'[s] = "idle")
      /\ pc'[s] \in SenderPlaces
      /\ pc'[s] = "fill" => opkey[CurrentKey(s)].op = NONE /\ sending'[s] = sending[s]
      /\ pc'[s] = "queue" => pc[s] = "queue" /\ sending'[s] = sending[s]
  <2>1. /\ pc \in [Threads \ {NoThread} -> Place]
        /\ sending \in [Senders -> 1..(MaxMessages + 1)] /\ s \in Threads \ {NoThread}
        /\ \A r \in Senders : r \in Threads \ {NoThread}
    BY ThreadIds DEF KeyInv, Base, TypeOK
  <2>2. /\ pc[s] \in SenderPlaces
        /\ pc[s] = "fill" => opkey[CurrentKey(s)].op = NONE
    BY DEF KeyInv, Base, Places, Queueing
  <2>3. CASE UNCHANGED <<answer, sending>>
             /\ \E x \in SenderPlaces \ {"queue"} :
                  /\ pc' = [pc EXCEPT ![s] = x] \/ pc' = pc
                  /\ x = "fill" => opkey[CurrentKey(s)].op = NONE
    BY <2>1, <2>2, <2>3
  <2>4. CASE sending' = [sending EXCEPT ![s] = sending[s] + 1]
             /\ pc' = [pc EXCEPT ![s] = "idle"]
    BY <2>1, <2>4 DEF SenderPlaces
  <2>. QED  BY <2>3, <2>4 DEF Moves
<1>8. Places'
  BY <1>2, <1>4, <1>7 DEF Places, Moves, KeyInv, Base
<1>9. Links' /\ Exclusive(use)'
  BY <1>2 DEF Links, Moves, KeyInv, Base, Exclusive
<1>10. Filed'
  BY <1>2, <1>5, <1>6 DEF Filed, IsSend, Moves, KeyInv
<1>11. Queueing'
  BY <1>2, <1>4, <1>7 DEF Queueing, IsSend, CurrentKey, Current, Writing, Moves, KeyInv
<1>12. SendJobs'
  BY <1>2, <1>4, <1>6 DEF SendJobs, Writing, Moves, KeyInv
<1>13. ReadJobs'
  BY <1>2, <1>4, <1>5 DEF ReadJobs, Moves, KeyInv
<1>14. Hands'
  BY <1>2, <1>4 DEF Hands, Writing, IsSend, Moves, KeyInv
<1>15. Fresh'
  <2>1. ASSUME NEW m \in Msgs, m[2] >= sending'[m[1]]
        PROVE  m[2] >= sending[m[1]] /\ (m # Current(s) \/ answer' = answer)
    <3>1. /\ m[1] \in Senders /\ m[2] \in Nat /\ sending[s] \in Nat /\ sending[m[1]] \in Nat
      BY DEF Msgs, KeyInv, Base, TypeOK
    <3>2. CASE m[1] # s
      BY <1>1, <1>7, <2>1, <3>2, <3>1
    <3>3. CASE m[1] = s /\ sending'[s] = sending[s]
      <4>1. answer' = answer
        BY <3>1, <3>3 DEF Moves, KeyInv, Base, TypeOK
      <4>. QED  BY <2>1, <3>3, <4>1
    <3>4. CASE m[1] = s /\ sending'[s] = sending[s] + 1
      BY <1>1, <2>1, <3>1, <3>4
    <3>. QED  BY <1>7, <3>2, <3>3, <3>4
  <2>2. ASSUME NEW m \in Msgs, m[2] >= sending'[m[1]]
        PROVE  answer'[m] = "none" /\ reports'[m] = <<>>
    BY <1>3, <2>1, <2>2 DEF KeyInv, Fresh
  <2>. QED  BY <2>2 DEF Fresh
<1>16. CompletedOnce'
  BY <1>1, <1>3 DEF CompletedOnce, KeyInv, Fresh
<1>. QED
  BY <1>8, <1>9, <1>10, <1>11, <1>12, <1>13, <1>14, <1>15, <1>16 DEF KeyInv, Base


\* Two senders never use one key at a time.
LEMMA KeysApart ==
  ASSUME Base, NEW s \in Senders, NEW r \in Senders, r # s,
         pc[s] # "idle", pc[r] # "idle"
  PROVE  CurrentKey(r) # CurrentKey(s)
<1>1. /\ Current(s) \in Sent /\ Current(s)[1] = s /\ CurrentKey(s) = KeyOf[Current(s)]
      /\ Current(r) \in Sent /\ Current(r)[1] = r /\ CurrentKey(r) = KeyOf[Current(r)]
  BY CurrentFacts DEF Base, Places
<1>. QED  BY <1>1, UseFacts

LEMMA FillKeeps ==
  ASSUME KeyInv, NEW s \in Senders, NEW op \in {SEND, SEND_TO}, SendFill(s, op), TypeOK'
  PROVE  KeyInv'
<1>. DEFINE k == CurrentKey(s)
<1>1. /\ s \in use.active /\ sending[s] <= MaxMessages /\ pc[s] = "fill"
      /\ k \in SendKeys /\ k \in OpKeys /\ opkey[k].op = NONE
  BY CurrentFacts DEF KeyInv, Base, SendFill, Places, Queueing
<1>2. opkey' = [opkey EXCEPT ![k] = [op |-> op, buf |-> BufferOf[Current(s)],
                                     written |-> 0, msg |-> Current(s)]]
      /\ pc' = [pc EXCEPT ![s] = "queue"]
  BY DEF SendFill, Goto
<1>. HIDE DEF k
<1>3. UNCHANGED <<mutex, use, next, prev, job, reports, answer, sending>>
  BY DEF SendFill, key, lists, caller, results
<1>4. /\ ring' = ring /\ SendKeys' = SendKeys /\ Sent' = Sent /\ home' = home
      /\ KeyOf' = KeyOf /\ ReadKey' = ReadKey /\ Datagram' = Datagram /\ use' = use
      /\ (Exclusive(use) => Exclusive(use)')
  BY <1>3, UseKept DEF ring
<1>5. k \notin ring /\ \A p \in Pollers : Writing(p) => job[p].key # k
  BY <1>1 DEF KeyInv, Filed, Hands, IsSend, NONE, SEND, SEND_TO
<1>6. /\ opkey'[k].op = op /\ opkey'[k].msg = Current(s)
      /\ \A j \in OpKeys : j # k => opkey'[j] = opkey[j]
  BY <1>1, <1>2 DEF KeyInv, Base, TypeOK
<1>7. \A t \in Pollers \cup Receivers \cup {App} : pc'[t] = pc[t]
  BY <1>2, ThreadIds DEF KeyInv, Base, TypeOK
<1>8. pc'[s] = "queue" /\ \A r \in Senders : r # s => pc'[r] = pc[r]
  BY <1>2, ThreadIds DEF KeyInv, Base, TypeOK
<1>9. \A j : WaitsFor(j)' <=> WaitsFor(j)
  BY <1>4, <1>7 DEF WaitsFor
<1>10. \A m : Awaited(m)' <=> Awaited(m)
  BY <1>3, <1>4 DEF Awaited
<1>11. Locks' /\ Places' /\ Links'
  <2>1. Locks'
    BY <1>3, <1>4, <1>7 DEF KeyInv, Base, Locks, Writing, InCallback, AllowConcurrent
  <2>2. Places'
    BY <1>1, <1>3, <1>4, <1>7, <1>8 DEF KeyInv, Base, Places, SenderPlaces
  <2>3. Links'
    BY <1>3, <1>4 DEF KeyInv, Base, Links
  <2>. QED  BY <2>1, <2>2, <2>3
<1>12. Filed'
  BY <1>4, <1>5, <1>6, <1>9, <1>10 DEF KeyInv, Filed, IsSend
<1>13. Queueing'
  <2>1. \A r \in Senders : Current(r)' = Current(r) /\ CurrentKey(r)' = CurrentKey(r)
    BY <1>3, <1>4 DEF Current, CurrentKey
  <2>2. ASSUME NEW r \in Senders, r # s, pc[r] # "idle"
        PROVE  CurrentKey(r) # k /\ CurrentKey(r) \in OpKeys
    BY <1>1, <2>2, KeysApart, CurrentFacts DEF KeyInv, Base, Places, k
  <2>3. ASSUME NEW r \in Senders, r # s
        PROVE  /\ pc'[r] = "fill" => opkey'[CurrentKey(r)].op = NONE
               /\ pc'[r] = "queue" =>
                    /\ opkey'[CurrentKey(r)].op \in {SEND, SEND_TO}
                    /\ opkey'[CurrentKey(r)].msg = Current(r)
                    /\ CurrentKey(r) \notin ring
                    /\ \A p \in Pollers : Writing(p) => job[p].key # CurrentKey(r)
    BY <1>6, <1>8, <2>2, <2>3 DEF KeyInv, Queueing, IsSend
  <2>4. CurrentKey(s) = k
    BY DEF k
  <2>5. \A p \in Pollers : Writing(p)' <=> Writing(p)
    BY <1>7 DEF Writing
  <2>. QED
    BY <1>3, <1>4, <1>5, <1>6, <1>8, <2>1, <2>3, <2>4, <2>5 DEF Queueing, IsSend
<1>14. SendJobs'
  BY <1>3, <1>4, <1>5, <1>6, <1>7, <1>10, UseFacts DEF KeyInv, SendJobs, Writing
<1>15. ReadJobs'
  BY <1>3, <1>4, <1>7, <1>9 DEF KeyInv, ReadJobs
<1>16. Hands'
  <2>1. \A t \in Pollers \cup {App} : Writing(t) => t \in Pollers /\ job[t].key \in OpKeys
    BY UseFacts DEF KeyInv, Base, Places, Writing, Hands, SendJobs, Awaited
  <2>. QED  BY <1>3, <1>4, <1>5, <1>6, <1>7, <2>1 DEF KeyInv, Hands, IsSend, Writing
<1>17. Fresh' /\ CompletedOnce'
  BY <1>3 DEF KeyInv, Fresh, CompletedOnce
<1>. QED
  BY <1>4, <1>11, <1>12, <1>13, <1>14, <1>15, <1>16, <1>17 DEF KeyInv, Base


\* The locked part of a send, when the key is not closing.
Queues(s) ==
  /\ pc[s] = "queue" /\ mutex = NoThread
  /\ PushBack(WriteList, CurrentKey(s))
  /\ Return(s, "pending")
  /\ UNCHANGED <<mutex, use, opkey, job, reports>>

LEMMA QueueLinks ==
  ASSUME KeyInv, NEW s \in Senders, pc[s] = "queue", use' = use,
         PushBack(WriteList, CurrentKey(s))
  PROVE  /\ LinkTypes' /\ Links' /\ ring' = ring \cup {CurrentKey(s)}
         /\ \A g \in Heads : next'[g] # g => g = WriteList \/ next[g] # g
<1>. DEFINE k == CurrentKey(s)
<1>1. k \in SendKeys /\ k \in OpKeys /\ k \notin ring /\ home[k] = WriteList
  BY CurrentFacts, UseFacts DEF KeyInv, Base, Places, Queueing
<1>2. LinkTypes /\ Links /\ home' = home /\ WriteList \in Heads
  BY UseKept, NodeIds DEF KeyInv, Base, TypeOK, LinkTypes
<1>. HIDE DEF k
<1>3. PushBack(WriteList, k)
  BY DEF k
<1>4. /\ LinkTypes' /\ Links' /\ ring' = ring \cup {k}
      /\ \A g \in Heads : next'[g] # g => g = WriteList \/ next[g] # g
  BY <1>1, <1>2, <1>3, PushLinks
<1>. QED  BY <1>4 DEF k

LEMMA QueueKeeps ==
  ASSUME KeyInv, NEW s \in Senders, Queues(s), TypeOK'
  PROVE  KeyInv'
<1>. DEFINE k == CurrentKey(s)
            c == Current(s)
<1>1. /\ s \in use.active /\ sending[s] <= MaxMessages /\ pc[s] = "queue"
      /\ k \in SendKeys /\ k \in OpKeys /\ c \in Sent /\ c \in Msgs /\ KeyOf[c] = k
      /\ c[1] = s /\ c[2] = sending[s]
      /\ opkey[k].op \in {SEND, SEND_TO} /\ opkey[k].msg = c /\ k \notin ring
      /\ \A p \in Pollers : Writing(p) => job[p].key # k
  BY CurrentFacts DEF KeyInv, Base, Queues, Places, Queueing, IsSend
<1>2. /\ answer' = [answer EXCEPT ![c] = "pending"]
      /\ sending' = [sending EXCEPT ![s] = sending[s] + 1]
      /\ pc' = [pc EXCEPT ![s] = "idle"]
  BY DEF Queues, Return, Goto, KeyInv, Base, TypeOK
<1>3. /\ Links' /\ ring' = ring \cup {k} /\ UNCHANGED <<mutex, use, opkey, job, reports>>
  BY QueueLinks DEF Queues
<1>. HIDE DEF k, c
<1>4. /\ SendKeys' = SendKeys /\ Sent' = Sent /\ home' = home
      /\ KeyOf' = KeyOf /\ ReadKey' = ReadKey /\ Datagram' = Datagram
      /\ (Exclusive(use) => Exclusive(use)')
  BY <1>3, UseKept
<1>5. answer[c] = "none" /\ reports[c] = <<>>
  <2>1. sending[s] \in Nat
    BY DEF KeyInv, Base, TypeOK
  <2>2. c[2] >= sending[c[1]]
    BY <1>1, <2>1
  <2>. QED  BY <1>1, <2>2 DEF KeyInv, Fresh
<1>6. answer'[c] = "pending" /\ \A m \in Msgs : m # c => answer'[m] = answer[m]
  BY <1>1, <1>2 DEF KeyInv, Base, TypeOK
<1>7. /\ \A t \in Pollers \cup Receivers \cup {App} : pc'[t] = pc[t]
      /\ pc'[s] = "idle" /\ \A r \in Senders : r # s => pc'[r] = pc[r]
      /\ sending'[s] = sending[s] + 1 /\ \A r \in Senders : r # s => sending'[r] = sending[r]
  BY <1>2, ThreadIds DEF KeyInv, Base, TypeOK
<1>8. \A j : WaitsFor(j)' <=> WaitsFor(j)
  BY <1>3, <1>4, <1>7 DEF WaitsFor
<1>9. \A m : Awaited(m)' <=> Awaited(m) \/ m = c
  BY <1>1, <1>3, <1>4, <1>5, <1>6, UseFacts DEF Awaited, KeyInv
<1>10. ~Awaited(c)
  BY <1>5 DEF Awaited
<1>11. Locks' /\ Places'
  <2>1. Locks'
    BY <1>3, <1>4, <1>7 DEF KeyInv, Base, Locks, Writing, InCallback, AllowConcurrent
  <2>2. Places'
    BY <1>1, <1>3, <1>4, <1>7 DEF KeyInv, Base, Places, SenderPlaces
  <2>. QED  BY <2>1, <2>2
<1>12. Filed'
  BY <1>1, <1>3, <1>4, <1>8, <1>9 DEF KeyInv, Filed, IsSend
<1>13. Queueing'
  <2>1. ASSUME NEW r \in Senders, r # s
        PROVE  /\ CurrentKey(r)' = CurrentKey(r) /\ Current(r)' = Current(r)
               /\ pc[r] # "idle" => CurrentKey(r) # k
    BY <1>1, <1>4, <1>7, <2>1, KeysApart DEF Current, CurrentKey, KeyInv, k
  <2>2. \A p \in Pollers : Writing(p)' <=> Writing(p)
    BY <1>7 DEF Writing
  <2>. QED  BY <1>3, <1>4, <1>7, <2>1, <2>2 DEF KeyInv, Queueing, IsSend
<1>14. SendJobs'
  BY <1>1, <1>3, <1>4, <1>7, <1>9, <1>10 DEF KeyInv, SendJobs, Writing
<1>15. ReadJobs'
  <2>1. \A j : WaitsFor(j) => j # k
    BY <1>1, UseFacts DEF WaitsFor, KeyInv
  <2>. QED  BY <1>3, <1>4, <1>7, <1>8, <2>1 DEF KeyInv, ReadJobs
<1>16. Hands'
  <2>1. \A t \in Pollers \cup {App} : Writing(t) => t \in Pollers /\ job[t].key # k
    BY <1>1 DEF KeyInv, Base, Places, Writing
  <2>. QED  BY <1>3, <1>4, <1>7, <2>1 DEF KeyInv, Hands, IsSend, Writing
<1>17. Fresh'
  <2>1. ASSUME NEW m \in Msgs, m[2] >= sending'[m[1]]
        PROVE  m # c /\ m[2] >= sending[m[1]]
    <3>1. /\ m[1] \in Senders /\ m[2] \in Nat /\ sending[s] \in Nat /\ sending[m[1]] \in Nat
      BY DEF Msgs, KeyInv, Base, TypeOK
    <3>. QED  BY <1>1, <1>7, <2>1, <3>1
  <2>. QED  BY <1>3, <1>6, <2>1 DEF KeyInv, Fresh
<1>18. CompletedOnce'
  BY <1>3, <1>5, <1>6 DEF KeyInv, CompletedOnce
<1>. QED
  BY <1>3, <1>4, <1>11, <1>12, <1>13, <1>14, <1>15, <1>16, <1>17, <1>18 DEF KeyInv, Base

LEMMA SenderKeeps ==
  ASSUME KeyInv, LockInv', NEW s \in Senders, NEW op \in {SEND, SEND_TO}, SendStep(s, op)
  PROVE  KeyInv'
<1>1. LinkTypes /\ Base /\ evs \subseteq {READABLE, WRITEABLE, EXCEPTION} /\ use' = use
  BY SenderFrame DEF KeyInv, Base, TypeOK, LinkTypes
<1>2. CASE ~SendFill(s, op) /\ ~SendQueue(s)
  <2>1. Moves(s)
    BY <1>1, <1>2, SenderMoves
  <2>2. evs' = evs
    BY <1>2 DEF SendStep, SendCheck, SendSpeculate, SendDirect, SendSpin, SendSeesFree, key
  <2>3. TypeOK'
    BY <1>1, <2>1, <2>2, SenderTypes DEF Moves, LinkTypes
  <2>. QED  BY <2>1, <2>3, MovesKeep DEF LockInv
<1>3. CASE SendFill(s, op)
  <2>1. TypeOK'
    BY <1>1, <1>3, SenderTypes DEF SendFill, key, lists, LinkTypes
  <2>. QED  BY <1>3, <2>1, FillKeeps
<1>4. CASE SendQueue(s) /\ closing
  <2>1. UNCHANGED <<next, prev, evs>> /\ Return(s, "cancelled")
    BY <1>4 DEF SendQueue, lists
  <2>2. TypeOK'
    BY <1>1, <2>1, SenderTypes DEF LinkTypes
  <2>3. Moves(s)
    <3>1. s \in use.active /\ sending[s] <= MaxMessages
      BY <1>4 DEF SendQueue, KeyInv, Base, Places
    <3>2. Current(s) \in Msgs
      BY <1>1, <3>1, CurrentFacts
    <3>3. UNCHANGED <<mutex, use, opkey, job, reports>>
      BY <1>4 DEF SendQueue, ops
    <3>4. /\ answer' = [answer EXCEPT ![Current(s)] = "cancelled"]
          /\ sending' = [sending EXCEPT ![s] = sending[s] + 1]
          /\ pc' = [pc EXCEPT ![s] = "idle"]
      BY <2>1 DEF Return, Goto, KeyInv, Base, TypeOK
    <3>5. answer'[Current(s)] = "cancelled"
      BY <3>2, <3>4 DEF KeyInv, Base, TypeOK
    <3>. QED  BY <2>1, <3>1, <3>3, <3>4, <3>5 DEF Moves
  <2>. QED  BY <2>2, <2>3, MovesKeep DEF LockInv
<1>5. CASE SendQueue(s) /\ ~closing
  <2>1. Queues(s) /\ evs' = evs \cup {WRITEABLE}
    BY <1>5 DEF SendQueue, Queues, ops
  <2>2. LinkTypes'
    BY <1>1, <2>1, QueueLinks DEF Queues
  <2>3. TypeOK'
    BY <1>1, <2>1, <2>2, SenderTypes
  <2>. QED  BY <2>1, <2>3, QueueKeeps
<1>. QED  BY <1>2, <1>3, <1>4, <1>5

-----------------------------------------------------------------------------
(* Receivers. *)

\* A receiver queues an operation of the function he called.
Reading == \A r \in Receivers : pc[r] = "queue" => opkey[ReadKey[r]].op = use.calls

\* Nobody waits for the key of a receiver that does not wait: it is in no
\* list and in nobody's hands.
LEMMA KeyOfReceiver ==
  ASSUME KeyInv, NEW r \in Receivers, r \in use.active, pc[r] # "waiting"
  PROVE  /\ ReadKey[r] \in OpKeys /\ ReadKey[r] \notin SendKeys /\ ReadKey[r] \notin ring
         /\ home[ReadKey[r]] = ReadHead /\ ~WaitsFor(ReadKey[r])
         /\ \A t \in Pollers \cup {App} : job[t].key # ReadKey[r]
<1>1. /\ ReadKey[r] \in OpKeys /\ ReadKey[r] \notin SendKeys /\ home[ReadKey[r]] = ReadHead
      /\ ReadKey[r] # Null
  BY UseFacts, NodeIds DEF KeyInv
<1>2. ~WaitsFor(ReadKey[r])
  BY UseFacts DEF KeyInv, WaitsFor
<1>3. ReadKey[r] \notin ring
  BY <1>1, <1>2 DEF KeyInv, Filed
<1>4. ASSUME NEW t \in Pollers \cup {App} PROVE job[t].key # ReadKey[r]
  <2>1. CASE job[t].msg = Null
    BY <1>1, <1>2, <2>1 DEF KeyInv, ReadJobs
  <2>2. CASE job[t].msg # Null
    <3>1. job[t].key = KeyOf[job[t].msg] /\ job[t].msg \in Sent
      BY <2>2 DEF KeyInv, SendJobs, Awaited
    <3>. QED  BY <1>1, <3>1, UseFacts DEF KeyInv
  <2>. QED  BY <2>1, <2>2
<1>. QED  BY <1>1, <1>2, <1>3, <1>4

OpKeyType == [op : Ops, buf : Buffers \cup {Null}, written : -1..Size,
              msg : Msgs \cup {Null}]

LEMMA OpTypes ==
  ASSUME opkey \in [OpKeys -> OpKeyType], NEW k \in OpKeys, NEW x \in Ops
  PROVE  [opkey EXCEPT ![k].op = x] \in [OpKeys -> OpKeyType]
<1>1. [opkey[k] EXCEPT !.op = x] \in OpKeyType
  BY DEF OpKeyType
<1>. QED  BY <1>1

LEMMA ReceiverTypes ==
  ASSUME Base, NEW r \in Receivers, ReceiverStep(r), LinkTypes'
  PROVE  TypeOK'
<1>1. /\ r \in Threads \ {NoThread} /\ ReadKey[r] \in OpKeys /\ use.calls \in Ops
      /\ NONE \in Ops
  BY ThreadIds, UseFacts DEF Ops
<1>2. /\ UNCHANGED <<mutex, use, buffer, connecting, closing, retry, sending, job, link,
                     arrived, wire, answer, reports>>
      /\ \E x \in ReceiverPlaces : pc' = [pc EXCEPT ![r] = x]
  BY ReceiverFrame DEF caller
<1>3. pc' \in [Threads \ {NoThread} -> Place]
  BY <1>1, <1>2 DEF Base, TypeOK, ReceiverPlaces, Place
<1>4. evs' \subseteq {READABLE, WRITEABLE, EXCEPTION}
  BY DEF ReceiverStep, ReadStep, ReadCheck, ReadDirect, ReadFill, ReadQueue, key, Base,
      TypeOK
<1>5. opkey' \in [OpKeys -> [op : Ops, buf : Buffers \cup {Null},
                             written : -1..Size, msg : Msgs \cup {Null}]]
  <2>1. \/ opkey' = opkey
        \/ \E x \in Ops : opkey' = [opkey EXCEPT ![ReadKey[r]].op = x]
    BY <1>1 DEF ReceiverStep, ReadStep, ReadCheck, ReadDirect, ReadFill, ReadQueue, ops
  <2>2. opkey \in [OpKeys -> OpKeyType]
    BY DEF OpKeyType, Base, TypeOK
  <2>3. opkey' \in [OpKeys -> OpKeyType]
    <3>1. \A x \in Ops : [opkey EXCEPT ![ReadKey[r]].op = x] \in [OpKeys -> OpKeyType]
      BY <1>1, <2>2, OpTypes
    <3>. QED  BY <2>1, <2>2, <3>1
  <2>. QED  BY <2>3 DEF OpKeyType
<1>6. inbox' \in Seq(1..MaxArrivals) /\ received' \in [Receivers -> Seq(1..MaxArrivals)]
  <2>1. \/ inbox' = inbox /\ received' = received
        \/ Take(r)
        \/ received' = received /\ DropAccepted(r)
    BY DEF ReceiverStep, ReadStep, ReadCheck, ReadDirect, ReadFill, ReadQueue, net, results
  <2>2. inbox \in Seq(1..MaxArrivals) /\ received \in [Receivers -> Seq(1..MaxArrivals)]
    BY DEF Base, TypeOK
  <2>3. CASE Take(r)
    <3>1. Head(inbox) \in 1..MaxArrivals /\ Tail(inbox) \in Seq(1..MaxArrivals)
      BY <2>2, <2>3, FirstAndRest DEF Take
    <3>2. Append(received[r], Head(inbox)) \in Seq(1..MaxArrivals)
      BY <2>2, <3>1
    <3>. QED  BY <2>2, <2>3, <3>1, <3>2 DEF Take
  <2>4. CASE received' = received /\ DropAccepted(r)
    BY <2>2, <2>4, FirstAndRest DEF DropAccepted
  <2>. QED  BY <2>1, <2>2, <2>3, <2>4
<1>7. dropped' \subseteq 1..MaxArrivals
  <2>1. dropped' = dropped \/ DropAccepted(r)
    BY DEF ReceiverStep, ReadStep, ReadCheck, ReadDirect, ReadFill, ReadQueue, results
  <2>2. inbox \in Seq(1..MaxArrivals) /\ dropped \subseteq 1..MaxArrivals
    BY DEF Base, TypeOK
  <2>3. DropAccepted(r) => Head(inbox) \in 1..MaxArrivals
    BY <2>2, FirstAndRest DEF DropAccepted
  <2>. QED  BY <2>1, <2>2, <2>3 DEF DropAccepted
<1>. QED  BY <1>2, <1>3, <1>4, <1>5, <1>6, <1>7 DEF Base, TypeOK, LinkTypes

\* A step of a receiver that queues nothing.
LEMMA ReceiverMoves ==
  ASSUME KeyInv, NEW r \in Receivers, ReceiverStep(r), LockInv', next' = next, prev' = prev
  PROVE  KeyInv'
<1>. DEFINE j == ReadKey[r]
<1>1. /\ UNCHANGED <<mutex, use, buffer, connecting, closing, sending, job, link,
                     arrived, wire, answer, reports>>
      /\ \E x \in ReceiverPlaces : pc' = [pc EXCEPT ![r] = x]
  BY ReceiverFrame DEF caller
<1>2. r \in use.active /\ pc[r] # "waiting"
  BY DEF ReceiverStep, ReadStep, ReadCheck, ReadDirect, ReadFill, ReadQueue, KeyInv, Base,
      Places
<1>3. pc'[r] # "waiting"
  <2>1. ReadQueue(r) => pc'[r] # "waiting"
    <3>. SUFFICES ASSUME ReadQueue(r), ~closing PROVE FALSE
      BY ThreadIds DEF ReadQueue, Goto, KeyInv, Base, TypeOK
    <3>1. PushBack(ListOf(r), j)
      BY DEF ReadQueue
    <3>2. /\ LinkTypes /\ Links /\ ListOf(r) = ReadHead /\ home' = home
          /\ j \in OpKeys /\ j \notin ring /\ home[j] = ReadHead /\ ReadHead \in Heads
      BY <1>1, <1>2, KeyOfReceiver, UseFacts, UseKept
         DEF KeyInv, Base, TypeOK, LinkTypes, ListOf, ReadHead
    <3>3. ring' = ring \cup {j}
      BY <3>1, <3>2, PushLinks
    <3>4. ring' = ring
      BY DEF ring
    <3>. QED  BY <3>2, <3>3, <3>4
  <2>. QED  BY <2>1, ThreadIds DEF ReceiverStep, ReadStep, ReadCheck, ReadDirect, ReadFill,
              Goto, KeyInv, Base, TypeOK
<1>4. LinkTypes'
  BY DEF KeyInv, Base, TypeOK, LinkTypes
<1>5. TypeOK' /\ Locks'
  BY <1>4, ReceiverTypes DEF KeyInv, LockInv
<1>6. /\ j \in OpKeys /\ j \notin SendKeys /\ j \notin ring /\ ~WaitsFor(j)
      /\ \A t \in Pollers \cup {App} : job[t].key # j
  BY <1>2, KeyOfReceiver
<1>7. \A k \in OpKeys : k # j => opkey'[k] = opkey[k]
  BY <1>6 DEF ReceiverStep, ReadStep, ReadCheck, ReadDirect, ReadFill, ReadQueue, ops,
      KeyInv, Base, TypeOK
<1>8. /\ \A t \in Pollers \cup Senders \cup {App} : pc'[t] = pc[t]
      /\ \A q \in Receivers : q # r => pc'[q] = pc[q]
      /\ pc'[r] \in ReceiverPlaces
  BY <1>1, ThreadIds DEF KeyInv, Base, TypeOK
<1>9. /\ ring' = ring /\ SendKeys' = SendKeys /\ Sent' = Sent /\ home' = home
      /\ KeyOf' = KeyOf /\ ReadKey' = ReadKey /\ Datagram' = Datagram
      /\ (Exclusive(use) => Exclusive(use)')
  BY <1>1, UseKept DEF ring
<1>. HIDE DEF j
<1>10. \A k : WaitsFor(k)' <=> WaitsFor(k)
  BY <1>1, <1>2, <1>3, <1>8, <1>9 DEF WaitsFor
<1>11. \A m : Awaited(m)' <=> Awaited(m)
  BY <1>1, <1>9 DEF Awaited
<1>12. Places' /\ Links'
  BY <1>1, <1>2, <1>8, <1>9 DEF KeyInv, Base, Places, Links
<1>13. Filed'
  BY <1>1, <1>6, <1>7, <1>9, <1>10, <1>11 DEF KeyInv, Filed, IsSend
<1>14. Queueing'
  <2>1. \A s \in Senders : Current(s)' = Current(s) /\ CurrentKey(s)' = CurrentKey(s)
    BY <1>1, <1>9 DEF Current, CurrentKey
  <2>2. ASSUME NEW s \in Senders, pc[s] # "idle"
        PROVE  CurrentKey(s) # j /\ CurrentKey(s) \in OpKeys
    BY <1>6, <2>2, CurrentFacts DEF KeyInv, Base, Places
  <2>3. \A p \in Pollers : Writing(p)' <=> Writing(p)
    BY <1>8 DEF Writing
  <2>. QED
    BY <1>1, <1>7, <1>8, <1>9, <2>1, <2>2, <2>3 DEF KeyInv, Queueing, IsSend
<1>15. SendJobs'
  BY <1>1, <1>6, <1>7, <1>8, <1>9, <1>11, UseFacts DEF KeyInv, SendJobs, Writing
<1>16. ReadJobs'
  BY <1>1, <1>8, <1>9, <1>10 DEF KeyInv, ReadJobs
<1>17. Hands'
  <2>1. \A t \in Pollers \cup {App} : Writing(t) => job[t].key \in OpKeys
    BY UseFacts DEF KeyInv, Base, Hands, SendJobs, Awaited
  <2>. QED  BY <1>1, <1>6, <1>7, <1>8, <1>9, <2>1 DEF KeyInv, Hands, IsSend, Writing
<1>18. Fresh' /\ CompletedOnce'
  BY <1>1 DEF KeyInv, Fresh, CompletedOnce
<1>. QED
  BY <1>5, <1>9, <1>12, <1>13, <1>14, <1>15, <1>16, <1>17, <1>18 DEF KeyInv, Base

\* The locked part of a call, when the key is not closing.
LEMMA ReadQueueKeeps ==
  ASSUME KeyInv, NEW r \in Receivers, ReadQueue(r), ~closing, LockInv', Reading
  PROVE  KeyInv'
<1>. DEFINE j == ReadKey[r]
<1>1. /\ UNCHANGED <<mutex, use, sending, job, opkey, answer, reports>>
      /\ pc' = [pc EXCEPT ![r] = "waiting"] /\ PushBack(ListOf(r), j)
  BY DEF ReadQueue, Goto, caller, ops, results
<1>2. r \in use.active /\ pc[r] = "queue" /\ opkey[j].op = use.calls
  BY DEF ReadQueue, KeyInv, Base, Places, Reading
<1>3. /\ j \in OpKeys /\ j \notin SendKeys /\ j \notin ring /\ ~WaitsFor(j)
      /\ home[j] = ReadHead /\ \A t \in Pollers \cup {App} : job[t].key # j
  BY <1>2, KeyOfReceiver
<1>4. LinkTypes /\ Links /\ ListOf(r) = ReadHead /\ home' = home /\ ReadHead \in Heads
  BY <1>1, UseFacts, UseKept DEF KeyInv, Base, TypeOK, LinkTypes, ListOf, ReadHead
<1>5. LinkTypes' /\ Links' /\ ring' = ring \cup {j}
  BY <1>1, <1>3, <1>4, PushLinks
<1>6. TypeOK' /\ Locks'
  BY <1>5, ReceiverTypes DEF KeyInv, LockInv, ReceiverStep, ReadStep
<1>. HIDE DEF j
<1>7. /\ \A t \in Pollers \cup Senders \cup {App} : pc'[t] = pc[t]
      /\ \A q \in Receivers : q # r => pc'[q] = pc[q]
      /\ pc'[r] = "waiting"
  BY <1>1, ThreadIds DEF KeyInv, Base, TypeOK
<1>8. /\ SendKeys' = SendKeys /\ Sent' = Sent /\ KeyOf' = KeyOf /\ ReadKey' = ReadKey
      /\ Datagram' = Datagram /\ (Exclusive(use) => Exclusive(use)')
  BY <1>1, UseKept
<1>9. \A k : WaitsFor(k)' <=> WaitsFor(k) \/ k = j
  BY <1>1, <1>2, <1>7, <1>8 DEF WaitsFor, j
<1>10. \A m : Awaited(m)' <=> Awaited(m)
  BY <1>1, <1>8 DEF Awaited
<1>11. Places'
  BY <1>1, <1>2, <1>7 DEF KeyInv, Base, Places, ReceiverPlaces
<1>12. Filed'
  BY <1>1, <1>2, <1>3, <1>5, <1>8, <1>9, <1>10 DEF KeyInv, Filed, IsSend
<1>13. Queueing'
  <2>1. \A s \in Senders : Current(s)' = Current(s) /\ CurrentKey(s)' = CurrentKey(s)
    BY <1>1, <1>8 DEF Current, CurrentKey
  <2>2. ASSUME NEW s \in Senders, pc[s] # "idle"
        PROVE  CurrentKey(s) # j
    BY <1>3, <2>2, CurrentFacts DEF KeyInv, Base, Places
  <2>3. \A p \in Pollers : Writing(p)' <=> Writing(p)
    BY <1>7 DEF Writing
  <2>. QED
    BY <1>1, <1>5, <1>7, <1>8, <2>1, <2>2, <2>3 DEF KeyInv, Queueing, IsSend
<1>14. SendJobs'
  BY <1>1, <1>3, <1>5, <1>7, <1>8, <1>10 DEF KeyInv, SendJobs, Writing
<1>15. ReadJobs'
  BY <1>1, <1>3, <1>5, <1>7, <1>8, <1>9 DEF KeyInv, ReadJobs
<1>16. Hands'
  BY <1>1, <1>3, <1>5, <1>7, <1>8 DEF KeyInv, Hands, IsSend, Writing
<1>17. Fresh' /\ CompletedOnce'
  BY <1>1 DEF KeyInv, Fresh, CompletedOnce
<1>. QED
  BY <1>5, <1>6, <1>8, <1>11, <1>12, <1>13, <1>14, <1>15, <1>16, <1>17 DEF KeyInv, Base

LEMMA ReceiverKeeps ==
  ASSUME KeyInv, Reading, LockInv', NEW r \in Receivers, ReceiverStep(r)
  PROVE  KeyInv'
<1>1. (next' = next /\ prev' = prev) \/ (ReadQueue(r) /\ ~closing)
  BY DEF ReceiverStep, ReadStep, ReadCheck, ReadDirect, ReadFill, ReadQueue, lists
<1>. QED  BY <1>1, ReceiverMoves, ReadQueueKeeps

-----------------------------------------------------------------------------
(* Pollers and the application. *)

Workers == Pollers \cup {App}

\* Where a worker has an operation in its hands.
Busy == {"writing", "written", "writeCall", "readCall", "postCall"}

LEMMA IdleHands ==
  ASSUME KeyInv, NEW t \in Workers, pc[t] \notin Busy
  PROVE  job[t].key = Null /\ job[t].msg = Null
BY DEF KeyInv, SendJobs, ReadJobs, Busy, Workers

\* What a worker's step leaves alone.
WorkerFrame ==
  /\ UNCHANGED <<use, buffer, retry, sending, answer, dropped>>
  /\ \A s \in Senders : pc'[s] = pc[s]

LEMMA FrameFacts ==
  ASSUME WorkerFrame
  PROVE  /\ SendKeys' = SendKeys /\ Sent' = Sent /\ home' = home /\ KeyOf' = KeyOf
         /\ ReadKey' = ReadKey /\ Datagram' = Datagram /\ ReadHead' = ReadHead
         /\ (Exclusive(use) => Exclusive(use)')
         /\ \A s \in Senders : Current(s)' = Current(s) /\ CurrentKey(s)' = CurrentKey(s)
BY UseKept DEF WorkerFrame, Current, CurrentKey

\* The sender's key, while he sends.
LEMMA SenderKey ==
  ASSUME KeyInv, NEW s \in Senders, pc[s] # "idle"
  PROVE  CurrentKey(s) \in SendKeys /\ CurrentKey(s) \in OpKeys /\ Current(s) \in Sent
BY CurrentFacts DEF KeyInv, Base, Places

\* A step that gives nobody an operation and takes none.
Passes ==
  /\ WorkerFrame /\ UNCHANGED <<next, prev, reports>>
  /\ \A k \in OpKeys : opkey'[k].op = opkey[k].op /\ opkey'[k].msg = opkey[k].msg
  /\ \A r \in Receivers : pc'[r] = pc[r]
  /\ \A t \in Workers :
       /\ job'[t].key = job[t].key /\ job'[t].msg = job[t].msg
       /\ \/ pc'[t] = pc[t]
          \/ pc[t] \notin Busy /\ pc'[t] \notin Busy
          \/ pc[t] \in {"writing", "written"} /\ pc'[t] \in {"writing", "written"}

LEMMA PassesKeep ==
  ASSUME KeyInv, TypeOK', Locks', Places', Passes
  PROVE  KeyInv'
<1>1. /\ SendKeys' = SendKeys /\ Sent' = Sent /\ home' = home /\ KeyOf' = KeyOf
      /\ ReadKey' = ReadKey /\ Datagram' = Datagram /\ ring' = ring
      /\ (Exclusive(use) => Exclusive(use)')
      /\ \A s \in Senders : Current(s)' = Current(s) /\ CurrentKey(s)' = CurrentKey(s)
      /\ UNCHANGED <<use, sending, answer, reports>>
      /\ \A s \in Senders : pc'[s] = pc[s]
  BY FrameFacts DEF Passes, ring, WorkerFrame
<1>2. \A k : WaitsFor(k)' <=> WaitsFor(k)
  BY <1>1 DEF WaitsFor, Passes
<1>3. \A m : Awaited(m)' <=> Awaited(m)
  BY <1>1 DEF Awaited
<1>4. Links'
  BY <1>1 DEF KeyInv, Base, Links, Passes
<1>5. Filed'
  BY <1>1, <1>2, <1>3 DEF KeyInv, Filed, IsSend, Passes
<1>6. \A t \in Workers : (pc'[t] \in {"writing", "written"}) <=> (pc[t] \in {"writing", "written"})
  BY DEF Passes, Busy
<1>7. Queueing'
  BY <1>1, <1>6, SenderKey DEF KeyInv, Queueing, IsSend, Passes, Writing, Workers
<1>8. SendJobs'
  <2>1. \A k \in SendKeys : k \in OpKeys
    BY UseFacts DEF KeyInv
  <2>2. \A t \in Workers : job[t].msg # Null => (pc'[t] = pc[t] \/ pc'[t] \in {"writing", "written"})
    BY IdleHands DEF Passes
  <2>. QED  BY <1>1, <1>3, <1>6, <2>1, <2>2 DEF KeyInv, SendJobs, Passes, Writing, Workers
<1>9. ReadJobs'
  <2>1. \A t \in Workers : job[t].msg = Null /\ job[t].key # Null => pc'[t] = pc[t]
    BY IdleHands DEF Passes, KeyInv, ReadJobs, Workers
  <2>. QED  BY <1>1, <1>2, <2>1 DEF KeyInv, ReadJobs, Passes, Workers
<1>10. Hands'
  <2>1. \A t \in Workers : Writing(t) => job[t].key \in OpKeys
    BY UseFacts DEF KeyInv, Base, Hands, SendJobs, Awaited, Workers
  <2>2. \A t \in Workers : pc'[t] = pc[t] \/ pc'[t] \notin {"writeCall", "readCall", "postCall"}
    BY DEF Passes, Busy
  <2>. QED  BY <1>1, <1>6, <2>1, <2>2 DEF KeyInv, Hands, IsSend, Passes, Writing, Workers
<1>11. Fresh' /\ CompletedOnce'
  BY <1>1 DEF KeyInv, Fresh, CompletedOnce
<1>. QED
  BY <1>1, <1>4, <1>5, <1>7, <1>8, <1>9, <1>10, <1>11 DEF KeyInv, Base

\* A worker is done with the operation of a receiver, who goes on.
ReadTold(t) ==
  /\ WorkerFrame /\ UNCHANGED <<next, prev, opkey, reports>>
  /\ pc[t] \in Busy /\ job[t].msg = Null /\ job[t].key # Null
  /\ job' = [job EXCEPT ![t] = NoJob] /\ pc'[t] = "idle"
  /\ \A u \in Workers : u # t => pc'[u] = pc[u]
  /\ \/ \A r \in Receivers : pc'[r] = pc[r]
     \/ \A r \in Receivers : pc'[r] = IF ReadKey[r] = job[t].key THEN "idle" ELSE pc[r]

LEMMA ToldKeeps ==
  ASSUME KeyInv, TypeOK', Locks', Places', NEW t \in Workers, ReadTold(t)
  PROVE  KeyInv'
<1>. DEFINE j == job[t].key
<1>1. /\ SendKeys' = SendKeys /\ Sent' = Sent /\ home' = home /\ KeyOf' = KeyOf
      /\ ReadKey' = ReadKey /\ Datagram' = Datagram /\ ring' = ring
      /\ (Exclusive(use) => Exclusive(use)')
      /\ \A s \in Senders : Current(s)' = Current(s) /\ CurrentKey(s)' = CurrentKey(s)
      /\ UNCHANGED <<use, sending, answer, reports, next, prev, opkey>>
      /\ \A s \in Senders : pc'[s] = pc[s]
  BY FrameFacts DEF ReadTold, ring, WorkerFrame
<1>2. /\ j \notin ring /\ \A u \in Workers : job[u].key = j => u = t
      /\ j # Null /\ pc[t] \notin {"writing", "written"}
  BY DEF KeyInv, ReadJobs, ReadTold, Workers
<1>3. /\ job'[t].key = Null /\ job'[t].msg = Null /\ pc'[t] = "idle"
      /\ \A u \in Workers : u # t => job'[u] = job[u] /\ pc'[u] = pc[u]
  BY DEF ReadTold, KeyInv, Base, TypeOK, Workers, NoJob
<1>4. \A k : k # j => (WaitsFor(k)' <=> WaitsFor(k))
  BY <1>1 DEF WaitsFor, ReadTold
<1>. HIDE DEF j
<1>5. \A m : Awaited(m)' <=> Awaited(m)
  BY <1>1 DEF Awaited
<1>6. Links'
  BY <1>1 DEF KeyInv, Base, Links
<1>7. Filed'
  BY <1>1, <1>2, <1>4, <1>5 DEF KeyInv, Filed, IsSend
<1>8. \A u \in Workers : (pc'[u] \in {"writing", "written"}) <=> (pc[u] \in {"writing", "written"})
  BY <1>2, <1>3
<1>9. \A u \in Workers : pc[u] \in {"writing", "written"} => u # t
  BY <1>2
<1>10. Queueing'
  BY <1>1, <1>3, <1>8, <1>9 DEF KeyInv, Queueing, IsSend, Writing, Workers
<1>11. SendJobs'
  BY <1>1, <1>3, <1>5, <1>8 DEF KeyInv, SendJobs, Writing, Workers
<1>12. ReadJobs'
  BY <1>1, <1>2, <1>3, <1>4 DEF KeyInv, ReadJobs, Workers
<1>13. Hands'
  BY <1>1, <1>3, <1>8, <1>9 DEF KeyInv, Hands, IsSend, Writing, Workers
<1>14. Fresh' /\ CompletedOnce'
  BY <1>1 DEF KeyInv, Fresh, CompletedOnce
<1>. QED
  BY <1>1, <1>6, <1>7, <1>10, <1>11, <1>12, <1>13, <1>14 DEF KeyInv, Base

\* A worker is done with a message; its callback is called, or not.
Reports(t) ==
  /\ WorkerFrame /\ UNCHANGED <<next, prev, opkey>>
  /\ pc[t] \in {"writeCall", "postCall"} /\ job[t].msg # Null
  /\ \/ reports' = reports
     \/ \E v : reports' = [reports EXCEPT ![job[t].msg] = Append(reports[job[t].msg], v)]
  /\ job' = [job EXCEPT ![t] = NoJob] /\ pc'[t] = "idle"
  /\ \A u \in Workers \cup Receivers : u # t => pc'[u] = pc[u]

LEMMA ReportsKeep ==
  ASSUME KeyInv, TypeOK', Locks', Places', NEW t \in Workers, Reports(t)
  PROVE  KeyInv'
<1>. DEFINE c == job[t].msg
<1>1. /\ SendKeys' = SendKeys /\ Sent' = Sent /\ home' = home /\ KeyOf' = KeyOf
      /\ ReadKey' = ReadKey /\ Datagram' = Datagram /\ ring' = ring
      /\ (Exclusive(use) => Exclusive(use)')
      /\ \A s \in Senders : Current(s)' = Current(s) /\ CurrentKey(s)' = CurrentKey(s)
      /\ UNCHANGED <<use, sending, answer, next, prev, opkey>>
      /\ \A s \in Senders : pc'[s] = pc[s]
  BY FrameFacts DEF Reports, ring, WorkerFrame
<1>2. /\ Awaited(c) /\ c \in Sent /\ c \in Msgs /\ answer[c] = "pending" /\ reports[c] = <<>>
      /\ \A u \in Workers : job[u].msg = c => u = t
      /\ \A k \in SendKeys : k \in ring => opkey[k].msg # c
      /\ pc[t] \notin {"writing", "written"}
  BY UseFacts DEF KeyInv, SendJobs, Reports, Workers, Awaited, Writing
<1>3. /\ job'[t].key = Null /\ job'[t].msg = Null /\ pc'[t] = "idle"
      /\ \A u \in Workers : u # t => job'[u] = job[u] /\ pc'[u] = pc[u]
  BY DEF Reports, KeyInv, Base, TypeOK, Workers, NoJob
<1>4. \A r \in Receivers : pc'[r] = pc[r]
  BY ThreadIds DEF Reports, Workers
<1>5. /\ \A m \in Msgs : m # c => reports'[m] = reports[m]
      /\ Len(reports'[c]) <= 1
  <2>1. CASE reports' = reports
    BY <1>2, <2>1
  <2>2. ASSUME NEW v, reports' = [reports EXCEPT ![c] = Append(reports[c], v)]
        PROVE  /\ \A m \in Msgs : m # c => reports'[m] = reports[m]
               /\ Len(reports'[c]) <= 1
    <3>1. reports'[c] = <<v>>
      BY <1>2, <2>2 DEF KeyInv, Base, TypeOK
    <3>. QED  BY <1>2, <2>2, <3>1 DEF KeyInv, Base, TypeOK
  <2>. QED  BY <2>1, <2>2 DEF Reports
<1>. HIDE DEF c
<1>6. \A k : WaitsFor(k)' <=> WaitsFor(k)
  BY <1>1, <1>4 DEF WaitsFor
<1>7. \A m : m # c => (Awaited(m)' <=> Awaited(m))
  BY <1>1, <1>5, UseFacts DEF Awaited, KeyInv
<1>8. Links'
  BY <1>1 DEF KeyInv, Base, Links
<1>9. Filed'
  BY <1>1, <1>2, <1>6, <1>7 DEF KeyInv, Filed, IsSend
<1>10. /\ \A u \in Workers : (pc'[u] \in {"writing", "written"}) <=> (pc[u] \in {"writing", "written"})
       /\ \A u \in Workers : pc[u] \in {"writing", "written"} => u # t
  BY <1>2, <1>3
<1>11. Queueing'
  BY <1>1, <1>3, <1>10 DEF KeyInv, Queueing, IsSend, Writing, Workers
<1>12. SendJobs'
  BY <1>1, <1>2, <1>3, <1>7, <1>10 DEF KeyInv, SendJobs, Writing, Workers
<1>13. ReadJobs'
  BY <1>1, <1>3, <1>6 DEF KeyInv, ReadJobs, Workers
<1>14. Hands'
  BY <1>1, <1>3, <1>10 DEF KeyInv, Hands, IsSend, Writing, Workers
<1>15. Fresh'
  BY <1>1, <1>2, <1>5 DEF KeyInv, Fresh
<1>16. CompletedOnce'
  BY <1>1, <1>2, <1>5 DEF KeyInv, CompletedOnce
<1>. QED
  BY <1>1, <1>8, <1>9, <1>11, <1>12, <1>13, <1>14, <1>15, <1>16 DEF KeyInv, Base

\* Without the mutex nobody writes.
LEMMA NobodyWrites ==
  ASSUME KeyInv, mutex = NoThread, NEW t \in Workers
  PROVE  pc[t] \notin {"writing", "written"}
BY ThreadIds DEF KeyInv, Base, Locks, Places, Writing, Workers

\* A worker takes the operation of a receiver out of its list.
TakesRead(t, k) ==
  /\ WorkerFrame /\ UNCHANGED reports
  /\ mutex = NoThread /\ pc[t] \notin Busy
  /\ k \in OpKeys /\ k \in ring /\ k \notin SendKeys
  /\ Erase(k) /\ opkey' = [opkey EXCEPT ![k].op = NONE]
  /\ job'[t].key = k /\ job'[t].msg = Null /\ pc'[t] \in {"readCall", "postCall"}
  /\ \A u \in Workers : u # t => job'[u] = job[u] /\ pc'[u] = pc[u]
  /\ \A r \in Receivers : pc'[r] = pc[r]

LEMMA TakesReadKeeps ==
  ASSUME KeyInv, TypeOK', Locks', Places', NEW t \in Workers, NEW k, TakesRead(t, k)
  PROVE  KeyInv'
<1>1. /\ SendKeys' = SendKeys /\ Sent' = Sent /\ home' = home /\ KeyOf' = KeyOf
      /\ ReadKey' = ReadKey /\ Datagram' = Datagram
      /\ (Exclusive(use) => Exclusive(use)')
      /\ \A s \in Senders : Current(s)' = Current(s) /\ CurrentKey(s)' = CurrentKey(s)
      /\ UNCHANGED <<use, sending, answer, reports>>
      /\ \A s \in Senders : pc'[s] = pc[s]
  BY FrameFacts DEF TakesRead, WorkerFrame
<1>2. /\ k \in OpKeys /\ k \in ring /\ k \notin SendKeys /\ WaitsFor(k) /\ k # Null
  BY NodeIds DEF TakesRead, KeyInv, Filed
<1>3. Links' /\ ring' \subseteq ring \ {k}
  <2>1. LinkTypes /\ Links /\ Erase(k)
    BY DEF KeyInv, Base, TypeOK, LinkTypes, TakesRead
  <2>. QED  BY <1>1, <1>2, <2>1, EraseLinks
<1>4. opkey'[k].op = NONE /\ \A j \in OpKeys : j # k => opkey'[j] = opkey[j]
  BY <1>2 DEF TakesRead, KeyInv, Base, TypeOK
<1>5. \A j : WaitsFor(j)' <=> WaitsFor(j)
  BY <1>1 DEF WaitsFor, TakesRead
<1>6. \A m : Awaited(m)' <=> Awaited(m)
  BY <1>1 DEF Awaited
<1>7. Filed'
  BY <1>1, <1>2, <1>3, <1>4, <1>5, <1>6 DEF KeyInv, Filed, IsSend
<1>8. \A u \in Workers : pc[u] \notin {"writing", "written"} /\ pc'[u] \notin {"writing", "written"}
  BY NobodyWrites DEF TakesRead
<1>9. Queueing'
  <2>1. ASSUME NEW s \in Senders, pc[s] # "idle"
        PROVE  CurrentKey(s) # k /\ CurrentKey(s) \in OpKeys
    BY <1>2, <2>1, SenderKey
  <2>. QED  BY <1>1, <1>3, <1>4, <1>8, <2>1 DEF KeyInv, Queueing, IsSend, Writing, Workers
<1>10. SendJobs'
  <2>1. \A j \in SendKeys : j \in OpKeys /\ j # k
    BY <1>2, UseFacts DEF KeyInv
  <2>2. /\ job'[t].msg = Null
        /\ \A u \in Workers : u # t => job'[u] = job[u] /\ pc'[u] = pc[u]
    BY DEF TakesRead
  <2>. QED  BY <1>1, <1>3, <1>4, <1>6, <1>8, <2>1, <2>2 DEF KeyInv, SendJobs, Writing, Workers
<1>11. ReadJobs'
  <2>1. \A u \in Workers : job[u].key # k
    <3>. SUFFICES ASSUME NEW u \in Workers, job[u].key = k PROVE FALSE
      OBVIOUS
    <3>1. CASE job[u].msg = Null
      BY <1>2, <3>1 DEF KeyInv, ReadJobs, Workers
    <3>2. CASE job[u].msg # Null
      BY <1>2, <3>2, UseFacts DEF KeyInv, SendJobs, Awaited, Workers
    <3>. QED  BY <3>1, <3>2
  <2>2. /\ job'[t].key = k /\ job'[t].msg = Null /\ pc'[t] \in {"readCall", "postCall"}
        /\ \A u \in Workers : u # t => job'[u] = job[u] /\ pc'[u] = pc[u]
    BY DEF TakesRead
  <2>. QED  BY <1>1, <1>2, <1>3, <1>5, <2>1, <2>2 DEF KeyInv, ReadJobs, Workers
<1>12. Hands'
  <2>1. /\ job'[t].key = k /\ job'[t].msg = Null /\ pc'[t] \in {"readCall", "postCall"}
        /\ \A u \in Workers : u # t => job'[u] = job[u] /\ pc'[u] = pc[u]
    BY DEF TakesRead
  <2>. QED  BY <1>2, <1>8, <2>1 DEF KeyInv, Hands, Writing, Workers
<1>13. Fresh' /\ CompletedOnce'
  BY <1>1 DEF KeyInv, Fresh, CompletedOnce
<1>. QED
  BY <1>1, <1>3, <1>7, <1>9, <1>10, <1>11, <1>12, <1>13 DEF KeyInv, Base

\* A worker takes a message: the application cancels it, a poller sends it.  A
\* datagram leaves its list before it is sent.
TakesWrite(t, k) ==
  /\ WorkerFrame /\ UNCHANGED reports
  /\ mutex = NoThread /\ pc[t] \notin Busy
  /\ k \in OpKeys /\ k \in ring /\ k \in SendKeys
  /\ \/ /\ pc'[t] = "postCall" /\ Erase(k) /\ opkey' = [opkey EXCEPT ![k].op = NONE]
     \/ /\ pc'[t] = "writing" /\ opkey' = opkey
        /\ IF Datagram THEN Erase(k) ELSE UNCHANGED <<next, prev>>
  /\ job'[t].key = k /\ job'[t].msg = opkey[k].msg
  /\ \A u \in Workers : u # t => job'[u] = job[u] /\ pc'[u] = pc[u]
  /\ \A r \in Receivers : pc'[r] = pc[r]

LEMMA TakesWriteKeeps ==
  ASSUME KeyInv, TypeOK', Locks', Places', NEW t \in Workers, NEW k, TakesWrite(t, k)
  PROVE  KeyInv'
<1>. DEFINE c == opkey[k].msg
<1>1. /\ SendKeys' = SendKeys /\ Sent' = Sent /\ home' = home /\ KeyOf' = KeyOf
      /\ ReadKey' = ReadKey /\ Datagram' = Datagram
      /\ (Exclusive(use) => Exclusive(use)')
      /\ \A s \in Senders : Current(s)' = Current(s) /\ CurrentKey(s)' = CurrentKey(s)
      /\ UNCHANGED <<use, sending, answer, reports>>
      /\ \A s \in Senders : pc'[s] = pc[s]
  BY FrameFacts DEF TakesWrite, WorkerFrame
<1>2. /\ k \in OpKeys /\ k \in ring /\ k \in SendKeys /\ IsSend(k) /\ Awaited(c)
      /\ KeyOf[c] = k /\ c # Null /\ k # Null
  BY NodeIds, UseFacts DEF TakesWrite, KeyInv, Filed, Awaited
<1>3. /\ job'[t].key = k /\ job'[t].msg = c
      /\ \A u \in Workers : u # t => job'[u] = job[u] /\ pc'[u] = pc[u]
      /\ \A r \in Receivers : pc'[r] = pc[r]
      /\ pc'[t] \in {"postCall", "writing"}
  BY DEF TakesWrite
<1>4. /\ Links' /\ ring' \subseteq ring
      /\ pc'[t] = "postCall" => k \notin ring'
      /\ pc'[t] = "writing" => (k \in ring' <=> ~Datagram)
  <2>1. LinkTypes /\ Links
    BY DEF KeyInv, Base, TypeOK, LinkTypes
  <2>2. CASE Erase(k)
    <3>1. Links' /\ ring' \subseteq ring \ {k}
      BY <1>1, <1>2, <2>1, <2>2, EraseLinks
    <3>2. pc'[t] = "writing" => Datagram
      <4>. SUFFICES ASSUME pc'[t] = "writing", ~Datagram PROVE FALSE
        OBVIOUS
      <4>1. ring' = ring
        BY DEF TakesWrite, ring
      <4>. QED  BY <1>2, <3>1, <4>1
    <3>. QED  BY <3>1, <3>2
  <2>3. CASE ~Erase(k)
    <3>1. pc'[t] = "writing" /\ ~Datagram /\ next' = next /\ prev' = prev
      BY <2>3 DEF TakesWrite
    <3>2. ring' = ring
      BY <3>1 DEF ring
    <3>. QED  BY <1>1, <1>2, <2>1, <3>1, <3>2 DEF Links
  <2>. QED  BY <2>2, <2>3
<1>5. /\ opkey'[k].msg = c
      /\ pc'[t] = "writing" => opkey'[k].op = opkey[k].op
      /\ opkey'[k].op = opkey[k].op \/ opkey'[k].op = NONE
      /\ \A j \in OpKeys : j # k => opkey'[j] = opkey[j]
  BY <1>2 DEF TakesWrite, KeyInv, Base, TypeOK
<1>6. \A u \in Workers : job[u].msg # c
  <2>. SUFFICES ASSUME NEW u \in Workers, job[u].msg = c PROVE FALSE
    OBVIOUS
  <2>1. Writing(u)
    BY <1>2 DEF KeyInv, SendJobs, Workers
  <2>. QED  BY <2>1, NobodyWrites DEF TakesWrite, Writing
<1>. HIDE DEF c
<1>7. \A j : WaitsFor(j)' <=> WaitsFor(j)
  BY <1>1, <1>3 DEF WaitsFor
<1>8. \A m : Awaited(m)' <=> Awaited(m)
  BY <1>1 DEF Awaited
<1>9. Filed'
  <2>1. pc'[t] = "postCall" \/ opkey'[k].op = opkey[k].op
    BY <1>3, <1>5
  <2>. QED  BY <1>1, <1>2, <1>4, <1>5, <1>7, <1>8, <2>1 DEF KeyInv, Filed, IsSend
<1>10. \A u \in Workers : pc[u] \notin {"writing", "written"}
  BY NobodyWrites DEF TakesWrite
<1>11. Queueing'
  <2>1. ASSUME NEW s \in Senders, pc[s] = "queue"
        PROVE  CurrentKey(s) # k
    BY <1>2, <2>1 DEF KeyInv, Queueing
  <2>2. ASSUME NEW s \in Senders, pc[s] # "idle"
        PROVE  CurrentKey(s) \in OpKeys
    BY <2>2, SenderKey
  <2>. QED  BY <1>1, <1>3, <1>4, <1>5, <1>10, <2>1, <2>2
            DEF KeyInv, Queueing, IsSend, Writing, Workers
<1>12. SendJobs'
  <2>1. \A j \in SendKeys : j \in OpKeys
    BY UseFacts DEF KeyInv
  <2>2. ASSUME NEW u \in Workers, u # t, job[u].msg # Null
        PROVE  /\ Awaited(job[u].msg) /\ job[u].key = KeyOf[job[u].msg]
               /\ pc[u] \in {"writeCall", "postCall"}
               /\ \A v \in Workers : job'[v].msg = job[u].msg => v = u
               /\ \A j \in SendKeys : j \in ring' => opkey'[j].msg # job[u].msg
    BY <1>3, <1>4, <1>5, <1>6, <1>10, <2>1, <2>2 DEF KeyInv, SendJobs, Writing, Workers
  <2>3. \A u \in Workers : job'[u].msg = c => u = t
    BY <1>3, <1>6
  <2>4. \A j \in SendKeys : j \in ring' /\ opkey'[j].msg = c => pc'[t] = "writing"
    <3>. SUFFICES ASSUME NEW j \in SendKeys, j \in ring', opkey'[j].msg = c, pc'[t] = "postCall"
                  PROVE  FALSE
      BY <1>3
    <3>1. j # k /\ j \in ring /\ opkey[j].msg = c
      BY <1>4, <1>5, <2>1
    <3>2. KeyOf[c] = j
      BY <2>1, <3>1 DEF KeyInv, Filed
    <3>. QED  BY <1>2, <3>1, <3>2
  <2>. QED  BY <1>1, <1>2, <1>3, <1>8, <2>2, <2>3, <2>4 DEF SendJobs, Writing, Workers
<1>13. ReadJobs'
  <2>1. ASSUME NEW u \in Workers, job[u].msg = Null, job[u].key # Null
        PROVE  job[u].key # k /\ u # t
    <3>1. WaitsFor(job[u].key) /\ pc[u] \in Busy
      BY <2>1 DEF KeyInv, ReadJobs, Workers, Busy
    <3>2. \A j : WaitsFor(j) => j \notin SendKeys
      BY UseFacts DEF WaitsFor, KeyInv
    <3>. QED  BY <1>2, <3>1, <3>2 DEF TakesWrite
  <2>. QED  BY <1>1, <1>2, <1>3, <1>4, <1>7, <2>1 DEF KeyInv, ReadJobs, Workers
<1>14. Hands'
  BY <1>1, <1>2, <1>3, <1>4, <1>5, <1>10 DEF KeyInv, Hands, IsSend, Writing, Workers
<1>15. Fresh' /\ CompletedOnce'
  BY <1>1 DEF KeyInv, Fresh, CompletedOnce
<1>. QED
  BY <1>1, <1>4, <1>9, <1>11, <1>12, <1>13, <1>14, <1>15 DEF KeyInv, Base

\* The poller's message is done with, as far as the list goes.
Finishes(p) ==
  /\ WorkerFrame /\ UNCHANGED <<job, reports>>
  /\ pc[p] = "written" /\ pc'[p] = "writeCall"
  /\ opkey' = [opkey EXCEPT ![job[p].key].op = NONE]
  /\ IF Datagram THEN UNCHANGED <<next, prev>> ELSE Erase(job[p].key)
  /\ \A u \in Workers \cup Receivers : u # p => pc'[u] = pc[u]

LEMMA FinishesKeep ==
  ASSUME KeyInv, TypeOK', Locks', Places', NEW p \in Pollers, Finishes(p)
  PROVE  KeyInv'
<1>. DEFINE k == job[p].key
            c == job[p].msg
<1>1. /\ SendKeys' = SendKeys /\ Sent' = Sent /\ home' = home /\ KeyOf' = KeyOf
      /\ ReadKey' = ReadKey /\ Datagram' = Datagram
      /\ (Exclusive(use) => Exclusive(use)')
      /\ \A s \in Senders : Current(s)' = Current(s) /\ CurrentKey(s)' = CurrentKey(s)
      /\ UNCHANGED <<use, sending, answer, reports, job>>
      /\ \A s \in Senders : pc'[s] = pc[s]
  BY FrameFacts DEF Finishes, WorkerFrame
<1>2. /\ Writing(p) /\ c # Null /\ c = opkey[k].msg /\ (k \in ring <=> ~Datagram)
      /\ Awaited(c) /\ k = KeyOf[c] /\ c \in Sent /\ p \in Workers
      /\ \A u \in Workers : job[u].msg = c => u = p
  BY DEF KeyInv, Hands, SendJobs, Writing, Finishes, Workers, Awaited
<1>3. k \in OpKeys /\ k \in SendKeys /\ k # Null
  BY <1>2, UseFacts, NodeIds DEF KeyInv
<1>4. /\ pc'[p] = "writeCall" /\ \A u \in Workers : u # p => pc'[u] = pc[u]
      /\ \A r \in Receivers : pc'[r] = pc[r]
  BY ThreadIds DEF Finishes, Workers
<1>5. Links' /\ ring' \subseteq ring \ {k}
  <2>1. LinkTypes /\ Links
    BY DEF KeyInv, Base, TypeOK, LinkTypes
  <2>2. CASE Datagram
    <3>1. next' = next /\ prev' = prev
      BY <2>2 DEF Finishes
    <3>2. ring' = ring
      BY <3>1 DEF ring
    <3>. QED  BY <1>1, <1>2, <2>1, <2>2, <3>1, <3>2 DEF Links
  <2>3. CASE ~Datagram
    <3>1. Erase(k) /\ k \in ring
      BY <1>2, <2>3 DEF Finishes
    <3>. QED  BY <1>1, <1>3, <2>1, <3>1, EraseLinks
  <2>. QED  BY <2>2, <2>3
<1>6. /\ opkey'[k].op = NONE /\ opkey'[k].msg = c
      /\ \A j \in OpKeys : j # k => opkey'[j] = opkey[j]
  BY <1>2, <1>3 DEF Finishes, KeyInv, Base, TypeOK
<1>7. \A u \in Workers : u # p => pc[u] \notin {"writing", "written"}
  <2>1. mutex = p
    BY <1>2 DEF KeyInv, Base, Locks
  <2>. QED  BY <2>1, ThreadIds DEF KeyInv, Base, Locks, Places, Writing, Workers
<1>. HIDE DEF k, c
<1>8. \A j : WaitsFor(j)' <=> WaitsFor(j)
  BY <1>1, <1>4 DEF WaitsFor
<1>9. \A m : Awaited(m)' <=> Awaited(m)
  BY <1>1 DEF Awaited
<1>10. Filed'
  BY <1>1, <1>3, <1>5, <1>6, <1>8, <1>9 DEF KeyInv, Filed, IsSend
<1>11. Queueing'
  <2>1. ASSUME NEW s \in Senders, pc[s] = "queue"
        PROVE  CurrentKey(s) # k
    <3>1. job[p].key # CurrentKey(s)
      BY <1>2, <2>1 DEF KeyInv, Queueing
    <3>. QED  BY <3>1 DEF k
  <2>2. ASSUME NEW s \in Senders, pc[s] # "idle"
        PROVE  CurrentKey(s) \in OpKeys
    BY <2>2, SenderKey
  <2>. QED  BY <1>1, <1>4, <1>5, <1>6, <1>7, <2>1, <2>2
            DEF KeyInv, Queueing, IsSend, Writing, Workers
<1>12. SendJobs'
  <2>1. \A j \in SendKeys : j \in OpKeys
    BY UseFacts DEF KeyInv
  <2>2. \A j \in SendKeys : j \in ring' => opkey'[j].msg # c
    <3>. SUFFICES ASSUME NEW j \in SendKeys, j \in ring', opkey'[j].msg = c PROVE FALSE
      OBVIOUS
    <3>1. j # k /\ j \in ring /\ opkey[j].msg = c
      BY <1>5, <1>6, <2>1
    <3>2. KeyOf[c] = j
      BY <2>1, <3>1 DEF KeyInv, Filed
    <3>. QED  BY <1>2, <3>1, <3>2
  <2>3. job[p].msg = c
    BY DEF c
  <2>4. ASSUME NEW u \in Workers, u # p, job[u].msg # Null
        PROVE  \A j \in SendKeys : j \in ring' => opkey'[j].msg # job[u].msg
    <3>. SUFFICES ASSUME NEW j \in SendKeys, j \in ring', opkey'[j].msg = job[u].msg
                  PROVE  FALSE
      OBVIOUS
    <3>1. j # k /\ j \in ring /\ opkey[j].msg = job[u].msg
      BY <1>5, <1>6, <2>1
    <3>. QED  BY <1>7, <2>4, <3>1 DEF KeyInv, SendJobs, Writing, Workers
  <2>. QED
    BY <1>1, <1>2, <1>4, <1>7, <1>9, <2>2, <2>3, <2>4 DEF KeyInv, SendJobs, Writing, Workers
<1>13. ReadJobs'
  <2>1. job[p].msg # Null
    BY <1>2 DEF c
  <2>. QED  BY <1>1, <1>4, <1>5, <1>8, <2>1 DEF KeyInv, ReadJobs, Workers
<1>14. Hands'
  <2>1. job[p].msg # Null
    BY <1>2 DEF c
  <2>. QED  BY <1>1, <1>4, <1>7, <2>1 DEF KeyInv, Hands, Writing, Workers
<1>15. Fresh' /\ CompletedOnce'
  BY <1>1 DEF KeyInv, Fresh, CompletedOnce
<1>. QED
  BY <1>1, <1>5, <1>10, <1>11, <1>12, <1>13, <1>14, <1>15 DEF KeyInv, Base

\* The application clears an operation key that is in no list.
Clears(k) ==
  /\ WorkerFrame /\ UNCHANGED <<job, reports, pc>>
  /\ k \in OpKeys /\ k \notin ring /\ opkey[k].op = NONE
  /\ \A t \in Workers : job[t].key # k
  /\ next' = [next EXCEPT ![k] = Null] /\ prev' = [prev EXCEPT ![k] = Null]
  /\ opkey'[k].op = NONE /\ \A j \in OpKeys : j # k => opkey'[j] = opkey[j]

LEMMA ClearsKeep ==
  ASSUME KeyInv, TypeOK', Locks', NEW k, Clears(k)
  PROVE  KeyInv'
<1>1. /\ SendKeys' = SendKeys /\ Sent' = Sent /\ home' = home /\ KeyOf' = KeyOf
      /\ ReadKey' = ReadKey /\ Datagram' = Datagram
      /\ (Exclusive(use) => Exclusive(use)')
      /\ \A s \in Senders : Current(s)' = Current(s) /\ CurrentKey(s)' = CurrentKey(s)
      /\ UNCHANGED <<use, sending, answer, reports, job, pc>>
  BY FrameFacts DEF Clears, WorkerFrame
<1>2. /\ k \in OpKeys /\ k \notin ring /\ opkey[k].op = NONE /\ opkey'[k].op = NONE
      /\ \A t \in Workers : job[t].key # k
      /\ \A j \in OpKeys : j # k => opkey'[j] = opkey[j]
  BY DEF Clears
<1>3. Links' /\ ring' = ring
  <2>1. LinkTypes /\ Links
    BY DEF KeyInv, Base, TypeOK, LinkTypes
  <2>. QED  BY <1>1, <1>2, <2>1, ClearLinks DEF Clears
<1>4. \A j : WaitsFor(j)' <=> WaitsFor(j)
  BY <1>1 DEF WaitsFor
<1>5. \A m : Awaited(m)' <=> Awaited(m)
  BY <1>1 DEF Awaited
<1>6. Places'
  BY <1>1 DEF KeyInv, Base, Places
<1>7. Filed'
  BY <1>1, <1>2, <1>3, <1>4, <1>5 DEF KeyInv, Filed, IsSend
<1>8. Queueing'
  <2>1. ASSUME NEW s \in Senders, pc[s] = "queue"
        PROVE  CurrentKey(s) # k
    BY <1>2, <2>1 DEF KeyInv, Queueing, IsSend, NONE, SEND, SEND_TO
  <2>2. ASSUME NEW s \in Senders, pc[s] # "idle"
        PROVE  CurrentKey(s) \in OpKeys
    BY <2>2, SenderKey
  <2>. QED  BY <1>1, <1>2, <1>3, <2>1, <2>2 DEF KeyInv, Queueing, IsSend, Writing
<1>9. SendJobs'
  <2>1. \A j \in SendKeys : j \in OpKeys
    BY UseFacts DEF KeyInv
  <2>. QED  BY <1>1, <1>2, <1>3, <1>5, <2>1 DEF KeyInv, SendJobs, Writing
<1>10. ReadJobs'
  BY <1>1, <1>3, <1>4 DEF KeyInv, ReadJobs
<1>11. Hands'
  <2>1. \A t \in Workers : Writing(t) => job[t].key \in OpKeys
    BY UseFacts DEF KeyInv, Base, Hands, SendJobs, Awaited, Workers
  <2>. QED  BY <1>1, <1>2, <1>3, <2>1 DEF KeyInv, Hands, IsSend, Writing, Workers
<1>12. Fresh' /\ CompletedOnce'
  BY <1>1 DEF KeyInv, Fresh, CompletedOnce
<1>. QED
  BY <1>1, <1>3, <1>6, <1>7, <1>8, <1>9, <1>10, <1>11, <1>12 DEF KeyInv, Base

-----------------------------------------------------------------------------
(* Where a worker goes, and what it then holds. *)

LEMMA WorkerAt ==
  ASSUME KeyInv, NEW t \in Workers, NEW x, pc' = [pc EXCEPT ![t] = x]
  PROVE  /\ pc'[t] = x
         /\ \A u \in Workers \cup Receivers \cup Senders : u # t => pc'[u] = pc[u]
         /\ \A s \in Senders \cup Receivers : pc'[s] = pc[s]
BY ThreadIds DEF KeyInv, Base, TypeOK, Workers

LEMMA JobAt ==
  ASSUME KeyInv, NEW t \in Workers, NEW x \in Job, job' = [job EXCEPT ![t] = x]
  PROVE  /\ job' \in [Workers -> Job] /\ job'[t] = x
         /\ \A u \in Workers : u # t => job'[u] = job[u]
BY DEF KeyInv, Base, TypeOK, Workers

LEMMA JobRecords ==
  NoJob \in Job /\ NoJob.key = Null /\ NoJob.msg = Null /\ NoJob.value = 0
BY DEF NoJob, Job

PollerPlaces == {"idle", READABLE, WRITEABLE, EXCEPTION, "writing", "written", "writeCall",
                 "readCall", "connectCall"}
AppPlaces == {"idle", "connectQueue", "locked", "postCall"}

LEMMA PlacesKept ==
  ASSUME KeyInv, WorkerFrame, NEW t \in Workers,
         t = App => pc'[t] \in AppPlaces, t # App => pc'[t] \in PollerPlaces,
         \A u \in Workers : u # t => pc'[u] = pc[u] /\ job'[u] = job[u],
         job'[t].value \in -1..MaxArrivals,
         \A r \in Receivers : pc'[r] = pc[r] \/ pc'[r] = "idle"
  PROVE  Places'
BY ThreadIds DEF KeyInv, Base, Places, WorkerFrame, Workers, AppPlaces, PollerPlaces,
   ReceiverPlaces

\* What TypeOK says of the variables that workers write, but for the links.
WorkTypes ==
  /\ opkey \in [OpKeys -> OpKeyType]
  /\ evs \subseteq {READABLE, WRITEABLE, EXCEPTION}
  /\ connecting \in BOOLEAN /\ closing \in BOOLEAN
  /\ job \in [Workers -> Job]
  /\ link \in {"new", "connecting", "up", "down"}
  /\ inbox \in Seq(1..MaxArrivals) /\ arrived \in 0..MaxArrivals
  /\ wire \in Seq(Msgs)
  /\ reports \in [Msgs -> Seq(Int)]
  /\ received \in [Receivers -> Seq(1..MaxArrivals)]

LEMMA WorkTyped == TypeOK => WorkTypes /\ LinkTypes
BY DEF TypeOK, WorkTypes, LinkTypes, OpKeyType, Workers

LEMMA TypesKept ==
  ASSUME TypeOK, UNCHANGED <<use, buffer, retry, sending, answer, dropped>>, WorkTypes', LinkTypes',
         LockInv'
  PROVE  TypeOK'
BY DEF TypeOK, WorkTypes, LinkTypes, OpKeyType, Workers, LockInv

-----------------------------------------------------------------------------
(* The steps of the pollers. *)

\* What a sender sends from is not empty.
Memory ==
  /\ \A s \in Senders : pc[s] # "idle" => buffer[BufferOf[Current(s)]] # Null
  /\ \A k \in OpKeys : IsSend(k) => opkey[k].buf # Null /\ buffer[opkey[k].buf] # Null

LEMMA PollKeeps ==
  ASSUME KeyInv, LockInv', NEW p \in Pollers, NEW e \in {READABLE, WRITEABLE, EXCEPTION},
         Poll(p, e)
  PROVE  KeyInv'
<1>1. /\ pc' = [pc EXCEPT ![p] = e] /\ pc[p] = "idle" /\ p \in Workers /\ p # App
      /\ UNCHANGED <<mutex, next, prev, ops, key, caller, job, net, results>>
  BY ThreadIds DEF Poll, Goto, Workers, lists
<1>2. /\ pc'[p] = e /\ \A u \in Workers : u # p => pc'[u] = pc[u]
      /\ \A s \in Senders \cup Receivers : pc'[s] = pc[s]
  BY <1>1, WorkerAt
<1>3. WorkerFrame
  BY <1>1, <1>2 DEF WorkerFrame, ops, key, caller, results
<1>4. TypeOK'
  BY <1>1, <1>3, TypesKept, WorkTyped
     DEF KeyInv, Base, WorkTypes, LinkTypes, WorkerFrame, ops, key, net, results
<1>5. Passes
  BY <1>1, <1>2, <1>3 DEF Passes, ops, key, results, Busy, READABLE, WRITEABLE, EXCEPTION
<1>6. Places'
  <2>1. job'[p].value \in -1..MaxArrivals
    BY <1>1 DEF KeyInv, Base, Places
  <2>. QED  BY <1>1, <1>2, <1>3, <2>1, PlacesKept DEF PollerPlaces
<1>. QED  BY <1>4, <1>5, <1>6, PassesKeep DEF LockInv

\* A poller that leaves, or is done with a connect.
LEMMA PassByKeeps ==
  ASSUME KeyInv, LockInv', NEW p \in Pollers,
         \/ Leave(p) /\ pc[p] \notin Busy
         \/ ConnectDone(p) /\ pc[p] \notin Busy
         \/ ConnectCallback(p)
  PROVE  KeyInv'
<1>1. p \in Workers /\ p # App
  BY ThreadIds DEF Workers
<1>2. \E x \in {"idle", "connectCall"} : pc' = [pc EXCEPT ![p] = x]
  BY DEF Leave, ConnectDone, ConnectCallback, Goto
<1>3. /\ pc[p] \notin Busy
      /\ UNCHANGED <<use, next, prev, opkey, buffer, retry, sending, answer, closing, net,
                     reports, received, dropped>>
      /\ job' = job \/ job' = [job EXCEPT ![p] = NoJob]
      /\ evs' \subseteq evs /\ connecting' \in {connecting, FALSE}
  BY DEF Leave, ConnectDone, ConnectCallback, AfterCallback, lists, ops, key, caller, net,
         results, Busy
<1>4. /\ pc'[p] \in {"idle", "connectCall"}
      /\ \A u \in Workers : u # p => pc'[u] = pc[u]
      /\ \A s \in Senders \cup Receivers : pc'[s] = pc[s]
  BY <1>1, <1>2, WorkerAt
<1>5. /\ job' \in [Workers -> Job] /\ job'[p].key = Null /\ job'[p].msg = Null
      /\ job'[p].value \in -1..MaxArrivals
      /\ \A u \in Workers : u # p => job'[u] = job[u]
  <2>1. CASE job' = job
    BY <1>1, <1>3, <2>1, IdleHands, WorkTyped DEF KeyInv, Base, Places, WorkTypes, Workers
  <2>2. CASE job' = [job EXCEPT ![p] = NoJob]
    <3>1. 0 \in -1..MaxArrivals
      BY KeyAssumption
    <3>2. job' \in [Workers -> Job] /\ job'[p] = NoJob
          /\ \A u \in Workers : u # p => job'[u] = job[u]
      BY <1>1, <2>2, JobAt, JobRecords
    <3>. QED  BY <3>1, <3>2, JobRecords
  <2>. QED  BY <1>3, <2>1, <2>2
<1>6. WorkerFrame
  BY <1>3, <1>4 DEF WorkerFrame
<1>7. TypeOK'
  <2>1. connecting' \in BOOLEAN /\ evs' \subseteq {READABLE, WRITEABLE, EXCEPTION}
    BY <1>3 DEF KeyInv, Base, TypeOK
  <2>. QED
    BY <1>3, <1>5, <2>1, TypesKept, WorkTyped DEF KeyInv, Base, WorkTypes, LinkTypes, net
<1>8. Passes
  <2>1. \A u \in Workers : job'[u].key = job[u].key /\ job'[u].msg = job[u].msg
    BY <1>1, <1>3, <1>5, IdleHands
  <2>2. \A u \in Workers : pc'[u] = pc[u] \/ (pc[u] \notin Busy /\ pc'[u] \notin Busy)
    BY <1>3, <1>4 DEF Busy
  <2>. QED  BY <1>3, <1>4, <1>6, <2>1, <2>2 DEF Passes
<1>9. Places'
  BY <1>1, <1>4, <1>5, <1>6, PlacesKept DEF PollerPlaces
<1>. QED  BY <1>7, <1>8, <1>9, PassesKeep DEF LockInv

\* The first node of a list that is not empty.
LEMMA FirstNode ==
  ASSUME KeyInv, NEW h \in Heads, next[h] # h
  PROVE  next[h] \in OpKeys /\ next[h] \in ring /\ home[next[h]] = h
<1>1. h \in ring /\ next[h] \in ring /\ home[next[h]] = home[h] /\ home[h] = h
  BY NodeIds, UseFacts DEF KeyInv, Base, Links, ring
<1>2. next[h] \notin Heads
  BY <1>1, UseFacts DEF KeyInv
<1>3. next[h] \in Nodes
  BY <1>1 DEF ring
<1>. QED  BY <1>1, <1>2, <1>3, NodeIds

LEMMA KeysAtHome ==
  ASSUME KeyInv, NEW k \in OpKeys
  PROVE  k \in SendKeys <=> home[k] = WriteList
BY UseFacts DEF KeyInv

LEMMA WriteBeginKeeps ==
  ASSUME KeyInv, LockInv', NEW p \in Pollers, WriteBegin(p), mutex = NoThread,
         pc[p] \notin Busy
  PROVE  KeyInv'
<1>. DEFINE k == next[WriteList]
<1>1. p \in Workers /\ p # App /\ WriteList \in Heads /\ k # WriteList
  BY ThreadIds, NodeIds DEF Workers, WriteBegin, Empty
<1>2. k \in OpKeys /\ k \in ring /\ k \in SendKeys
  BY <1>1, FirstNode, KeysAtHome
<1>3. /\ job' = [job EXCEPT ![p] = [NoJob EXCEPT !.key = k, !.msg = opkey[k].msg]]
      /\ pc' = [pc EXCEPT ![p] = "writing"]
      /\ IF Datagram THEN Erase(k) ELSE UNCHANGED <<next, prev>>
      /\ evs' \subseteq evs
      /\ UNCHANGED <<use, opkey, buffer, retry, sending, answer, connecting, closing, net,
                     reports, received, dropped>>
  BY DEF WriteBegin, Goto, Unwatch, lists, ops, caller, results
<1>4. opkey[k].msg \in Msgs \cup {Null}
  BY <1>2 DEF KeyInv, Base, TypeOK
<1>5. /\ job' \in [Workers -> Job] /\ job'[p].key = k /\ job'[p].msg = opkey[k].msg
      /\ job'[p].value = 0 /\ \A u \in Workers : u # p => job'[u] = job[u]
  <2>. DEFINE x == [NoJob EXCEPT !.key = k, !.msg = opkey[k].msg]
  <2>1. x \in Job
    BY <1>2, <1>4, JobRecords DEF Job
  <2>2. job' \in [Workers -> Job] /\ job'[p] = x
        /\ \A u \in Workers : u # p => job'[u] = job[u]
    <3>. HIDE DEF x
    <3>1. job' = [job EXCEPT ![p] = x]
      BY <1>3 DEF x
    <3>. QED  BY <1>1, <2>1, <3>1, JobAt
  <2>3. x.key = k /\ x.msg = opkey[k].msg /\ x.value = 0
    BY DEF NoJob
  <2>. QED  BY <2>2, <2>3
<1>6. /\ pc'[p] = "writing" /\ \A u \in Workers : u # p => pc'[u] = pc[u]
      /\ \A s \in Senders \cup Receivers : pc'[s] = pc[s]
  BY <1>1, <1>3, WorkerAt
<1>. HIDE DEF k
<1>7. WorkerFrame
  BY <1>3, <1>6 DEF WorkerFrame
<1>8. LinkTypes'
  <2>1. LinkTypes /\ Links /\ home' = home
    BY <1>3, UseKept DEF KeyInv, Base, TypeOK, LinkTypes
  <2>2. CASE Erase(k)
    BY <1>2, <2>1, <2>2, EraseLinks
  <2>. QED  BY <1>3, <2>1, <2>2 DEF LinkTypes
<1>9. TypeOK'
  BY <1>3, <1>5, <1>8, TypesKept, WorkTyped DEF KeyInv, Base, WorkTypes, net
<1>10. Places'
  <2>1. 0 \in -1..MaxArrivals
    BY KeyAssumption
  <2>. QED  BY <1>1, <1>5, <1>6, <1>7, <2>1, PlacesKept DEF PollerPlaces
<1>11. TakesWrite(p, k)
  BY <1>2, <1>3, <1>5, <1>6, <1>7 DEF TakesWrite
<1>. QED  BY <1>1, <1>9, <1>10, <1>11, TakesWriteKeeps DEF LockInv

LEMMA ReadBeginKeeps ==
  ASSUME KeyInv, LockInv', NEW p \in Pollers, NEW h \in {AcceptList, ReadList},
         ReadBegin(p, h), mutex = NoThread, pc[p] \notin Busy
  PROVE  KeyInv'
<1>. DEFINE k == next[h]
<1>1. p \in Workers /\ p # App /\ h \in Heads /\ h # WriteList /\ k # h
  BY ThreadIds, NodeIds DEF Workers, ReadBegin, Empty
<1>2. k \in OpKeys /\ k \in ring /\ k \notin SendKeys
  BY <1>1, FirstNode, KeysAtHome
<1>3. /\ opkey' = [opkey EXCEPT ![k].op = NONE] /\ Erase(k)
      /\ pc' = [pc EXCEPT ![p] = "readCall"]
      /\ evs' \subseteq evs
      /\ UNCHANGED <<use, buffer, retry, sending, answer, connecting, closing, link,
                     arrived, wire, reports, received, dropped>>
  BY DEF ReadBegin, Goto, Unwatch, caller, results
<1>4. inbox \in Seq(1..MaxArrivals) /\ MaxArrivals \in Nat
  BY KeyAssumption DEF KeyInv, Base, TypeOK
<1>5. /\ inbox' \in Seq(1..MaxArrivals)
      /\ \E v \in -1..MaxArrivals :
           job' = [job EXCEPT ![p] = [NoJob EXCEPT !.key = k, !.value = v]]
  <2>1. CASE job' = [job EXCEPT ![p] = [NoJob EXCEPT !.key = k, !.value = -1]]
             /\ inbox' = inbox
    <3>1. -1 \in -1..MaxArrivals
      BY <1>4
    <3>. QED  BY <1>4, <2>1, <3>1
  <2>2. CASE /\ inbox # <<>> /\ inbox' = Tail(inbox)
             /\ job' = [job EXCEPT ![p] = [NoJob EXCEPT !.key = k, !.value = Head(inbox)]]
    <3>1. Head(inbox) \in 1..MaxArrivals /\ Tail(inbox) \in Seq(1..MaxArrivals)
      BY <1>4, <2>2, FirstAndRest
    <3>2. Head(inbox) \in -1..MaxArrivals
      BY <1>4, <3>1
    <3>. QED  BY <2>2, <3>1, <3>2
  <2>. QED  BY <2>1, <2>2 DEF ReadBegin
<1>6. /\ job' \in [Workers -> Job] /\ job'[p].key = k /\ job'[p].msg = Null
      /\ job'[p].value \in -1..MaxArrivals
      /\ \A u \in Workers : u # p => job'[u] = job[u]
  <2>1. PICK v \in -1..MaxArrivals :
               job' = [job EXCEPT ![p] = [NoJob EXCEPT !.key = k, !.value = v]]
    BY <1>5
  <2>. DEFINE x == [NoJob EXCEPT !.key = k, !.value = v]
  <2>2. x \in Job
    <3>1. v \in Int
      OBVIOUS
    <3>. QED  BY <1>2, <3>1, JobRecords DEF Job
  <2>3. x.key = k /\ x.msg = Null /\ x.value = v
    BY DEF NoJob
  <2>4. job' = [job EXCEPT ![p] = x]
    BY <2>1
  <2>. HIDE DEF x
  <2>5. job' \in [Workers -> Job] /\ job'[p] = x
        /\ \A u \in Workers : u # p => job'[u] = job[u]
    BY <1>1, <2>2, <2>4, JobAt
  <2>. QED  BY <2>3, <2>5
<1>7. /\ pc'[p] = "readCall" /\ \A u \in Workers : u # p => pc'[u] = pc[u]
      /\ \A s \in Senders \cup Receivers : pc'[s] = pc[s]
  BY <1>1, <1>3, WorkerAt
<1>. HIDE DEF k
<1>8. WorkerFrame
  BY <1>3, <1>7 DEF WorkerFrame
<1>9. LinkTypes'
  <2>1. LinkTypes /\ Links /\ home' = home
    BY <1>3, UseKept DEF KeyInv, Base, TypeOK, LinkTypes
  <2>. QED  BY <1>2, <1>3, <2>1, EraseLinks
<1>10. opkey' \in [OpKeys -> OpKeyType]
  <2>1. NONE \in Ops /\ opkey \in [OpKeys -> OpKeyType]
    BY WorkTyped DEF Ops, KeyInv, Base, WorkTypes
  <2>2. [opkey EXCEPT ![k].op = NONE] \in [OpKeys -> OpKeyType]
    BY <1>2, <2>1, OpTypes
  <2>. QED  BY <1>3, <2>2
<1>11. TypeOK'
  BY <1>3, <1>5, <1>6, <1>9, <1>10, TypesKept, WorkTyped DEF KeyInv, Base, WorkTypes
<1>12. Places'
  BY <1>1, <1>6, <1>7, <1>8, PlacesKept DEF PollerPlaces
<1>13. TakesRead(p, k)
  BY <1>2, <1>3, <1>6, <1>7, <1>8 DEF TakesRead
<1>. QED  BY <1>1, <1>11, <1>12, <1>13, TakesReadKeeps DEF LockInv

LEMMA WriteSendKeeps ==
  ASSUME KeyInv, Memory, LockInv', NEW p \in Pollers, WriteSend(p)
  PROVE  KeyInv'
<1>. DEFINE k == job[p].key
<1>1. /\ p \in Workers /\ p # App /\ pc[p] = "writing"
      /\ pc' = [pc EXCEPT ![p] = "written"]
      /\ UNCHANGED <<use, next, prev, buffer, evs, connecting, closing, retry, sending,
                     answer, link, inbox, arrived, reports, received, dropped>>
  BY ThreadIds DEF WriteSend, Workers, Goto, lists, key, caller, results
<1>2. /\ k \in OpKeys /\ opkey[k].op \in {SEND, SEND_TO}
      /\ buffer[opkey[k].buf] \in Msgs /\ opkey[k].written \in -1..Size
  <2>1. IsSend(k) /\ job[p].msg \in Sent /\ k = KeyOf[job[p].msg]
    BY <1>1 DEF KeyInv, Hands, SendJobs, Awaited, Writing, Workers
  <2>2. k \in OpKeys
    BY <2>1, UseFacts DEF KeyInv
  <2>3. /\ opkey[k].buf \in Buffers \cup {Null} /\ opkey[k].buf # Null
        /\ buffer[opkey[k].buf] # Null /\ opkey[k].written \in -1..Size
    BY <2>1, <2>2 DEF Memory, KeyInv, Base, TypeOK
  <2>. QED  BY <2>1, <2>2, <2>3 DEF IsSend, KeyInv, Base, TypeOK
<1>3. /\ pc'[p] = "written" /\ \A u \in Workers : u # p => pc'[u] = pc[u]
      /\ \A s \in Senders \cup Receivers : pc'[s] = pc[s]
  BY <1>1, WorkerAt
<1>4. WorkerFrame
  BY <1>1, <1>3 DEF WorkerFrame
<1>5. Size \in Nat /\ Size # 0 /\ WorkTypes /\ LinkTypes
  BY KeyAssumption, WorkTyped DEF KeyInv, Base
<1>6. \/ /\ job' = job
         /\ \E n \in 1..(Size - opkey[k].written) :
              /\ wire' = wire \o [i \in 1..n |-> buffer[opkey[k].buf]]
              /\ opkey' = [opkey EXCEPT ![k].written = opkey[k].written + n]
      \/ /\ opkey' = [opkey EXCEPT ![k].written = -1]
         /\ job' = [job EXCEPT ![p].ok = FALSE] /\ wire' = wire
  <2>1. CASE job' = [job EXCEPT ![p].ok = FALSE] /\ wire' = wire
             /\ opkey' = [opkey EXCEPT ![k].written = -1,
                            ![k].op = IF @ \in {SEND, SEND_TO} THEN @ ELSE NONE]
    <3>1. opkey' = [opkey EXCEPT ![k] =
                      [opkey[k] EXCEPT !.written = -1, !.op = opkey[k].op]]
      BY <1>2, <2>1
    <3>2. [opkey[k] EXCEPT !.written = -1, !.op = opkey[k].op]
            = [opkey[k] EXCEPT !.written = -1]
      BY <1>2, <1>5 DEF WorkTypes, OpKeyType
    <3>. QED  BY <2>1, <3>1, <3>2
  <2>2. CASE job' = job /\ \E n \in 1..(Size - opkey[k].written) :
               /\ wire' = wire \o [i \in 1..n |-> buffer[opkey[k].buf]]
               /\ opkey' = [opkey EXCEPT ![k].written = @ + n]
    BY <1>2, <1>5, <2>2 DEF WorkTypes, OpKeyType
  <2>. QED  BY <2>1, <2>2 DEF WriteSend
<1>. HIDE DEF k
<1>7. \E w \in -1..Size : opkey' = [opkey EXCEPT ![k].written = w]
  <2>1. -1 \in -1..Size
    BY <1>5
  <2>2. \A n \in 1..(Size - opkey[k].written) : opkey[k].written + n \in -1..Size
    BY <1>2, <1>5
  <2>. QED  BY <1>6, <2>1, <2>2
<1>8. /\ opkey' \in [OpKeys -> OpKeyType]
      /\ \A j \in OpKeys : opkey'[j].op = opkey[j].op /\ opkey'[j].msg = opkey[j].msg
  <2>1. PICK w \in -1..Size : opkey' = [opkey EXCEPT ![k].written = w]
    BY <1>7
  <2>2. [opkey[k] EXCEPT !.written = w] \in OpKeyType
    BY <1>2, <1>5 DEF WorkTypes, OpKeyType
  <2>3. /\ [opkey[k] EXCEPT !.written = w].op = opkey[k].op
        /\ [opkey[k] EXCEPT !.written = w].msg = opkey[k].msg
    BY <1>2, <1>5 DEF WorkTypes, OpKeyType
  <2>. QED  BY <1>2, <1>5, <2>1, <2>2, <2>3 DEF WorkTypes
<1>9. wire' \in Seq(Msgs)
  <2>1. ASSUME NEW n \in 1..(Size - opkey[k].written)
        PROVE  wire \o [i \in 1..n |-> buffer[opkey[k].buf]] \in Seq(Msgs)
    <3>. DEFINE w == [i \in 1..n |-> buffer[opkey[k].buf]]
    <3>1. n \in Nat
      BY <1>2, <1>5
    <3>2. w \in Seq(Msgs)
      BY <1>2, <3>1
    <3>. HIDE DEF w
    <3>3. wire \o w \in Seq(Msgs)
      BY <1>5, <3>2 DEF WorkTypes
    <3>. QED  BY <3>3 DEF w
  <2>. QED  BY <1>5, <1>6, <2>1 DEF WorkTypes
<1>10. /\ job' \in [Workers -> Job] /\ job'[p].value = job[p].value
       /\ \A u \in Workers : job'[u].key = job[u].key /\ job'[u].msg = job[u].msg
       /\ \A u \in Workers : u # p => job'[u] = job[u]
  <2>1. CASE job' = job
    BY <1>5, <2>1 DEF WorkTypes
  <2>2. CASE job' = [job EXCEPT ![p].ok = FALSE]
    <3>1. job[p] \in Job
      BY <1>1, <1>5 DEF WorkTypes
    <3>. DEFINE x == [job[p] EXCEPT !.ok = FALSE]
    <3>2. /\ x \in Job /\ x.key = job[p].key /\ x.msg = job[p].msg
          /\ x.value = job[p].value
      BY <3>1 DEF Job
    <3>3. job' = [job EXCEPT ![p] = x]
      BY <2>2
    <3>. HIDE DEF x
    <3>. QED  BY <1>1, <3>2, <3>3, JobAt
  <2>. QED  BY <1>6, <2>1, <2>2
<1>11. TypeOK'
  BY <1>1, <1>5, <1>8, <1>9, <1>10, TypesKept DEF KeyInv, Base, WorkTypes, LinkTypes
<1>12. Places'
  <2>1. job'[p].value \in -1..MaxArrivals
    BY <1>10 DEF KeyInv, Base, Places
  <2>. QED  BY <1>1, <1>3, <1>4, <1>10, <2>1, PlacesKept DEF PollerPlaces
<1>13. Passes
  BY <1>1, <1>3, <1>4, <1>8, <1>10 DEF Passes
<1>. QED  BY <1>11, <1>12, <1>13, PassesKeep DEF LockInv

\* The rest of a message waits for the next event.
LEMMA RestKeeps ==
  ASSUME KeyInv, LockInv', NEW p \in Pollers, pc[p] = "written",
         UNCHANGED <<next, prev, opkey, evs, buffer, connecting, closing, use, caller, net,
                     results>>,
         job' = [job EXCEPT ![p] = NoJob], pc' = [pc EXCEPT ![p] = "idle"], ~Datagram
  PROVE  KeyInv'
<1>1. p \in Workers /\ p # App
  BY ThreadIds DEF Workers
<1>2. /\ pc'[p] = "idle" /\ \A u \in Workers : u # p => pc'[u] = pc[u]
      /\ \A s \in Senders \cup Receivers : pc'[s] = pc[s]
  BY <1>1, WorkerAt
<1>3. /\ job' \in [Workers -> Job] /\ job'[p] = NoJob
      /\ \A u \in Workers : u # p => job'[u] = job[u]
  BY <1>1, JobAt, JobRecords
<1>4. WorkerFrame
  BY <1>2 DEF WorkerFrame, caller, results
<1>5. TypeOK'
  BY <1>3, TypesKept, WorkTyped DEF KeyInv, Base, WorkTypes, LinkTypes, caller, net, results
<1>6. Places'
  <2>1. 0 \in -1..MaxArrivals
    BY KeyAssumption
  <2>. QED  BY <1>1, <1>2, <1>3, <1>4, <2>1, JobRecords, PlacesKept DEF PollerPlaces
<1>7. /\ SendKeys' = SendKeys /\ Sent' = Sent /\ home' = home /\ KeyOf' = KeyOf
      /\ ReadKey' = ReadKey /\ Datagram' = Datagram /\ ring' = ring
      /\ (Exclusive(use) => Exclusive(use)')
      /\ \A s \in Senders : Current(s)' = Current(s) /\ CurrentKey(s)' = CurrentKey(s)
      /\ UNCHANGED <<use, sending, answer, reports, next, prev, opkey>>
      /\ \A s \in Senders : pc'[s] = pc[s]
  BY <1>4, FrameFacts DEF ring, WorkerFrame, results
<1>8. /\ job'[p].key = Null /\ job'[p].msg = Null
  BY <1>3, JobRecords
<1>9. \A k : WaitsFor(k)' <=> WaitsFor(k)
  BY <1>2, <1>7 DEF WaitsFor
<1>10. \A m : Awaited(m)' <=> Awaited(m)
  BY <1>7 DEF Awaited
<1>11. Links'
  BY <1>7 DEF KeyInv, Base, Links
<1>12. Filed'
  BY <1>7, <1>9, <1>10 DEF KeyInv, Filed, IsSend
<1>13. Queueing'
  BY <1>2, <1>3, <1>7 DEF KeyInv, Queueing, IsSend, Writing, Workers
<1>14. SendJobs'
  BY <1>2, <1>3, <1>7, <1>8, <1>10 DEF KeyInv, SendJobs, Writing, Workers
<1>15. ReadJobs'
  BY <1>2, <1>3, <1>7, <1>8, <1>9 DEF KeyInv, ReadJobs, Workers
<1>16. Hands'
  BY <1>2, <1>3, <1>7 DEF KeyInv, Hands, IsSend, Writing, Workers
<1>17. Fresh' /\ CompletedOnce'
  BY <1>7 DEF KeyInv, Fresh, CompletedOnce
<1>. QED
  BY <1>5, <1>6, <1>7, <1>11, <1>12, <1>13, <1>14, <1>15, <1>16, <1>17
     DEF KeyInv, Base, LockInv

LEMMA WriteFinishKeeps ==
  ASSUME KeyInv, LockInv', NEW p \in Pollers, WriteFinish(p)
  PROVE  KeyInv'
<1>. DEFINE k == job[p].key
<1>1. p \in Workers /\ p # App /\ pc[p] = "written"
  BY ThreadIds DEF Workers, WriteFinish
<1>2. CASE pc' = [pc EXCEPT ![p] = "idle"] /\ job' = [job EXCEPT ![p] = NoJob]
           /\ UNCHANGED <<lists, opkey, evs>> /\ ~Datagram
  BY <1>1, <1>2, RestKeeps DEF WriteFinish, lists
<1>3. CASE /\ opkey' = [opkey EXCEPT ![k].op = NONE]
           /\ IF Datagram THEN UNCHANGED <<lists, evs>>
                          ELSE Erase(k) /\ Unwatch(WriteList, WRITEABLE)
           /\ pc' = [pc EXCEPT ![p] = "writeCall"]
           /\ job' = job
  <2>1. UNCHANGED <<buffer, connecting, closing, use, retry, sending, net, answer, reports,
                    received, dropped>> /\ evs' \subseteq evs
    BY <1>3 DEF WriteFinish, caller, results, Unwatch
  <2>2. /\ pc'[p] = "writeCall"
        /\ \A u \in Workers \cup Receivers \cup Senders : u # p => pc'[u] = pc[u]
        /\ \A s \in Senders \cup Receivers : pc'[s] = pc[s]
    BY <1>1, <1>3, WorkerAt
  <2>3. WorkerFrame
    BY <2>1, <2>2 DEF WorkerFrame
  <2>4. k \in OpKeys /\ (k \in ring <=> ~Datagram)
    <3>1. k = KeyOf[job[p].msg] /\ job[p].msg \in Sent /\ (k \in ring <=> ~Datagram)
      BY <1>1 DEF KeyInv, Hands, SendJobs, Awaited, Writing, Workers
    <3>. QED  BY <3>1, UseFacts DEF KeyInv
  <2>5. Finishes(p)
    BY <1>1, <1>3, <2>1, <2>2, <2>3 DEF Finishes, lists
  <2>. HIDE DEF k
  <2>6. LinkTypes'
    <3>1. LinkTypes /\ Links /\ home' = home
      BY <2>1, UseKept DEF KeyInv, Base, TypeOK, LinkTypes
    <3>2. CASE ~Datagram
      BY <1>3, <2>4, <3>1, <3>2, EraseLinks
    <3>. QED  BY <1>3, <3>1, <3>2 DEF LinkTypes, lists
  <2>7. opkey' \in [OpKeys -> OpKeyType]
    <3>1. NONE \in Ops /\ opkey \in [OpKeys -> OpKeyType]
      BY WorkTyped DEF Ops, KeyInv, Base, WorkTypes
    <3>2. [opkey EXCEPT ![k].op = NONE] \in [OpKeys -> OpKeyType]
      BY <2>4, <3>1, OpTypes
    <3>. QED  BY <1>3, <3>2
  <2>8. TypeOK'
    BY <1>3, <2>1, <2>6, <2>7, TypesKept, WorkTyped DEF KeyInv, Base, WorkTypes, net
  <2>9. Places'
    <3>1. job'[p].value \in -1..MaxArrivals
      BY <1>3 DEF KeyInv, Base, Places
    <3>. QED  BY <1>1, <1>3, <2>2, <2>3, <3>1, PlacesKept DEF PollerPlaces
  <2>. QED  BY <2>5, <2>8, <2>9, FinishesKeep DEF LockInv
<1>. QED  BY <1>2, <1>3 DEF WriteFinish, Goto

-----------------------------------------------------------------------------
(* The callbacks. *)

\* After a callback the worker holds nothing.
LEMMA AfterTypes ==
  ASSUME KeyInv, LockInv', NEW t \in Workers, job' = [job EXCEPT ![t] = NoJob],
         WorkerFrame, pc'[t] = "idle",
         \A u \in Workers : u # t => pc'[u] = pc[u],
         \A r \in Receivers : pc'[r] = pc[r] \/ pc'[r] = "idle",
         UNCHANGED <<next, prev, opkey, evs, connecting, closing, net>>,
         reports' \in [Msgs -> Seq(Int)],
         received' \in [Receivers -> Seq(1..MaxArrivals)]
  PROVE  TypeOK' /\ Places'
<1>1. /\ job' \in [Workers -> Job] /\ job'[t] = NoJob
      /\ \A u \in Workers : u # t => job'[u] = job[u]
  BY JobAt, JobRecords
<1>2. TypeOK'
  BY <1>1, TypesKept, WorkTyped DEF KeyInv, Base, WorkTypes, LinkTypes, net, WorkerFrame
<1>3. 0 \in -1..MaxArrivals
  BY KeyAssumption
<1>4. Places'
  BY <1>1, <1>3, PlacesKept, JobRecords DEF PollerPlaces, AppPlaces
<1>. QED  BY <1>2, <1>4

LEMMA WriteCallbackKeeps ==
  ASSUME KeyInv, LockInv', NEW p \in Pollers, WriteCallback(p)
  PROVE  KeyInv'
<1>. DEFINE c == job[p].msg
            v == opkey[job[p].key].written
<1>1. /\ p \in Workers /\ pc[p] = "writeCall" /\ c # Null
      /\ job' = [job EXCEPT ![p] = NoJob] /\ pc' = [pc EXCEPT ![p] = "idle"]
      /\ UNCHANGED <<next, prev, opkey, buffer, use, evs, connecting, closing, retry,
                     sending, net, answer, received, dropped>>
  BY ThreadIds DEF WriteCallback, AfterCallback, Goto, Workers, KeyInv, Hands, lists, ops,
                   key, caller
<1>2. /\ pc'[p] = "idle"
      /\ \A u \in Workers \cup Receivers \cup Senders : u # p => pc'[u] = pc[u]
      /\ \A s \in Senders \cup Receivers : pc'[s] = pc[s]
  BY <1>1, WorkerAt
<1>3. WorkerFrame
  BY <1>1, <1>2 DEF WorkerFrame
<1>4. c \in Msgs /\ v \in Int /\ reports \in [Msgs -> Seq(Int)]
  <2>1. c \in Sent /\ job[p].key = KeyOf[c]
    BY <1>1 DEF KeyInv, SendJobs, Awaited, Workers
  <2>2. c \in Msgs /\ job[p].key \in OpKeys
    BY <2>1, UseFacts DEF KeyInv
  <2>3. v \in -1..Size /\ reports \in [Msgs -> Seq(Int)]
    BY <2>2 DEF KeyInv, Base, TypeOK
  <2>. QED  BY <2>2, <2>3
<1>5. reports' = IF closing THEN reports
                 ELSE [reports EXCEPT ![c] = Append(reports[c], v)]
  BY <1>4 DEF WriteCallback
<1>. HIDE DEF v
<1>6. reports' \in [Msgs -> Seq(Int)]
  <2>1. Append(reports[c], v) \in Seq(Int)
    BY <1>4
  <2>. QED  BY <1>4, <1>5, <2>1
<1>7. received' \in [Receivers -> Seq(1..MaxArrivals)]
  BY <1>1 DEF KeyInv, Base, TypeOK
<1>8. TypeOK' /\ Places'
  BY <1>1, <1>2, <1>3, <1>6, <1>7, AfterTypes
<1>9. Reports(p)
  BY <1>1, <1>2, <1>3, <1>5 DEF Reports
<1>. QED  BY <1>1, <1>8, <1>9, ReportsKeep DEF LockInv

\* What a receiver is told.
LEMMA ToldFacts ==
  ASSUME KeyInv, NEW t \in Workers, NEW k, NEW v \in -1..MaxArrivals, Told(k, v, t)
  PROVE  /\ received' \in [Receivers -> Seq(1..MaxArrivals)]
         /\ pc'[t] = "idle"
         /\ \A u \in Workers : u # t => pc'[u] = pc[u]
         /\ \A s \in Senders : pc'[s] = pc[s]
         /\ \A r \in Receivers : pc'[r] = IF ReadKey[r] = k THEN "idle" ELSE pc[r]
<1>1. received \in [Receivers -> Seq(1..MaxArrivals)] /\ MaxArrivals \in Nat
  BY KeyAssumption DEF KeyInv, Base, TypeOK
<1>2. ASSUME NEW r \in Receivers, v > 0
      PROVE  Append(received[r], v) \in Seq(1..MaxArrivals)
  <2>1. v \in 1..MaxArrivals
    BY <1>1, <1>2
  <2>. QED  BY <1>1, <2>1
<1>3. received' \in [Receivers -> Seq(1..MaxArrivals)]
  BY <1>1, <1>2 DEF Told
<1>4. /\ DOMAIN pc = Threads \ {NoThread}
      /\ \A u \in Workers \cup Senders \cup Receivers : u \in Threads \ {NoThread}
      /\ \A u \in Workers \cup Senders : u \notin Receivers
      /\ \A u \in Receivers \cup Senders : u # t
  BY ThreadIds DEF KeyInv, Base, TypeOK, Workers
<1>5. pc' = [u \in Threads \ {NoThread} |->
               IF u = t \/ u \in {r \in Receivers : ReadKey[r] = k} THEN "idle" ELSE pc[u]]
  BY <1>4 DEF Told
<1>. QED  BY <1>3, <1>4, <1>5

LEMMA ReadCallbackKeeps ==
  ASSUME KeyInv, LockInv', NEW p \in Pollers, ReadCallback(p)
  PROVE  KeyInv'
<1>1. /\ p \in Workers /\ pc[p] = "readCall" /\ job[p].msg = Null /\ job[p].key # Null
      /\ job' = [job EXCEPT ![p] = NoJob] /\ job[p].value \in -1..MaxArrivals
      /\ UNCHANGED <<next, prev, opkey, buffer, use, evs, connecting, closing, retry,
                     sending, net, answer, reports, dropped>>
  BY DEF ReadCallback, AfterCallback, Workers, KeyInv, Base, Places, Hands, lists, ops,
         key, caller
<1>2. /\ received' \in [Receivers -> Seq(1..MaxArrivals)]
      /\ pc'[p] = "idle" /\ \A u \in Workers : u # p => pc'[u] = pc[u]
      /\ \A s \in Senders : pc'[s] = pc[s]
      /\ \/ \A r \in Receivers : pc'[r] = pc[r]
         \/ \A r \in Receivers : pc'[r] = IF ReadKey[r] = job[p].key THEN "idle" ELSE pc[r]
  <2>1. CASE closing
    <3>1. pc' = [pc EXCEPT ![p] = "idle"] /\ received' = received
      BY <2>1 DEF ReadCallback, Goto
    <3>. QED  BY <1>1, <3>1, WorkerAt DEF KeyInv, Base, TypeOK
  <2>2. CASE ~closing
    <3>1. Told(job[p].key, job[p].value, p)
      BY <2>2 DEF ReadCallback
    <3>. QED  BY <1>1, <3>1, ToldFacts
  <2>. QED  BY <2>1, <2>2
<1>3. WorkerFrame
  BY <1>1, <1>2 DEF WorkerFrame
<1>4. reports' \in [Msgs -> Seq(Int)]
  BY <1>1 DEF KeyInv, Base, TypeOK
<1>5. \A r \in Receivers : pc'[r] = pc[r] \/ pc'[r] = "idle"
  BY <1>2
<1>6. TypeOK' /\ Places'
  BY <1>1, <1>2, <1>3, <1>4, <1>5, AfterTypes
<1>7. ReadTold(p)
  BY <1>1, <1>2, <1>3 DEF ReadTold, Busy
<1>. QED  BY <1>1, <1>6, <1>7, ToldKeeps DEF LockInv

LEMMA PostCallbackKeeps ==
  ASSUME KeyInv, LockInv', PostCallback
  PROVE  KeyInv'
<1>1. /\ App \in Workers /\ pc[App] = "postCall" /\ job[App].key # Null
      /\ job' = [job EXCEPT ![App] = NoJob] /\ job[App].value \in -1..MaxArrivals
      /\ UNCHANGED <<next, prev, opkey, buffer, use, evs, connecting, closing, retry,
                     sending, net, answer, dropped>>
  BY DEF PostCallback, Workers, KeyInv, Base, Places, Hands, lists, ops, key, caller
<1>2. CASE job[App].msg = Null
  <2>1. Told(job[App].key, job[App].value, App) /\ reports' = reports
    BY <1>2 DEF PostCallback
  <2>2. /\ received' \in [Receivers -> Seq(1..MaxArrivals)]
        /\ pc'[App] = "idle" /\ \A u \in Workers : u # App => pc'[u] = pc[u]
        /\ \A s \in Senders : pc'[s] = pc[s]
        /\ \A r \in Receivers : pc'[r] = IF ReadKey[r] = job[App].key THEN "idle" ELSE pc[r]
    BY <1>1, <2>1, ToldFacts
  <2>3. WorkerFrame
    BY <1>1, <2>2 DEF WorkerFrame
  <2>4. reports' \in [Msgs -> Seq(Int)]
    BY <2>1 DEF KeyInv, Base, TypeOK
  <2>5. \A r \in Receivers : pc'[r] = pc[r] \/ pc'[r] = "idle"
    BY <2>2
  <2>6. TypeOK' /\ Places'
    BY <1>1, <2>2, <2>3, <2>4, <2>5, AfterTypes
  <2>7. ReadTold(App)
    BY <1>1, <1>2, <2>1, <2>2, <2>3 DEF ReadTold, Busy
  <2>. QED  BY <1>1, <2>6, <2>7, ToldKeeps DEF LockInv
<1>3. CASE job[App].msg # Null
  <2>. DEFINE c == job[App].msg
              v == job[App].value
  <2>1. /\ reports' = [reports EXCEPT ![c] = Append(reports[c], v)]
        /\ pc' = [pc EXCEPT ![App] = "idle"] /\ received' = received
    <3>1. c \in Sent
      BY <1>1, <1>3 DEF KeyInv, SendJobs, Awaited, Workers
    <3>. QED  BY <1>3, <3>1, UseFacts DEF PostCallback, Goto, KeyInv, Base, TypeOK
  <2>2. /\ pc'[App] = "idle"
        /\ \A u \in Workers \cup Receivers \cup Senders : u # App => pc'[u] = pc[u]
        /\ \A s \in Senders \cup Receivers : pc'[s] = pc[s]
    BY <1>1, <2>1, WorkerAt
  <2>3. WorkerFrame
    BY <1>1, <2>2 DEF WorkerFrame
  <2>4. v \in Int /\ reports \in [Msgs -> Seq(Int)]
    BY <1>1 DEF KeyInv, Base, TypeOK
  <2>5. reports' \in [Msgs -> Seq(Int)]
    <3>1. c \in Msgs => Append(reports[c], v) \in Seq(Int)
      BY <2>4
    <3>. QED  BY <2>1, <2>4, <3>1
  <2>6. received' \in [Receivers -> Seq(1..MaxArrivals)]
    BY <2>1 DEF KeyInv, Base, TypeOK
  <2>7. TypeOK' /\ Places'
    BY <1>1, <2>2, <2>3, <2>5, <2>6, AfterTypes
  <2>8. Reports(App)
    BY <1>1, <1>3, <2>1, <2>2, <2>3 DEF Reports
  <2>. QED  BY <1>1, <2>7, <2>8, ReportsKeep DEF LockInv
<1>. QED  BY <1>2, <1>3

LEMMA PollerKeeps ==
  ASSUME KeyInv, Memory, LockInv', NEW p \in Pollers, PollerStep(p)
  PROVE  KeyInv'
<1>1. pc[p] \in {READABLE, WRITEABLE, EXCEPTION} => pc[p] \notin Busy
  BY DEF READABLE, WRITEABLE, EXCEPTION, Busy
<1>2. CASE mutex = NoThread /\ pc[p] \in {READABLE, WRITEABLE, EXCEPTION}
           /\ (Leave(p) \/ ConnectDone(p))
  BY <1>1, <1>2, PassByKeeps
<1>3. CASE mutex = NoThread /\ pc[p] = WRITEABLE /\ WriteBegin(p)
  BY <1>1, <1>3, WriteBeginKeeps
<1>4. ASSUME mutex = NoThread, pc[p] = READABLE, NEW h \in {AcceptList, ReadList},
             ReadBegin(p, h)
      PROVE  KeyInv'
  BY <1>1, <1>4, ReadBeginKeeps
<1>. QED
  BY <1>2, <1>3, <1>4, PollerCases, PassByKeeps, WriteSendKeeps, WriteFinishKeeps,
     WriteCallbackKeeps, ReadCallbackKeeps

-----------------------------------------------------------------------------
(* The application's other calls. *)

LEMMA ConnectKeeps ==
  ASSUME KeyInv, LockInv', top_ioqueue_connect
  PROVE  KeyInv'
<1>1. /\ App \in Workers /\ pc[App] \in {"idle", "connectQueue"}
      /\ \E x \in {"idle", "connectQueue"} : pc' = [pc EXCEPT ![App] = x]
      /\ UNCHANGED <<use, next, prev, opkey, buffer, closing, retry, sending, job, inbox,
                     arrived, wire, results>>
  BY DEF top_ioqueue_connect, Workers, Goto, lists, ops, key, caller, net
<1>2. /\ evs' \subseteq {READABLE, WRITEABLE, EXCEPTION} /\ connecting' \in BOOLEAN
      /\ link' \in {"new", "connecting", "up", "down"}
  BY DEF top_ioqueue_connect, KeyInv, Base, TypeOK, key, net
<1>3. /\ pc'[App] \in {"idle", "connectQueue"}
      /\ \A u \in Workers : u # App => pc'[u] = pc[u]
      /\ \A s \in Senders \cup Receivers : pc'[s] = pc[s]
  BY <1>1, WorkerAt
<1>4. WorkerFrame
  BY <1>1, <1>3 DEF WorkerFrame, results
<1>5. TypeOK'
  BY <1>1, <1>2, TypesKept, WorkTyped DEF KeyInv, Base, WorkTypes, LinkTypes, results
<1>6. Passes
  BY <1>1, <1>3, <1>4 DEF Passes, Busy, results
<1>7. Places'
  <2>1. job'[App].value \in -1..MaxArrivals
    BY <1>1 DEF KeyInv, Base, Places
  <2>. QED  BY <1>1, <1>3, <1>4, <2>1, PlacesKept DEF AppPlaces
<1>. QED  BY <1>5, <1>6, <1>7, PassesKeep DEF LockInv

LEMMA LockKeeps ==
  ASSUME KeyInv, LockInv', top_ioqueue_lock_key \/ top_ioqueue_unlock_key
  PROVE  KeyInv'
<1>1. /\ App \in Workers /\ pc[App] \in {"idle", "locked"}
      /\ \E x \in {"idle", "locked"} : pc' = [pc EXCEPT ![App] = x]
      /\ UNCHANGED <<lists, ops, key, caller, job, net, results>>
  BY DEF top_ioqueue_lock_key, top_ioqueue_unlock_key, Workers, Goto
<1>2. /\ pc'[App] \in {"idle", "locked"}
      /\ \A u \in Workers : u # App => pc'[u] = pc[u]
      /\ \A s \in Senders \cup Receivers : pc'[s] = pc[s]
  BY <1>1, WorkerAt
<1>3. WorkerFrame
  BY <1>1, <1>2 DEF WorkerFrame, ops, key, caller, results
<1>4. TypeOK'
  BY <1>1, <1>3, TypesKept, WorkTyped
     DEF KeyInv, Base, WorkTypes, LinkTypes, WorkerFrame, lists, ops, key, net, results
<1>5. Passes
  BY <1>1, <1>2, <1>3 DEF Passes, Busy, lists, ops, key, results
<1>6. Places'
  <2>1. job'[App].value \in -1..MaxArrivals
    BY <1>1 DEF KeyInv, Base, Places
  <2>. QED  BY <1>1, <1>2, <1>3, <2>1, PlacesKept DEF AppPlaces
<1>. QED  BY <1>4, <1>5, <1>6, PassesKeep DEF LockInv

\* What is met on the way through a list is a key of this list.
LEMMA ListedKeys ==
  ASSUME KeyInv, NEW h \in Heads, NEW k \in Listed(h)
  PROVE  k \in OpKeys /\ k \in ring /\ (k \in SendKeys <=> h = WriteList)
BY ListedInRing, KeysAtHome DEF KeyInv, Base

LEMMA PostKeeps ==
  ASSUME KeyInv, LockInv', NEW k \in OpKeys, top_ioqueue_post_completion(k)
  PROVE  KeyInv'
<1>1. PICK h \in Heads :
        /\ k \in Listed(h)
        /\ job' = [job EXCEPT ![App] =
                     [NoJob EXCEPT !.key = k, !.value = -1,
                        !.msg = IF h = WriteList THEN opkey[k].msg ELSE Null]]
  BY DEF top_ioqueue_post_completion
<1>2. /\ App \in Workers /\ pc[App] = "idle" /\ mutex = NoThread /\ Erase(k)
      /\ opkey' = [opkey EXCEPT ![k].op = NONE]
      /\ pc' = [pc EXCEPT ![App] = "postCall"]
      /\ UNCHANGED <<use, buffer, evs, connecting, closing, retry, sending, net, answer,
                     reports, received, dropped>>
  BY DEF top_ioqueue_post_completion, Workers, Goto, key, caller, results
<1>3. k \in ring /\ (k \in SendKeys <=> h = WriteList)
  BY <1>1, ListedKeys
<1>. DEFINE m == IF h = WriteList THEN opkey[k].msg ELSE Null
<1>4. m \in Msgs \cup {Null}
  BY DEF KeyInv, Base, TypeOK
<1>5. /\ job' \in [Workers -> Job] /\ job'[App].key = k /\ job'[App].msg = m
      /\ job'[App].value = -1 /\ \A u \in Workers : u # App => job'[u] = job[u]
  <2>. DEFINE x == [NoJob EXCEPT !.key = k, !.value = -1, !.msg = m]
  <2>1. x \in Job
    <3>1. -1 \in Int
      OBVIOUS
    <3>. HIDE DEF m
    <3>. QED  BY <1>4, <3>1, JobRecords DEF Job
  <2>2. x.key = k /\ x.msg = m /\ x.value = -1
    BY DEF NoJob
  <2>3. job' = [job EXCEPT ![App] = x]
    BY <1>1
  <2>. HIDE DEF x
  <2>4. job' \in [Workers -> Job] /\ job'[App] = x
        /\ \A u \in Workers : u # App => job'[u] = job[u]
    BY <1>2, <2>1, <2>3, JobAt
  <2>. QED  BY <2>2, <2>4
<1>6. /\ pc'[App] = "postCall" /\ \A u \in Workers : u # App => pc'[u] = pc[u]
      /\ \A s \in Senders \cup Receivers : pc'[s] = pc[s]
  BY <1>2, WorkerAt
<1>7. WorkerFrame
  BY <1>2, <1>6 DEF WorkerFrame
<1>8. LinkTypes'
  <2>1. LinkTypes /\ Links /\ home' = home
    BY <1>2, UseKept DEF KeyInv, Base, TypeOK, LinkTypes
  <2>. QED  BY <1>2, <1>3, <2>1, EraseLinks
<1>9. opkey' \in [OpKeys -> OpKeyType]
  <2>1. NONE \in Ops /\ opkey \in [OpKeys -> OpKeyType]
    BY WorkTyped DEF Ops, KeyInv, Base, WorkTypes
  <2>2. [opkey EXCEPT ![k].op = NONE] \in [OpKeys -> OpKeyType]
    BY <2>1, OpTypes
  <2>. QED  BY <1>2, <2>2
<1>10. TypeOK'
  BY <1>2, <1>5, <1>8, <1>9, TypesKept, WorkTyped DEF KeyInv, Base, WorkTypes, net
<1>11. Places'
  <2>1. -1 \in -1..MaxArrivals
    BY KeyAssumption
  <2>. QED  BY <1>2, <1>5, <1>6, <1>7, <2>1, PlacesKept DEF AppPlaces
<1>12. CASE h = WriteList
  <2>1. TakesWrite(App, k)
    BY <1>2, <1>3, <1>5, <1>6, <1>7, <1>12 DEF TakesWrite, Busy
  <2>. QED  BY <1>2, <1>10, <1>11, <2>1, TakesWriteKeeps DEF LockInv
<1>13. CASE h # WriteList
  <2>1. TakesRead(App, k)
    BY <1>2, <1>3, <1>5, <1>6, <1>7, <1>13 DEF TakesRead, Busy
  <2>. QED  BY <1>2, <1>10, <1>11, <2>1, TakesReadKeeps DEF LockInv
<1>. QED  BY <1>12, <1>13

LEMMA InitKeeps ==
  ASSUME KeyInv, LockInv', NEW k \in OpKeys, Care(k), top_ioqueue_op_key_init(k)
  PROVE  KeyInv'
<1>1. /\ opkey[k].op = NONE /\ \A t \in Workers : job[t].key # k
      /\ next' = [next EXCEPT ![k] = Null] /\ prev' = [prev EXCEPT ![k] = Null]
      /\ opkey' = [opkey EXCEPT ![k].op = NONE, ![k].written = 0]
      /\ UNCHANGED <<mutex, buffer, key, pc, caller, job, net, results>>
  BY DEF KeyInv, Base, Exclusive, Care, top_ioqueue_op_key_init, top_ioqueue_is_pending,
         Workers
<1>2. k \notin ring
  <2>1. use.calls # NONE
    BY UseFacts DEF KeyInv, NONE, ACCEPT
  <2>. QED  BY <1>1, <2>1 DEF KeyInv, Filed, IsSend, NONE, SEND, SEND_TO
<1>3. WorkerFrame
  BY <1>1 DEF WorkerFrame, key, caller, results
<1>4. opkey \in [OpKeys -> OpKeyType] /\ NONE \in Ops /\ 0 \in -1..Size
  BY WorkTyped, KeyAssumption DEF KeyInv, Base, WorkTypes, Ops
<1>5. /\ opkey' \in [OpKeys -> OpKeyType] /\ opkey'[k].op = NONE
      /\ \A j \in OpKeys : j # k => opkey'[j] = opkey[j]
  <2>. DEFINE x == [opkey[k] EXCEPT !.op = NONE, !.written = 0]
  <2>1. x \in OpKeyType /\ x.op = NONE
    BY <1>4 DEF OpKeyType
  <2>2. opkey' = [opkey EXCEPT ![k] = x]
    BY <1>1, <1>4
  <2>. HIDE DEF x
  <2>. QED  BY <1>4, <2>1, <2>2
<1>6. LinkTypes'
  BY <1>1 DEF KeyInv, Base, TypeOK, LinkTypes
<1>7. TypeOK'
  BY <1>1, <1>3, <1>5, <1>6, TypesKept, WorkTyped
     DEF KeyInv, Base, WorkTypes, WorkerFrame, key, net, results
<1>8. Clears(k)
  BY <1>1, <1>2, <1>3, <1>5 DEF Clears, results
<1>. QED  BY <1>7, <1>8, ClearsKeep DEF LockInv

LEMMA OutsideKeeps ==
  ASSUME KeyInv, LockInv', Outside \/ UNCHANGED vars
  PROVE  KeyInv'
<1>1. UNCHANGED <<mutex, use, lists, ops, connecting, pc, caller, job, wire, results>>
  BY OutsideFrame DEF vars, key, net
<1>2. WorkerFrame
  BY <1>1 DEF WorkerFrame, ops, caller, results
<1>3. WorkTypes /\ LinkTypes /\ MaxArrivals \in Nat
  BY WorkTyped, KeyAssumption DEF KeyInv, Base
<1>4. /\ closing' \in BOOLEAN /\ evs' \subseteq {READABLE, WRITEABLE, EXCEPTION}
      /\ link' \in {"new", "connecting", "up", "down"}
  BY <1>3 DEF Outside, Unregister, Arrive, Established, vars, key, net, WorkTypes
<1>5. inbox' \in Seq(1..MaxArrivals) /\ arrived' \in 0..MaxArrivals
  <2>1. CASE Arrive
    <3>1. arrived + 1 \in 1..MaxArrivals /\ arrived + 1 \in 0..MaxArrivals
      BY <1>3, <2>1 DEF Arrive, WorkTypes
    <3>. QED  BY <1>3, <2>1, <3>1 DEF Arrive, WorkTypes
  <2>2. CASE ~Arrive
    BY <1>3, <2>2 DEF Outside, Unregister, Established, vars, net, WorkTypes
  <2>. QED  BY <2>1, <2>2
<1>6. TypeOK'
  BY <1>1, <1>2, <1>3, <1>4, <1>5, TypesKept
     DEF KeyInv, Base, WorkTypes, LinkTypes, WorkerFrame, lists, ops, results
<1>7. Passes
  BY <1>1, <1>2 DEF Passes, lists, ops, results
<1>8. Places'
  BY <1>1 DEF KeyInv, Base, Places, caller
<1>. QED  BY <1>6, <1>7, <1>8, PassesKeep DEF LockInv

LEMMA AppKeeps ==
  ASSUME KeyInv, LockInv', AppStep
  PROVE  KeyInv'
BY ConnectKeeps, PostKeeps, PostCallbackKeeps, InitKeeps, LockKeeps DEF AppStep

-----------------------------------------------------------------------------
(* What is not a sender's or receiver's step. *)

WorkStep ==
  \/ \E p \in Pollers, e \in {READABLE, WRITEABLE, EXCEPTION} : Poll(p, e)
  \/ \E p \in Pollers : PollerStep(p)
  \/ AppStep
  \/ Outside
  \/ UNCHANGED vars

LEMMA StepCases ==
  ASSUME [Next]_vars
  PROVE  \/ \E s \in Senders, op \in {SEND, SEND_TO} :
              (op = SEND_TO <=> Datagram) /\ SendStep(s, op)
         \/ \E r \in Receivers : ReceiverStep(r)
         \/ WorkStep
BY NextCases DEF WorkStep

LEMMA WorkFrame ==
  ASSUME KeyInv, WorkStep
  PROVE  /\ WorkerFrame
         /\ \A r \in Receivers : pc'[r] = pc[r] \/ pc'[r] = "idle"
<1>. DEFINE Same == UNCHANGED <<use, buffer, retry, sending, answer, dropped>>
            Going == /\ \A s \in Senders : pc'[s] = pc[s]
                     /\ \A r \in Receivers : pc'[r] = pc[r] \/ pc'[r] = "idle"
<1>1. ASSUME NEW t \in Workers, NEW x, pc' = [pc EXCEPT ![t] = x]
      PROVE  Going
  BY <1>1, WorkerAt
<1>2. ASSUME NEW t \in Workers, NEW k, NEW v, Told(k, v, t)
      PROVE  Going
  BY <1>2, ThreadIds DEF Told, KeyInv, Base, TypeOK, Workers
<1>3. App \in Workers /\ \A p \in Pollers : p \in Workers
  BY DEF Workers
<1>4. ASSUME NEW p \in Pollers, NEW e, Poll(p, e)
      PROVE  Same /\ Going
  BY <1>1, <1>3, <1>4 DEF Poll, Goto, ops, key, caller, results
<1>5. ASSUME NEW p \in Pollers, PollerStep(p)
      PROVE  Same /\ Going
  <2>1. Same
    BY <1>5, PollerCases DEF Leave, ConnectDone, WriteBegin, ReadBegin, WriteSend,
       WriteFinish, WriteCallback, ConnectCallback, ReadCallback, ops, key, caller, results
  <2>2. (\E x : pc' = [pc EXCEPT ![p] = x]) \/ \E k, v : Told(k, v, p)
    BY <1>5, PollerCases DEF Leave, ConnectDone, WriteBegin, ReadBegin, WriteSend,
       WriteFinish, WriteCallback, ConnectCallback, ReadCallback, Goto
  <2>. QED  BY <1>1, <1>2, <1>3, <2>1, <2>2
<1>6. CASE AppStep
  <2>1. Same
    BY <1>6 DEF AppStep, top_ioqueue_connect, top_ioqueue_post_completion, PostCallback,
       top_ioqueue_op_key_init, top_ioqueue_lock_key, top_ioqueue_unlock_key, ops, key,
       caller, results
  <2>2. (\E x : pc' = [pc EXCEPT ![App] = x]) \/ pc' = pc \/ \E k, v : Told(k, v, App)
    BY <1>6 DEF AppStep, top_ioqueue_connect, top_ioqueue_post_completion, PostCallback,
       top_ioqueue_op_key_init, top_ioqueue_lock_key, top_ioqueue_unlock_key, Goto
  <2>. QED  BY <1>1, <1>2, <1>3, <2>1, <2>2 DEF WorkerFrame
<1>7. CASE Outside \/ UNCHANGED vars
  <2>1. UNCHANGED <<use, buffer, retry, sending, answer, dropped, pc>>
    BY <1>7, OutsideFrame DEF vars, key, ops, caller, results
  <2>. QED  BY <2>1 DEF WorkerFrame
<1>. QED  BY <1>4, <1>5, <1>6, <1>7 DEF WorkStep, WorkerFrame

\* What a worker does to operation keys: it ends operations, those in a list
\* or in its hands.
LEMMA WorkOps ==
  ASSUME KeyInv, WorkStep, NEW k \in OpKeys
  PROVE  /\ opkey'[k].buf = opkey[k].buf /\ opkey'[k].msg = opkey[k].msg
         /\ opkey'[k].op \in {opkey[k].op, NONE}
         /\ opkey'[k].op = opkey[k].op \/ k \in ring \/ \E t \in Workers : job[t].key = k
<1>1. opkey \in [OpKeys -> OpKeyType]
  BY WorkTyped DEF KeyInv, Base, WorkTypes
<1>2. CASE opkey' = opkey
  BY <1>2
<1>3. ASSUME NEW j \in OpKeys, opkey' = [opkey EXCEPT ![j].op = NONE],
             j \in ring \/ \E t \in Workers : job[t].key = j
      PROVE  /\ opkey'[k].buf = opkey[k].buf /\ opkey'[k].msg = opkey[k].msg
             /\ opkey'[k].op \in {opkey[k].op, NONE}
             /\ opkey'[k].op = opkey[k].op \/ k \in ring \/ \E t \in Workers : job[t].key = k
  BY <1>1, <1>3 DEF OpKeyType
<1>4. ASSUME NEW p \in Pollers, WriteSend(p)
      PROVE  /\ opkey'[k].buf = opkey[k].buf /\ opkey'[k].msg = opkey[k].msg
             /\ opkey'[k].op \in {opkey[k].op, NONE}
             /\ opkey'[k].op = opkey[k].op \/ \E t \in Workers : job[t].key = k
  <2>. DEFINE j == job[p].key
  <2>1. \/ \E w : opkey' = [opkey EXCEPT ![j].written = w]
        \/ opkey' = [opkey EXCEPT ![j].written = -1,
                       ![j].op = IF @ \in {SEND, SEND_TO} THEN @ ELSE NONE]
    BY <1>4 DEF WriteSend
  <2>2. CASE k # j
    BY <1>1, <2>1, <2>2
  <2>3. CASE k = j
    <3>1. \E t \in Workers : job[t].key = k
      BY <2>3 DEF Workers
    <3>2. /\ opkey'[k].buf = opkey[k].buf /\ opkey'[k].msg = opkey[k].msg
          /\ opkey'[k].op \in {opkey[k].op, NONE}
      <4>1. ASSUME NEW w, opkey' = [opkey EXCEPT ![j].written = w]
            PROVE  opkey'[k].buf = opkey[k].buf /\ opkey'[k].msg = opkey[k].msg
                   /\ opkey'[k].op = opkey[k].op
        BY <1>1, <2>3, <4>1 DEF OpKeyType
      <4>2. CASE opkey' = [opkey EXCEPT ![j].written = -1,
                             ![j].op = IF @ \in {SEND, SEND_TO} THEN @ ELSE NONE]
        BY <1>1, <2>3, <4>2 DEF OpKeyType
      <4>. QED  BY <2>1, <4>1, <4>2
    <3>. QED  BY <3>1, <3>2
  <2>. QED  BY <2>2, <2>3
<1>5. ASSUME NEW p \in Pollers, PollerStep(p)
      PROVE  /\ opkey'[k].buf = opkey[k].buf /\ opkey'[k].msg = opkey[k].msg
             /\ opkey'[k].op \in {opkey[k].op, NONE}
             /\ opkey'[k].op = opkey[k].op \/ k \in ring \/ \E t \in Workers : job[t].key = k
  <2>1. ASSUME NEW h \in {AcceptList, ReadList}, ReadBegin(p, h)
        PROVE  next[h] \in OpKeys /\ next[h] \in ring
               /\ opkey' = [opkey EXCEPT ![next[h]].op = NONE]
    <3>1. h \in Heads /\ next[h] # h
      BY <2>1, NodeIds DEF ReadBegin, Empty
    <3>. QED  BY <2>1, <3>1, FirstNode DEF ReadBegin
  <2>2. ASSUME WriteFinish(p)
        PROVE  opkey' = opkey \/ (job[p].key \in OpKeys /\ p \in Workers
                                   /\ opkey' = [opkey EXCEPT ![job[p].key].op = NONE])
    <3>1. job[p].key = KeyOf[job[p].msg] /\ job[p].msg \in Sent /\ p \in Workers
      BY <2>2 DEF WriteFinish, KeyInv, Hands, SendJobs, Awaited, Writing, Workers
    <3>. QED  BY <2>2, <3>1, UseFacts DEF WriteFinish, KeyInv
  <2>3. \/ opkey' = opkey \/ WriteSend(p) \/ WriteFinish(p)
        \/ \E h \in {AcceptList, ReadList} : ReadBegin(p, h)
    BY <1>5, PollerCases DEF Leave, ConnectDone, WriteBegin, WriteCallback,
       ConnectCallback, ReadCallback, ops
  <2>. QED  BY <1>2, <1>3, <1>4, <2>1, <2>2, <2>3
<1>6. CASE AppStep
  <2>1. ASSUME NEW j \in OpKeys, top_ioqueue_post_completion(j)
        PROVE  j \in ring /\ opkey' = [opkey EXCEPT ![j].op = NONE]
    BY <2>1, ListedKeys DEF top_ioqueue_post_completion
  <2>2. ASSUME NEW j \in OpKeys, Care(j), top_ioqueue_op_key_init(j)
        PROVE  /\ opkey'[k].buf = opkey[k].buf /\ opkey'[k].msg = opkey[k].msg
               /\ opkey'[k].op = opkey[k].op
    <3>1. opkey' = [opkey EXCEPT ![j].op = NONE, ![j].written = 0] /\ opkey[j].op = NONE
      BY <2>2 DEF KeyInv, Base, Exclusive, Care, top_ioqueue_op_key_init,
         top_ioqueue_is_pending
    <3>. QED  BY <1>1, <3>1 DEF OpKeyType
  <2>3. \/ opkey' = opkey
        \/ \E j \in OpKeys : \/ top_ioqueue_post_completion(j)
                             \/ Care(j) /\ top_ioqueue_op_key_init(j)
    BY <1>6 DEF AppStep, top_ioqueue_connect, PostCallback, top_ioqueue_lock_key,
       top_ioqueue_unlock_key, ops
  <2>. QED  BY <1>2, <1>3, <2>1, <2>2, <2>3
<1>7. ASSUME NEW p \in Pollers, NEW e, Poll(p, e) PROVE opkey' = opkey
  BY <1>7 DEF Poll, ops
<1>8. Outside \/ UNCHANGED vars => opkey' = opkey
  BY OutsideFrame DEF vars, ops
<1>. QED  BY <1>2, <1>5, <1>6, <1>7, <1>8 DEF WorkStep

LEMMA ReadingKeeps ==
  ASSUME KeyInv, Reading, [Next]_vars
  PROVE  Reading'
<1>1. ASSUME NEW s \in Senders, NEW op \in {SEND, SEND_TO}, SendStep(s, op)
      PROVE  Reading'
  <2>1. use' = use /\ ReadKey' = ReadKey /\ \A r \in Receivers : pc'[r] = pc[r]
    <3>1. use' = use /\ ReadKey' = ReadKey
      BY <1>1, SenderFrame, UseKept
    <3>2. pc' = pc \/ \E x \in SenderPlaces : pc' = [pc EXCEPT ![s] = x]
      BY <1>1, SenderFrame
    <3>3. \A r \in Receivers : r # s
      BY ThreadIds
    <3>. QED  BY <3>1, <3>2, <3>3, ThreadIds DEF KeyInv, Base, TypeOK
  <2>2. opkey' = opkey \/ SendFill(s, op)
    BY <1>1 DEF SendStep, SendCheck, SendSpeculate, SendDirect, SendSpin, SendSeesFree,
       SendQueue, ops
  <2>3. CASE SendFill(s, op)
    <3>1. CurrentKey(s) \in SendKeys /\ \A k \in OpKeys : k # CurrentKey(s) => opkey'[k] = opkey[k]
      BY <2>3, SenderKey DEF SendFill, KeyInv, Base, TypeOK
    <3>2. ASSUME NEW r \in Receivers, pc[r] = "queue"
          PROVE  ReadKey[r] \in OpKeys /\ ReadKey[r] \notin SendKeys
      BY <3>2, KeyOfReceiver DEF KeyInv, Base, Places
    <3>. QED  BY <2>1, <3>1, <3>2 DEF Reading
  <2>. QED  BY <2>1, <2>2, <2>3 DEF Reading
<1>2. ASSUME NEW q \in Receivers, ReceiverStep(q)
      PROVE  Reading'
  <2>1. use' = use /\ ReadKey' = ReadKey /\ \A r \in Receivers : r # q => pc'[r] = pc[r]
    BY <1>2, ReceiverFrame, UseKept, ThreadIds DEF KeyInv, Base, TypeOK
  <2>2. /\ ReadKey[q] \in OpKeys
        /\ \A k \in OpKeys : k # ReadKey[q] => opkey'[k] = opkey[k]
        /\ pc'[q] = "queue" => opkey'[ReadKey[q]].op = use.calls
    <3>1. ReadKey[q] \in OpKeys
      BY UseFacts DEF KeyInv
    <3>. QED  BY <1>2, <3>1, ThreadIds DEF ReceiverStep, ReadStep, ReadCheck, ReadDirect,
              ReadFill, ReadQueue, Goto, ops, KeyInv, Base, TypeOK
  <2>3. \A r \in Receivers : r # q => ReadKey[r] # ReadKey[q] /\ ReadKey[r] \in OpKeys
    BY UseFacts DEF KeyInv
  <2>. QED  BY <2>1, <2>2, <2>3 DEF Reading
<1>3. CASE WorkStep
  <2>1. use' = use /\ ReadKey' = ReadKey /\ \A r \in Receivers : pc'[r] = pc[r] \/ pc'[r] = "idle"
    BY <1>3, WorkFrame, UseKept DEF WorkerFrame
  <2>2. ASSUME NEW r \in Receivers, pc[r] = "queue"
        PROVE  opkey'[ReadKey[r]].op = opkey[ReadKey[r]].op
    <3>1. /\ ReadKey[r] \in OpKeys /\ ReadKey[r] \notin ring
          /\ \A t \in Workers : job[t].key # ReadKey[r]
      BY <2>2, KeyOfReceiver DEF KeyInv, Base, Places, Workers
    <3>. QED  BY <1>3, <3>1, WorkOps
  <2>. QED  BY <2>1, <2>2 DEF Reading
<1>. QED  BY <1>1, <1>2, <1>3, StepCases

LEMMA MemoryKeeps ==
  ASSUME KeyInv, Memory, [Next]_vars
  PROVE  Memory'
<1>1. /\ BufferOf \in [Msgs -> Buffers] /\ opkey \in [OpKeys -> OpKeyType]
      /\ buffer \in [Buffers -> Msgs \cup {Null}]
  BY WorkTyped, UseFacts DEF KeyInv, Base, WorkTypes, TypeOK
<1>2. ASSUME NEW s \in Senders, NEW op \in {SEND, SEND_TO}, SendStep(s, op)
      PROVE  Memory'
  <2>1. /\ s \in use.active /\ sending[s] <= MaxMessages
        /\ Current(s) \in Msgs /\ CurrentKey(s) \in OpKeys
    <3>1. s \in use.active /\ sending[s] <= MaxMessages
      BY <1>2 DEF SendStep, SendCheck, SendSpeculate, SendDirect, SendSpin, SendSeesFree,
         SendFill, SendQueue, KeyInv, Base, Places
    <3>. QED  BY <3>1, CurrentFacts DEF KeyInv
  <2>2. BufferOf' = BufferOf /\ BufferOf[Current(s)] \in Buffers /\ Current(s) # Null
        /\ BufferOf[Current(s)] # Null
    <3>1. BufferOf' = BufferOf
      BY <1>2, SenderFrame, UseKept
    <3>. QED  BY <1>1, <2>1, <3>1, NodeIds DEF Buffers
  <2>3. /\ \A b \in Buffers : buffer[b] # Null => buffer'[b] # Null
        /\ buffer'[BufferOf[Current(s)]] # Null
    <3>1. CASE SendCheck(s)
      BY <1>1, <2>2, <3>1 DEF SendCheck
    <3>2. CASE ~SendCheck(s)
      <4>1. buffer' = buffer /\ pc[s] # "idle"
        BY <1>2, <3>2 DEF SendStep, SendSpeculate, SendDirect, SendSpin, SendSeesFree,
           SendFill, SendQueue, ops
      <4>. QED  BY <4>1 DEF Memory
    <3>. QED  BY <3>1, <3>2
  <2>4. ASSUME NEW r \in Senders
        PROVE  r = s \/ (pc'[r] = pc[r] /\ Current(r)' = Current(r))
    <3>1. pc' = pc \/ \E x \in SenderPlaces : pc' = [pc EXCEPT ![s] = x]
      BY <1>2, SenderFrame
    <3>2. sending' = sending \/ sending' = [sending EXCEPT ![s] = @ + 1]
      BY <1>2 DEF SendStep, SendCheck, SendSpeculate, SendDirect, SendSpin, SendSeesFree,
         SendFill, SendQueue, Return, caller
    <3>. QED  BY <3>1, <3>2, ThreadIds DEF Current, KeyInv, Base, TypeOK
  <2>5. pc'[s] # "idle" => Current(s)' = Current(s)
    <3>1. sending' = sending \/ pc' = [pc EXCEPT ![s] = "idle"]
      BY <1>2 DEF SendStep, SendCheck, SendSpeculate, SendDirect, SendSpin, SendSeesFree,
         SendFill, SendQueue, Return, Goto, caller
    <3>. QED  BY <3>1, ThreadIds DEF Current, KeyInv, Base, TypeOK
  <2>6. \A r \in Senders : pc[r] # "idle" => Current(r) \in Msgs
    BY SenderKey, UseFacts DEF KeyInv
  <2>7. \A r \in Senders : pc'[r] # "idle" => buffer'[BufferOf[Current(r)']] # Null
    <3>1. ASSUME NEW r \in Senders, r # s, pc'[r] # "idle"
          PROVE  buffer'[BufferOf[Current(r)']] # Null
      BY <1>1, <2>3, <2>4, <2>6, <3>1 DEF Memory
    <3>. QED  BY <2>3, <2>5, <3>1
  <2>8. opkey' = opkey \/ SendFill(s, op)
    BY <1>2 DEF SendStep, SendCheck, SendSpeculate, SendDirect, SendSpin, SendSeesFree,
       SendQueue, ops
  <2>9. ASSUME NEW k \in OpKeys, opkey'[k].op \in {SEND, SEND_TO}
        PROVE  opkey'[k].buf # Null /\ buffer'[opkey'[k].buf] # Null
    <3>1. CASE opkey'[k] = opkey[k]
      <4>1. opkey[k].buf \in Buffers \cup {Null}
        BY <1>1 DEF OpKeyType
      <4>. QED  BY <2>3, <2>9, <3>1, <4>1 DEF Memory, IsSend
    <3>2. CASE SendFill(s, op) /\ k = CurrentKey(s)
      <4>1. opkey'[k].buf = BufferOf[Current(s)]
        BY <1>1, <3>2 DEF SendFill
      <4>. QED  BY <2>2, <2>3, <4>1
    <3>3. opkey'[k] = opkey[k] \/ (SendFill(s, op) /\ k = CurrentKey(s))
      BY <1>1, <2>8 DEF SendFill
    <3>. QED  BY <3>1, <3>2, <3>3
  <2>. QED  BY <2>2, <2>7, <2>9 DEF Memory, IsSend
<1>3. ASSUME UNCHANGED <<use, buffer, sending>>, \A s \in Senders : pc'[s] = pc[s],
             \A k \in OpKeys : opkey'[k].buf = opkey[k].buf
                               /\ (opkey'[k].op \in {SEND, SEND_TO} => opkey'[k].op = opkey[k].op)
      PROVE  Memory'
  BY <1>3, UseKept DEF Memory, IsSend, Current
<1>4. ASSUME NEW q \in Receivers, ReceiverStep(q)
      PROVE  Memory'
  <2>1. UNCHANGED <<use, buffer, sending>> /\ \A s \in Senders : pc'[s] = pc[s]
    BY <1>4, ReceiverFrame, ThreadIds DEF KeyInv, Base, TypeOK, caller
  <2>2. opkey' = opkey \/ \E x \in {NONE, use.calls} : opkey' = [opkey EXCEPT ![ReadKey[q]].op = x]
    BY <1>4 DEF ReceiverStep, ReadStep, ReadCheck, ReadDirect, ReadFill, ReadQueue, ops
  <2>3. use.calls \notin {SEND, SEND_TO} /\ NONE \notin {SEND, SEND_TO}
    BY UseFacts DEF KeyInv, ACCEPT, SEND, SEND_TO, NONE
  <2>4. \A k \in OpKeys : opkey'[k].buf = opkey[k].buf
                          /\ (opkey'[k].op \in {SEND, SEND_TO} => opkey'[k].op = opkey[k].op)
    <3>1. ASSUME NEW x \in {NONE, use.calls}, opkey' = [opkey EXCEPT ![ReadKey[q]].op = x]
          PROVE  \A k \in OpKeys : opkey'[k].buf = opkey[k].buf
                     /\ (opkey'[k].op \in {SEND, SEND_TO} => opkey'[k].op = opkey[k].op)
      BY <1>1, <2>3, <3>1 DEF OpKeyType
    <3>. QED  BY <2>2, <3>1
  <2>. QED  BY <1>3, <2>1, <2>4
<1>5. CASE WorkStep
  <2>1. UNCHANGED <<use, buffer, sending>> /\ \A s \in Senders : pc'[s] = pc[s]
    BY <1>5, WorkFrame DEF WorkerFrame
  <2>2. \A k \in OpKeys : opkey'[k].buf = opkey[k].buf
                          /\ (opkey'[k].op \in {SEND, SEND_TO} => opkey'[k].op = opkey[k].op)
    BY <1>5, WorkOps DEF NONE, SEND, SEND_TO
  <2>. QED  BY <1>3, <2>1, <2>2
<1>. QED  BY <1>2, <1>4, <1>5, StepCases

-----------------------------------------------------------------------------
(* The invariant holds when nobody shares an operation key. *)

IInv == LockInv /\ KeyInv /\ Reading /\ Memory

LEMMA InitInv ==
  ASSUME ExclusiveUses, Init
  PROVE  IInv
<1>1. use \in Uses /\ use \in Use /\ Exclusive(use)
  BY KeyAssumption DEF Init, ExclusiveUses
<1>2. TypeOK
  <2>1. /\ NoJob \in Job /\ 0 \in 0..MaxArrivals /\ 0 \in 0..PENDING_RETRY
        /\ 1 \in 1..(MaxMessages + 1)
    BY KeyAssumption, JobRecords DEF PENDING_RETRY
  <2>2. next \in [Nodes -> Nodes \cup {Null}] /\ prev \in [Nodes -> Nodes \cup {Null}]
    BY DEF Init
  <2>3. opkey \in [OpKeys -> [op : Ops, buf : Buffers \cup {Null}, written : -1..Size,
                              msg : Msgs \cup {Null}]]
    <3>1. 0 \in -1..Size /\ NONE \in Ops
      BY KeyAssumption DEF Ops
    <3>. QED  BY <3>1 DEF Init
  <2>4. /\ retry \in [Senders -> 0..PENDING_RETRY]
        /\ sending \in [Senders -> 1..(MaxMessages + 1)]
        /\ job \in [Pollers \cup {App} -> Job]
        /\ pc \in [Threads \ {NoThread} -> Place]
    BY <2>1 DEF Init, Place
  <2>5. /\ inbox \in Seq(1..MaxArrivals) /\ wire \in Seq(Msgs)
        /\ reports \in [Msgs -> Seq(Int)] /\ received \in [Receivers -> Seq(1..MaxArrivals)]
        /\ answer \in [Msgs -> {"none", "sent", "error", "busy", "cancelled", "pending"}]
        /\ buffer \in [Buffers -> Msgs \cup {Null}]
    BY DEF Init
  <2>6. mutex \in Threads /\ link \in {"new", "connecting", "up", "down"}
        /\ connecting \in BOOLEAN /\ closing \in BOOLEAN
    BY ThreadIds DEF Init
  <2>7. /\ evs \subseteq {READABLE, WRITEABLE, EXCEPTION} /\ arrived \in 0..MaxArrivals
        /\ dropped \subseteq 1..MaxArrivals
    BY <2>1 DEF Init
  <2>. QED  BY <1>1, <2>2, <2>3, <2>4, <2>5, <2>6, <2>7 DEF TypeOK
<1>3. /\ \A t \in Senders \cup Receivers \cup Pollers \cup {App} : pc[t] = "idle"
      /\ \A t \in Pollers \cup {App} : job[t].key = Null /\ job[t].msg = Null /\ job[t].value = 0
      /\ \A k \in OpKeys : opkey[k].op = NONE
      /\ \A n \in Nodes : next[n] = n /\ prev[n] = n
      /\ \A m \in Msgs : answer[m] = "none" /\ reports[m] = <<>>
  BY ThreadIds, JobRecords DEF Init
<1>4. LockInv
  BY <1>2, <1>3, ThreadIds DEF Init, LockInv, Locks, Writing, InCallback, TypeOK
<1>5. Places
  <2>1. 0 \in -1..MaxArrivals
    BY KeyAssumption
  <2>. QED  BY <1>3, <2>1 DEF Places, SenderPlaces, ReceiverPlaces
<1>6. ring = Heads
  BY <1>3, NodeIds DEF ring
<1>7. Links
  BY <1>3, <1>6, NodeIds DEF Links
<1>8. Filed
  BY <1>6, NodeIds DEF Filed
<1>9. Queueing /\ SendJobs /\ ReadJobs /\ Hands /\ Reading
  BY <1>3 DEF Queueing, SendJobs, ReadJobs, Hands, Reading, Writing
<1>10. Memory
  BY <1>3 DEF Memory, IsSend, NONE, SEND, SEND_TO
<1>11. Fresh /\ CompletedOnce
  BY <1>3 DEF Fresh, CompletedOnce
<1>. QED
  BY <1>1, <1>2, <1>4, <1>5, <1>7, <1>8, <1>9, <1>10, <1>11
     DEF IInv, KeyInv, Base, LockInv

LEMMA NextInv == IInv /\ [Next]_vars => IInv'
<1>. SUFFICES ASSUME IInv, [Next]_vars PROVE IInv'
  OBVIOUS
<1>1. LockInv'
  BY NextLocks DEF IInv
<1>2. Reading' /\ Memory'
  BY ReadingKeeps, MemoryKeeps DEF IInv
<1>3. KeyInv'
  <2>1. CASE \E s \in Senders, op \in {SEND, SEND_TO} :
               (op = SEND_TO <=> Datagram) /\ SendStep(s, op)
    BY <1>1, <2>1, SenderKeeps DEF IInv
  <2>2. CASE \E r \in Receivers : ReceiverStep(r)
    BY <1>1, <2>2, ReceiverKeeps DEF IInv
  <2>3. CASE WorkStep
    BY <1>1, <2>3, PollKeeps, PollerKeeps, AppKeeps, OutsideKeeps DEF IInv, WorkStep
  <2>. QED  BY <2>1, <2>2, <2>3, StepCases
<1>. QED  BY <1>1, <1>2, <1>3 DEF IInv

(* What the lists, the operation keys, the jobs of the threads and the     *)
(* outcomes of the messages are to each other (ioque_base.c), as long as   *)
(* no two threads share an operation key.                                  *)
THEOREM KeyInvariant ==
  ASSUME ExclusiveUses
  PROVE  Spec => []IInv
<1>1. Init => IInv
  BY InitInv
<1>. QED  BY <1>1, NextInv, PTL DEF Spec

THEOREM KeyTypes ==
  ASSUME ExclusiveUses
  PROVE  Spec => []TypeOK
<1>1. IInv => TypeOK
  BY DEF IInv, KeyInv, Base
<1>. QED  BY <1>1, KeyInvariant, PTL

(* The pending lists are rings of operation keys that hold an operation:   *)
(* no key is inserted twice, cleared while it is listed or filled again    *)
(* before it has left its list (top_list_insert_before, top_list_erase).   *)
THEOREM AlwaysLinked ==
  ASSUME ExclusiveUses
  PROVE  Spec => []ListsLinked
<1>1. ASSUME KeyInv
      PROVE  ListsLinked
  <2>1. ASSUME NEW h \in Heads
        PROVE  prev[next[h]] = h /\ next[prev[h]] = h
    BY <1>1, NodeIds DEF KeyInv, Base, Links, ring
  <2>2. ASSUME NEW h \in Heads, NEW k \in Listed(h)
        PROVE  Linked(k)
    <3>1. k \in OpKeys /\ k \in ring
      BY <1>1, <2>2, ListedKeys
    <3>2. /\ next[k] \in ring /\ prev[next[k]] = k /\ prev[k] \in ring /\ next[prev[k]] = k
      BY <1>1, <3>1 DEF KeyInv, Base, Links
    <3>3. next[k] # k /\ ring \subseteq Nodes
      BY <3>1, NodeIds DEF ring
    <3>4. opkey[k].op # NONE
      <4>1. use.calls # NONE
        BY <1>1, UseFacts DEF KeyInv, NONE, ACCEPT
      <4>. QED  BY <1>1, <3>1, <4>1 DEF KeyInv, Filed, IsSend, NONE, SEND, SEND_TO
    <3>. QED  BY <3>2, <3>3, <3>4 DEF Linked, top_ioqueue_is_pending
  <2>. QED  BY <2>1, <2>2 DEF ListsLinked
<1>2. IInv => ListsLinked
  BY <1>1 DEF IInv
<1>. QED  BY <1>2, KeyInvariant, PTL

(* The callback of a send is called at most once, and only if the call     *)
(* returned TOP_EPENDING, although a dispatch function and a cancel may    *)
(* both be after the operation (topque_dispatch_write_event,               *)
(* top_ioqueue_post_completion).                                           *)
THEOREM AlwaysCompletedOnce ==
  ASSUME ExclusiveUses
  PROVE  Spec => []CompletedOnce
<1>1. IInv => CompletedOnce
  BY DEF IInv, KeyInv
<1>. QED  BY <1>1, KeyInvariant, PTL

-----------------------------------------------------------------------------
(* The poll set. *)

\* As long as the outcome of the connect is not known nobody sends, except an
\* eager application: the end of a connect clears no event a send needs.
Quiet ==
  ~use.eager /\ ~ToldConnected =>
    /\ \A s \in Senders : pc[s] = "idle"
    /\ Empty(WriteList)

\* While a message is being written, under the mutex, no connect is going on:
\* the end of the message clears no event a connect needs.
Unmixed == \A p \in Pollers : Writing(p) => ~connecting

\* One of the two lists that receivers use stays empty.
LEMMA OneReadList ==
  ASSUME KeyInv, NEW h \in Heads, next[h] # h
  PROVE  h \in {WriteList, ReadHead}
<1>1. next[h] \in OpKeys /\ home[next[h]] = h
  BY FirstNode
<1>. QED  BY <1>1, UseFacts DEF KeyInv

\* No list gets its first node in these steps.
LEMMA HeadsShrink ==
  ASSUME KeyInv, WorkStep
  PROVE  \A g \in Heads : next'[g] # g => next[g] # g
<1>1. LinkTypes /\ Links /\ home' = home
  BY WorkFrame, UseKept DEF KeyInv, Base, TypeOK, LinkTypes, WorkerFrame
<1>2. ASSUME NEW k \in OpKeys, k \in ring, Erase(k)
      PROVE  \A g \in Heads : next'[g] # g => next[g] # g
  BY <1>1, <1>2, EraseLinks
<1>3. ASSUME NEW p \in Pollers, PollerStep(p)
      PROVE  \A g \in Heads : next'[g] # g => next[g] # g
  <2>1. ASSUME NEW h \in Heads, next[h] # h, Erase(next[h])
        PROVE  \A g \in Heads : next'[g] # g => next[g] # g
    BY <1>2, <2>1, FirstNode
  <2>2. WriteFinish(p) => next' = next \/ \A g \in Heads : next'[g] # g => next[g] # g
    <3>1. CASE WriteFinish(p) /\ next' # next
      <4>1. Erase(job[p].key) /\ pc[p] = "written" /\ ~Datagram
        BY <3>1 DEF WriteFinish, lists
      <4>2. /\ job[p].key = KeyOf[job[p].msg] /\ job[p].msg \in Sent
            /\ job[p].key \in ring
        BY <4>1 DEF KeyInv, Hands, SendJobs, Awaited, Writing
      <4>3. job[p].key \in OpKeys
        BY <4>2, UseFacts DEF KeyInv
      <4>. QED  BY <1>2, <4>1, <4>2, <4>3
    <3>. QED  BY <3>1
  <2>3. WriteBegin(p) => next' = next \/ (next[WriteList] # WriteList /\ Erase(next[WriteList]))
    BY DEF WriteBegin, Empty, lists
  <2>4. \A h : ReadBegin(p, h) => next[h] # h /\ Erase(next[h])
    BY DEF ReadBegin, Empty
  <2>5. \/ next' = next \/ WriteFinish(p) \/ WriteBegin(p)
        \/ \E h \in {AcceptList, ReadList} : ReadBegin(p, h)
    BY <1>3, PollerCases DEF Leave, ConnectDone, WriteSend, WriteCallback, ConnectCallback,
       ReadCallback, lists
  <2>. QED  BY <2>1, <2>2, <2>3, <2>4, <2>5, NodeIds
<1>4. CASE AppStep
  <2>1. ASSUME NEW k \in OpKeys, top_ioqueue_post_completion(k)
        PROVE  k \in ring /\ Erase(k)
    BY <2>1, ListedKeys DEF top_ioqueue_post_completion
  <2>2. ASSUME NEW k \in OpKeys, top_ioqueue_op_key_init(k)
        PROVE  \A g \in Heads : next'[g] # g => next[g] # g
    BY <1>1, <2>2, NodeIds DEF top_ioqueue_op_key_init, LinkTypes
  <2>3. \/ next' = next
        \/ \E k \in OpKeys : top_ioqueue_post_completion(k) \/ top_ioqueue_op_key_init(k)
    BY <1>4 DEF AppStep, top_ioqueue_connect, PostCallback, top_ioqueue_lock_key,
       top_ioqueue_unlock_key, lists
  <2>. QED  BY <1>2, <2>1, <2>2, <2>3
<1>5. ASSUME NEW p \in Pollers, NEW e, Poll(p, e) PROVE next' = next
  BY <1>5 DEF Poll, lists
<1>6. Outside \/ UNCHANGED vars => next' = next
  BY OutsideFrame DEF vars, lists
<1>. QED  BY <1>3, <1>4, <1>5, <1>6 DEF WorkStep

\* A receiver fills no list but that of the receivers.
LEMMA ReceiverLists ==
  ASSUME KeyInv, NEW r \in Receivers, ReceiverStep(r)
  PROVE  /\ next'[WriteList] # WriteList => next[WriteList] # WriteList
         /\ \/ evs' = evs /\ next' = next
            \/ /\ evs' = evs \cup {READABLE}
               /\ \A g \in Heads : next'[g] # g => g = ReadHead \/ next[g] # g
<1>1. CASE next' = next /\ evs' = evs
  BY <1>1
<1>2. CASE PushBack(ListOf(r), ReadKey[r]) /\ evs' = evs \cup {READABLE} /\ use' = use
           /\ pc[r] = "queue"
  <2>1. ListOf(r) = ReadHead /\ r \in use.active
    BY <1>2 DEF ListOf, ReadHead, KeyInv, Base, Places
  <2>2. /\ ReadKey[r] \in OpKeys /\ ReadKey[r] \notin ring /\ home[ReadKey[r]] = ReadHead
        /\ ReadHead \in Heads /\ ReadHead # WriteList
    BY <1>2, <2>1, KeyOfReceiver, UseFacts DEF KeyInv
  <2>3. LinkTypes /\ Links /\ home' = home
    BY <1>2, UseKept DEF KeyInv, Base, TypeOK, LinkTypes
  <2>4. \A g \in Heads : next'[g] # g => g = ReadHead \/ next[g] # g
    BY <1>2, <2>1, <2>2, <2>3, PushLinks
  <2>. QED  BY <1>2, <2>2, <2>4, NodeIds
<1>. QED
  BY <1>1, <1>2 DEF ReceiverStep, ReadStep, ReadCheck, ReadDirect, ReadFill, ReadQueue, key,
     lists

LEMMA QuietKeeps ==
  ASSUME KeyInv, KeyInv', Quiet, [Next]_vars
  PROVE  Quiet'
<1>1. ASSUME NEW s \in Senders, NEW op \in {SEND, SEND_TO}, SendStep(s, op)
      PROVE  Quiet'
  <2>1. use.eager \/ ToldConnected
    <3>1. SendCheck(s) \/ pc[s] # "idle"
      BY <1>1 DEF SendStep, SendSpeculate, SendDirect, SendSpin, SendSeesFree, SendFill,
         SendQueue
    <3>. QED  BY <3>1 DEF SendCheck, Quiet
  <2>2. link' = link /\ connecting' = connecting /\ pc'[App] = pc[App] /\ use' = use
    <3>1. App # s
      BY ThreadIds
    <3>2. link' = link /\ connecting' = connecting /\ use' = use
      BY <1>1, SenderFrame
    <3>3. pc' = pc \/ \E x \in SenderPlaces : pc' = [pc EXCEPT ![s] = x]
      BY <1>1, SenderFrame
    <3>. QED  BY <3>1, <3>2, <3>3, ThreadIds DEF KeyInv, Base, TypeOK
  <2>. QED  BY <2>1, <2>2 DEF Quiet, ToldConnected
<1>2. ASSUME NEW r \in Receivers, ReceiverStep(r)
      PROVE  Quiet'
  <2>1. \A t \in Workers \cup Senders : pc'[t] = pc[t]
    BY <1>2, ReceiverFrame, ThreadIds DEF KeyInv, Base, TypeOK, Workers
  <2>2. UNCHANGED <<use, link, connecting>>
    BY <1>2, ReceiverFrame
  <2>. QED  BY <1>2, <2>1, <2>2, ReceiverLists DEF Workers, Quiet, ToldConnected, Empty
<1>3. CASE WorkStep
  <2>1. /\ \A s \in Senders : pc'[s] = pc[s]
        /\ next'[WriteList] # WriteList => next[WriteList] # WriteList
        /\ use' = use
    BY <1>3, WorkFrame, HeadsShrink, NodeIds DEF WorkerFrame
  <2>2. ToldConnected => ToldConnected'
    <3>1. ASSUME NEW p \in Pollers, PollerStep(p)
          PROVE  link' = link /\ connecting' \in {connecting, FALSE} /\ pc'[App] = pc[App]
      <4>1. link' = link /\ connecting' \in {connecting, FALSE}
        BY <3>1, PollerCases DEF Leave, ConnectDone, WriteBegin, ReadBegin, WriteSend,
           WriteFinish, WriteCallback, ConnectCallback, ReadCallback, key, net
      <4>2. (\E x : pc' = [pc EXCEPT ![p] = x]) \/ \E k, v : Told(k, v, p)
        BY <3>1, PollerCases DEF Leave, ConnectDone, WriteBegin, ReadBegin, WriteSend,
           WriteFinish, WriteCallback, ConnectCallback, ReadCallback, Goto
      <4>3. App # p /\ App \notin Receivers /\ App \in DOMAIN pc
        BY ThreadIds DEF KeyInv, Base, TypeOK
      <4>. QED  BY <4>1, <4>2, <4>3 DEF Told
    <3>2. ASSUME NEW p \in Pollers, NEW e, Poll(p, e)
          PROVE  link' = link /\ connecting' = connecting /\ pc'[App] = pc[App]
      BY <3>2, ThreadIds DEF Poll, Goto, key, net, KeyInv, Base, TypeOK
    <3>3. ASSUME AppStep, ToldConnected
          PROVE  ToldConnected'
      <4>1. App \in DOMAIN pc
        BY ThreadIds DEF KeyInv, Base, TypeOK
      <4>2. ~top_ioqueue_connect
        BY <3>3 DEF top_ioqueue_connect, ToldConnected
      <4>3. \A k : top_ioqueue_post_completion(k) => ToldConnected'
        BY <3>3, <4>1 DEF top_ioqueue_post_completion, Goto, key, net, ToldConnected
      <4>4. PostCallback => ToldConnected'
        BY <3>3, <4>1 DEF PostCallback, Told, Goto, key, net, ToldConnected
      <4>5. \A k : top_ioqueue_op_key_init(k) => ToldConnected'
        BY <3>3 DEF top_ioqueue_op_key_init, key, net, ToldConnected
      <4>6. top_ioqueue_lock_key \/ top_ioqueue_unlock_key => ToldConnected'
        BY <3>3, <4>1 DEF top_ioqueue_lock_key, top_ioqueue_unlock_key, Goto, key, net,
           ToldConnected
      <4>. QED  BY <3>3, <4>2, <4>3, <4>4, <4>5, <4>6 DEF AppStep
    <3>4. Outside /\ ToldConnected => ToldConnected'
      <4>1. Outside => connecting' = connecting /\ pc' = pc
        BY OutsideFrame
      <4>2. Outside => (link' = link \/ link = "connecting")
        BY DEF Outside, Unregister, Arrive, Established, net
      <4>. QED  BY <4>1, <4>2 DEF ToldConnected
    <3>5. UNCHANGED vars /\ ToldConnected => ToldConnected'
      BY DEF vars, key, net, ToldConnected
    <3>. QED  BY <1>3, <3>1, <3>2, <3>3, <3>4, <3>5 DEF WorkStep, ToldConnected
  <2>. QED  BY <2>1, <2>2 DEF Quiet, Empty
<1>. QED  BY <1>1, <1>2, <1>3, StepCases

LEMMA UnmixedKeeps ==
  ASSUME LockInv, KeyInv, Unmixed, [Next]_vars
  PROVE  Unmixed'
<1>1. \A p \in Pollers : p \in DOMAIN pc /\ p \notin Receivers \cup Senders /\ p # App
  BY ThreadIds DEF KeyInv, Base, TypeOK
<1>2. ASSUME NEW p \in Pollers, ~Writing(p), Writing(p)', [Next]_vars
      PROVE  WriteBegin(p)
  <2>1. ASSUME NEW s \in Senders, NEW op, SendStep(s, op)
        PROVE  FALSE
    <3>1. pc' = pc \/ \E x : pc' = [pc EXCEPT ![s] = x]
      BY <2>1, SenderFrame
    <3>. QED  BY <1>1, <1>2, <3>1 DEF Writing
  <2>2. ASSUME NEW r \in Receivers, ReceiverStep(r)
        PROVE  FALSE
    <3>1. \E x : pc' = [pc EXCEPT ![r] = x]
      BY <2>2, ReceiverFrame
    <3>. QED  BY <1>1, <1>2, <3>1 DEF Writing
  <2>3. ASSUME NEW q \in Pollers, PollerStep(q) PROVE WriteBegin(p)
    <3>1. CASE q # p
      <4>1. (\E x : pc' = [pc EXCEPT ![q] = x]) \/ \E k, v : Told(k, v, q)
        BY <2>3, PollerCases DEF Leave, ConnectDone, WriteBegin, ReadBegin, WriteSend,
           WriteFinish, WriteCallback, ConnectCallback, ReadCallback, Goto
      <4>. QED  BY <1>1, <1>2, <3>1, <4>1 DEF Told, Writing
    <3>2. CASE q = p
      <4>1. \/ Writing(p) \/ WriteBegin(p)
            \/ \E x \in {"idle", "connectCall", "readCall"} : pc' = [pc EXCEPT ![p] = x]
            \/ \E k, v : Told(k, v, p)
        BY <2>3, <3>2, PollerCases DEF Leave, ConnectDone, ReadBegin, WriteSend,
           WriteFinish, WriteCallback, ConnectCallback, ReadCallback, Goto, Writing
      <4>. QED  BY <1>1, <1>2, <4>1 DEF Told, Writing
    <3>. QED  BY <3>1, <3>2
  <2>4. ASSUME NEW q \in Pollers, NEW e \in {READABLE, WRITEABLE, EXCEPTION}, Poll(q, e)
        PROVE  FALSE
    BY <1>1, <1>2, <2>4 DEF Poll, Goto, Writing, READABLE, WRITEABLE, EXCEPTION
  <2>5. CASE AppStep
    <3>1. (\E x : pc' = [pc EXCEPT ![App] = x]) \/ pc' = pc \/ \E k, v : Told(k, v, App)
      BY <2>5 DEF AppStep, top_ioqueue_connect, top_ioqueue_post_completion, PostCallback,
         top_ioqueue_op_key_init, top_ioqueue_lock_key, top_ioqueue_unlock_key, Goto
    <3>. QED  BY <1>1, <1>2, <3>1 DEF Told, Writing
  <2>6. Outside \/ UNCHANGED vars => pc' = pc
    BY OutsideFrame DEF vars
  <2>. QED
    BY <1>2, <2>1, <2>2, <2>3, <2>4, <2>5, <2>6, StepCases DEF WorkStep, Writing
<1>3. connecting' => connecting \/ (top_ioqueue_connect /\ pc[App] = "connectQueue" /\ mutex = NoThread)
  <2>1. \A s \in Senders, op \in {SEND, SEND_TO} : SendStep(s, op) => connecting' = connecting
    BY SenderFrame
  <2>2. \A r \in Receivers : ReceiverStep(r) => connecting' = connecting
    BY ReceiverFrame
  <2>3. ASSUME NEW p \in Pollers, PollerStep(p) PROVE connecting' \in {connecting, FALSE}
    BY <2>3, PollerCases DEF Leave, ConnectDone, WriteBegin, ReadBegin, WriteSend,
       WriteFinish, WriteCallback, ConnectCallback, ReadCallback, key
  <2>4. ASSUME NEW p \in Pollers, NEW e, Poll(p, e) PROVE connecting' = connecting
    BY <2>4 DEF Poll, key
  <2>5. AppStep => \/ connecting' = connecting
                   \/ top_ioqueue_connect /\ pc[App] = "connectQueue" /\ mutex = NoThread
    BY DEF AppStep, top_ioqueue_connect, top_ioqueue_post_completion, PostCallback,
       top_ioqueue_op_key_init, top_ioqueue_lock_key, top_ioqueue_unlock_key, key
  <2>6. Outside \/ UNCHANGED vars => connecting' = connecting
    BY OutsideFrame DEF vars, key
  <2>. QED  BY <2>1, <2>2, <2>3, <2>4, <2>5, <2>6, StepCases DEF WorkStep
<1>4. ASSUME top_ioqueue_connect, pc[App] = "connectQueue", mutex = NoThread, NEW p \in Pollers
      PROVE  ~Writing(p)'
  <2>1. ~Writing(p)
    BY <1>1, <1>4 DEF LockInv, Locks
  <2>2. pc'[p] = pc[p]
    BY <1>1, <1>4 DEF top_ioqueue_connect, Goto
  <2>. QED  BY <2>1, <2>2 DEF Writing
<1>5. \A p \in Pollers : WriteBegin(p) => ~connecting'
  BY DEF WriteBegin
<1>. QED  BY <1>2, <1>3, <1>4, <1>5 DEF Unmixed

LEMMA WatchedKeeps ==
  ASSUME KeyInv, KeyInv', Quiet, Unmixed, PendingWatched, [Next]_vars
  PROVE  PendingWatched'
<1>1. /\ ReadHead \in {AcceptList, ReadList} /\ ReadHead # WriteList
      /\ \A h \in {AcceptList, ReadList} : h # ReadHead => next[h] = h
      /\ ReadHead' = ReadHead /\ use' = use
      /\ \A h \in {AcceptList, ReadList} : h # ReadHead => next'[h] = h
  <2>1. ReadHead \in {AcceptList, ReadList} /\ ReadHead # WriteList
    BY NodeIds DEF ReadHead
  <2>2. KeyInv => \A h \in {AcceptList, ReadList} : h # ReadHead => next[h] = h
    BY OneReadList, NodeIds
  <2>3. use' = use
    <3>1. \A s \in Senders, op \in {SEND, SEND_TO} : SendStep(s, op) => use' = use
      BY SenderFrame
    <3>2. \A r \in Receivers : ReceiverStep(r) => use' = use
      BY ReceiverFrame
    <3>3. WorkStep => use' = use
      BY WorkFrame DEF WorkerFrame
    <3>. QED  BY <3>1, <3>2, <3>3, StepCases
  <2>4. ReadHead' = ReadHead
    BY <2>3, UseKept
  <2>5. \A h \in {AcceptList, ReadList} : h # ReadHead => next'[h] = h
    <3>1. ASSUME NEW h \in {AcceptList, ReadList}, h # ReadHead, next'[h] # h
          PROVE  FALSE
      <4>1. LinkTypes' /\ Links'
        BY DEF KeyInv, Base, TypeOK, LinkTypes
      <4>2. h \in Heads /\ h \in ring'
        BY NodeIds DEF ring
      <4>3. next'[h] \in ring' /\ home'[next'[h]] = home'[h] /\ ring' \subseteq Nodes
        BY <4>1, <4>2 DEF Links, ring
      <4>4. home' = home
        BY <2>3, UseKept
      <4>5. home[h] = h /\ next'[h] \in Nodes /\ home[next'[h]] = h
        BY <4>2, <4>3, <4>4, UseFacts DEF KeyInv
      <4>6. next'[h] \in Heads => home[next'[h]] = next'[h]
        BY UseFacts DEF KeyInv
      <4>7. next'[h] \in OpKeys => home[next'[h]] \in {WriteList, ReadHead}
        BY UseFacts DEF KeyInv
      <4>. QED  BY <3>1, <4>5, <4>6, <4>7, NodeIds
    <3>. QED  BY <3>1
  <2>. QED  BY <2>1, <2>2, <2>3, <2>4, <2>5
<1>. DEFINE Rd(n, e) == ~closing' /\ n[ReadHead] # ReadHead => READABLE \in e
            Wr(n, c, e) == ~closing' /\ (c \/ (n[WriteList] # WriteList /\ ~use.eager))
                             => WRITEABLE \in e
            Ex(c, e) == ~closing' /\ c => EXCEPTION \in e
<1>2. SUFFICES Rd(next', evs') /\ Wr(next', connecting', evs') /\ Ex(connecting', evs')
  BY <1>1 DEF PendingWatched, Empty
<1>3. ~closing =>
        /\ next[ReadHead] # ReadHead => READABLE \in evs
        /\ connecting \/ (next[WriteList] # WriteList /\ ~use.eager) => WRITEABLE \in evs
        /\ connecting => EXCEPTION \in evs
  BY <1>1 DEF PendingWatched, Empty
<1>4. closing => closing'
  <2>1. \A s \in Senders, op \in {SEND, SEND_TO} : SendStep(s, op) => closing' = closing
    BY SenderFrame
  <2>2. \A r \in Receivers : ReceiverStep(r) => closing' = closing
    BY ReceiverFrame
  <2>3. ASSUME NEW p \in Pollers, PollerStep(p) PROVE closing' = closing
    BY <2>3, PollerCases DEF Leave, ConnectDone, WriteBegin, ReadBegin, WriteSend,
       WriteFinish, WriteCallback, ConnectCallback, ReadCallback, key
  <2>4. ASSUME NEW p \in Pollers, NEW e, Poll(p, e) PROVE closing' = closing
    BY <2>4 DEF Poll, key
  <2>5. AppStep => closing' = closing
    BY DEF AppStep, top_ioqueue_connect, top_ioqueue_post_completion, PostCallback,
       top_ioqueue_op_key_init, top_ioqueue_lock_key, top_ioqueue_unlock_key, key
  <2>6. Outside \/ UNCHANGED vars => (closing => closing')
    BY DEF Outside, Unregister, Arrive, Established, vars, key
  <2>. QED  BY <2>1, <2>2, <2>3, <2>4, <2>5, <2>6, StepCases DEF WorkStep
<1>5. READABLE # WRITEABLE /\ READABLE # EXCEPTION /\ WRITEABLE # EXCEPTION
  BY DEF READABLE, WRITEABLE, EXCEPTION
<1>6. ASSUME evs \subseteq evs', connecting' = connecting,
             next'[ReadHead] # ReadHead => next[ReadHead] # ReadHead \/ READABLE \in evs',
             next'[WriteList] # WriteList => next[WriteList] # WriteList \/ WRITEABLE \in evs'
      PROVE  Rd(next', evs') /\ Wr(next', connecting', evs') /\ Ex(connecting', evs')
  BY <1>3, <1>4, <1>6
<1>7. ASSUME NEW s \in Senders, NEW op \in {SEND, SEND_TO}, SendStep(s, op)
      PROVE  Rd(next', evs') /\ Wr(next', connecting', evs') /\ Ex(connecting', evs')
  <2>1. CASE PushBack(WriteList, CurrentKey(s)) /\ evs' = evs \cup {WRITEABLE}
             /\ pc[s] = "queue"
    <3>1. use' = use /\ connecting' = connecting
      BY <1>7, SenderFrame
    <3>2. \A g \in Heads : next'[g] # g => g = WriteList \/ next[g] # g
      BY <2>1, <3>1, QueueLinks
    <3>. QED  BY <1>1, <1>6, <2>1, <3>1, <3>2, NodeIds
  <2>2. CASE next' = next /\ evs' = evs
    BY <1>6, <1>7, <2>2, SenderFrame
  <2>. QED
    BY <1>7, <2>1, <2>2 DEF SendStep, SendCheck, SendSpeculate, SendDirect, SendSpin,
       SendSeesFree, SendFill, SendQueue, lists, key
<1>8. ASSUME NEW r \in Receivers, ReceiverStep(r)
      PROVE  Rd(next', evs') /\ Wr(next', connecting', evs') /\ Ex(connecting', evs')
  <2>1. connecting' = connecting
    BY <1>8, ReceiverFrame
  <2>. QED  BY <1>1, <1>6, <1>8, <2>1, ReceiverLists, NodeIds
<1>9. CASE WorkStep
  <2>1. /\ next'[ReadHead] # ReadHead => next[ReadHead] # ReadHead
        /\ next'[WriteList] # WriteList => next[WriteList] # WriteList
    BY <1>1, <1>9, HeadsShrink, NodeIds
  <2>2. CASE evs' = evs /\ connecting' = connecting
    BY <1>6, <2>1, <2>2
  <2>3. CASE closing'
    BY <2>3
  <2>4. ASSUME NEW p \in Pollers, ConnectDone(p), connecting
        PROVE  Rd(next', evs') /\ Wr(next', connecting', evs') /\ Ex(connecting', evs')
    <3>1. next[WriteList] = WriteList \/ use.eager
      BY <2>4 DEF Quiet, ToldConnected, Empty
    <3>2. connecting' = FALSE /\ evs' = evs \ {WRITEABLE, EXCEPTION}
      BY <2>4 DEF ConnectDone
    <3>. QED  BY <1>3, <1>4, <1>5, <2>1, <3>1, <3>2
  <2>5. ASSUME evs' = IF next'[WriteList] = WriteList THEN evs \ {WRITEABLE} ELSE evs,
               connecting' = connecting, ~connecting
        PROVE  Rd(next', evs') /\ Wr(next', connecting', evs') /\ Ex(connecting', evs')
    BY <1>3, <1>4, <1>5, <2>1, <2>5
  <2>6. ASSUME NEW h \in {AcceptList, ReadList}, next[h] # h, connecting' = connecting,
               evs' = IF next'[h] = h THEN evs \ {READABLE} ELSE evs
        PROVE  Rd(next', evs') /\ Wr(next', connecting', evs') /\ Ex(connecting', evs')
    <3>1. h = ReadHead
      BY <1>1, <2>6
    <3>. QED  BY <1>3, <1>4, <1>5, <2>1, <2>6, <3>1
  <2>7. ASSUME NEW p \in Pollers, PollerStep(p)
        PROVE  Rd(next', evs') /\ Wr(next', connecting', evs') /\ Ex(connecting', evs')
    <3>1. CASE WriteBegin(p)
      <4>1. ~connecting /\ connecting' = connecting
        BY <3>1 DEF WriteBegin
      <4>2. evs' = evs \/ evs' = IF next'[WriteList] = WriteList THEN evs \ {WRITEABLE} ELSE evs
        BY <3>1 DEF WriteBegin, Unwatch, Empty
      <4>. QED  BY <2>2, <2>5, <4>1, <4>2
    <3>2. CASE WriteFinish(p)
      <4>1. ~connecting /\ connecting' = connecting
        BY <3>2 DEF WriteFinish, Unmixed, Writing
      <4>2. evs' = evs \/ evs' = IF next'[WriteList] = WriteList THEN evs \ {WRITEABLE} ELSE evs
        BY <3>2 DEF WriteFinish, Unwatch, Empty
      <4>. QED  BY <2>2, <2>5, <4>1, <4>2
    <3>3. ASSUME NEW h \in {AcceptList, ReadList}, ReadBegin(p, h)
          PROVE  Rd(next', evs') /\ Wr(next', connecting', evs') /\ Ex(connecting', evs')
      <4>1. /\ next[h] # h /\ connecting' = connecting
            /\ evs' = IF next'[h] = h THEN evs \ {READABLE} ELSE evs
        BY <3>3 DEF ReadBegin, Unwatch, Empty
      <4>. QED  BY <2>6, <4>1
    <3>4. \/ (connecting /\ ConnectDone(p)) \/ WriteBegin(p) \/ WriteFinish(p)
          \/ \E h \in {AcceptList, ReadList} : ReadBegin(p, h)
          \/ evs' = evs /\ connecting' = connecting
      BY <2>7, PollerCases DEF Leave, WriteSend, WriteCallback, ConnectCallback,
         ReadCallback, key
    <3>. QED  BY <2>2, <2>4, <3>1, <3>2, <3>3, <3>4
  <2>8. CASE AppStep
    <3>1. \/ evs' = evs /\ connecting' = connecting
          \/ connecting' = TRUE /\ evs' = evs \cup {WRITEABLE, EXCEPTION}
      BY <2>8 DEF AppStep, top_ioqueue_connect, top_ioqueue_post_completion, PostCallback,
         top_ioqueue_op_key_init, top_ioqueue_lock_key, top_ioqueue_unlock_key, key
    <3>. QED  BY <1>3, <1>4, <2>1, <2>2, <3>1
  <2>9. ASSUME NEW p \in Pollers, NEW e, Poll(p, e)
        PROVE  evs' = evs /\ connecting' = connecting
    BY <2>9 DEF Poll, key
  <2>10. Outside \/ UNCHANGED vars => closing' \/ (evs' = evs /\ connecting' = connecting)
    BY DEF Outside, Unregister, Arrive, Established, vars, key
  <2>. QED  BY <1>9, <2>2, <2>3, <2>7, <2>8, <2>9, <2>10 DEF WorkStep
<1>. QED  BY <1>7, <1>8, <1>9, StepCases

(* The key waits for the event of every operation that is pending on it:   *)
(* the dispatch functions clear an event only when no operation needs it   *)
(* (ioqueue_add_to_set, ioqueue_remove_from_set).  Of the sends only if    *)
(* the application waits for its connect: see PendingWatched.              *)
THEOREM AlwaysWatched ==
  ASSUME ExclusiveUses
  PROVE  Spec => []PendingWatched
<1>. DEFINE WInv == IInv /\ Quiet /\ Unmixed /\ PendingWatched
<1>1. Init => WInv
  <2>1. Init => IInv
    BY InitInv
  <2>2. Init => Quiet /\ Unmixed
    BY ThreadIds, NodeIds DEF Init, Quiet, Unmixed, Writing, Empty
  <2>3. Init => PendingWatched
    BY NodeIds DEF Init, PendingWatched, Empty
  <2>. QED  BY <2>1, <2>2, <2>3
<1>2. WInv /\ [Next]_vars => WInv'
  <2>. SUFFICES ASSUME WInv, [Next]_vars PROVE WInv'
    OBVIOUS
  <2>1. IInv'
    BY NextInv
  <2>2. LockInv /\ KeyInv /\ KeyInv'
    BY <2>1 DEF IInv
  <2>. QED  BY <2>1, <2>2, QuietKeeps, UnmixedKeeps, WatchedKeeps
<1>3. WInv => PendingWatched
  OBVIOUS
<1>. HIDE DEF WInv
<1>. QED  BY <1>1, <1>2, <1>3, PTL DEF Spec

=============================================================================
