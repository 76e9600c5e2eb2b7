----------------------------- MODULE IoQueueKey -----------------------------
(***************************************************************************)
(* One key of the proactor queue under every socket of the MDU             *)
(* (src/include/ioque_base.c): operations are submitted by application     *)
(* threads, most of them without a lock, and completed by the threads that *)
(* poll.  The pending operations are nodes of circular lists that live in  *)
(* the caller's memory; the poll set holds the events the key waits for.   *)
(*                                                                         *)
(* Steps are cut where the code takes or drops the key's mutex and where   *)
(* it reads, without it, what other threads write: the list head, the type *)
(* of an operation key, its byte count.  The kernel, epoll and the         *)
(* application (Arrive, Poll, Unregister, when the application calls) are  *)
(* external.                                                               *)
(***************************************************************************)
EXTENDS Integers, Sequences, FiniteSets

CONSTANTS
  Senders,      \* threads that send on the key
  Receivers,    \* threads that receive or accept on the key
  Pollers,      \* threads inside top_ioqueue_poll
  App,          \* the thread that connects, locks, cancels and unregisters
  NoThread,     \* owner of a free mutex
  OpKeys,       \* operation keys (top_ioqueue_op_key_t)
  Null,         \* the pointer memset leaves in a node
  Uses,         \* the ways the key is used: see Use
  MaxMessages,  \* bound: messages of a sender
  Size,         \* bytes of a message
  MaxArrivals   \* bound: datagrams or connections that arrive

PENDING_RETRY == 2

Msgs == Senders \X (1..MaxMessages)
Buffers == Msgs
Threads == Senders \cup Receivers \cup Pollers \cup {App, NoThread}

READABLE == "readable"
WRITEABLE == "writeable"
EXCEPTION == "exception"

\* the heads of the three pending lists
ReadList == "read_list"
WriteList == "write_list"
AcceptList == "accept_list"
Heads == {ReadList, WriteList, AcceptList}
Nodes == OpKeys \cup Heads

NONE == "none"
SEND == "send"
SEND_TO == "send_to"
ACCEPT == "accept"
Ops == {NONE, SEND, SEND_TO, "recv", "recvfrom", ACCEPT}

Job == [key : OpKeys \cup {Null}, msg : Msgs \cup {Null}, ok : BOOLEAN,
        value : Int]
NoJob == [key |-> Null, msg |-> Null, ok |-> TRUE, value |-> 0]

(* How an application uses a key.                                          *)
Use == [
  active     : SUBSET (Senders \cup Receivers), \* who sends and reads
  keyOf      : [Msgs -> OpKeys],      \* the operation key of a message
  bufferOf   : [Msgs -> Buffers],     \* the memory a message is sent from
  readKey    : [Receivers -> OpKeys], \* the operation key of a receiver
  calls      : {"recv", "recvfrom", ACCEPT}, \* the function receivers call
  async      : SUBSET Receivers,      \* who passes TOP_IOQUEUE_ALWAYS_ASYNC
  datagram   : BOOLEAN,               \* the socket type is SOCK_DGRAM
  concurrent : BOOLEAN,               \* allow_concurrent of the key
  patient    : BOOLEAN,               \* a sender waits for the completion
  connects   : BOOLEAN,               \* the application connects the socket
  eager      : BOOLEAN,               \* it sends without waiting for that
  reinit     : SUBSET OpKeys,         \* keys it initialises again
  careful    : BOOLEAN ]              \* it does so with idle keys only

\* Each thread is one of these: what a thread does is in one place, pc.
ASSUME KeyAssumption ==
  /\ Uses \subseteq Use
  /\ IsFiniteSet(OpKeys) /\ OpKeys \cap Heads = {}
  /\ Null \notin Nodes \cup Msgs
  /\ NoThread \notin Senders \cup Receivers \cup Pollers \cup {App}
  /\ App \notin Senders \cup Receivers \cup Pollers
  /\ Senders \cap Receivers = {} /\ (Senders \cup Receivers) \cap Pollers = {}
  /\ Size \in Nat \ {0} /\ MaxMessages \in Nat /\ MaxArrivals \in Nat

VARIABLES
  use,        \* how the key is used
  mutex,      \* owner of key->mutex
  next, prev, \* the links of the list nodes
  opkey,      \* what an operation key holds: op, buf, written, and its message
  buffer,     \* what the application's buffers hold
  evs,        \* the events the key is in the poll set for
  connecting, \* key->connecting
  closing,    \* key->closing
  pc,         \* where each thread is
  retry,      \* spins of a sender on its operation key
  sending,    \* number of a sender's current message
  job,        \* what a poller, or the application's cancel, is completing
  link,       \* the socket: not connected yet, connecting, up or down
  inbox,      \* what waits in the socket
  arrived,    \* datagrams or connections that arrived so far
  wire,       \* bytes that left, each named by its message
  answer,     \* what the send of a message returned
  reports,    \* bytes_sent of the callbacks of a message
  received,   \* what a receiver got, by return or callback
  dropped     \* history: accepted connections that were closed at once

Datagram == use.datagram
AllowConcurrent == use.concurrent
Patient == use.patient
KeyOf == use.keyOf
BufferOf == use.bufferOf
ReadKey == use.readKey

lists == <<next, prev>>
ops == <<opkey, buffer>>
key == <<use, evs, connecting, closing>>
caller == <<retry, sending>>
net == <<link, inbox, arrived, wire>>
results == <<answer, reports, received, dropped>>
vars == <<mutex, lists, ops, key, pc, caller, job, net, results>>

-----------------------------------------------------------------------------
(* Lists (toplist.h): nodes are linked in place.                           *)

Empty(h) == next[h] = h

(* Mutant: the node goes to the front.                                     *)
PushFront(h, n) ==
  LET first == next[h]
  IN /\ next' = [next EXCEPT ![n] = first, ![h] = n]
     /\ prev' = [prev EXCEPT ![n] = h, ![first] = n]

\* The node goes to the back.
PushBack(h, n) ==
  LET last == prev[h]
      after == next[last]
  IN /\ next' = [next EXCEPT ![n] = after, ![last] = n]
     /\ prev' = [prev EXCEPT ![n] = last, ![after] = n]

\* The neighbours are linked to each other, the node to itself.
Erase(n) ==
  /\ next' = [next EXCEPT ![prev[n]] = next[n], ![n] = n]
  /\ prev' = [prev EXCEPT ![next[n]] = prev[n], ![n] = n]

\* The nodes met on the way from the head back to it.
Listed(h) ==
  LET n == Cardinality(OpKeys)
      at[i \in 0..n] == IF i = 0 THEN h
                        ELSE IF at[i - 1] \in Nodes THEN next[at[i - 1]]
                        ELSE Null
  IN { at[i] : i \in 1..n } \cap OpKeys

-----------------------------------------------------------------------------
Goto(t, where) == pc' = [pc EXCEPT ![t] = where]

top_ioqueue_is_pending(k) == opkey[k].op # NONE

(* Mutant: the event is cleared although operations are left.              *)
UnwatchAlways(h, e) == evs' = evs \ {e}

\* The key leaves the poll set for e once the list h is empty.
Unwatch(h, e) == evs' = IF Empty(h)' THEN evs \ {e} ELSE evs

\* The message sender s is sending, and its key.
Current(s) == <<s, sending[s]>>
CurrentKey(s) == KeyOf[Current(s)]

\* The call of sender s returns.
Return(s, result) ==
  /\ answer' = [answer EXCEPT ![Current(s)] = result]
  /\ sending' = [sending EXCEPT ![s] = @ + 1]
  /\ retry' = [retry EXCEPT ![s] = 0]
  /\ Goto(s, "idle")

\* The previous message of s has not been completed.
Outstanding(s) ==
  /\ sending[s] > 1
  /\ answer[<<s, sending[s] - 1>>] = "pending"
  /\ reports[<<s, sending[s] - 1>>] = <<>>

-----------------------------------------------------------------------------
(* Sending: top_ioqueue_send, top_ioqueue_sendto.                          *)

\* The application has connected the socket and knows the outcome.
ToldConnected ==
  /\ link \notin {"new", "connecting"}
  /\ ~connecting /\ pc[App] # "connectQueue"

\* The application fills its buffer and calls; the first check of the call.
SendCheck(s) ==
  /\ s \in use.active /\ pc[s] = "idle" /\ sending[s] <= MaxMessages
  /\ Patient => ~Outstanding(s)
  /\ use.eager \/ ToldConnected
  /\ buffer' = [buffer EXCEPT ![BufferOf[Current(s)]] = Current(s)]
  /\ \/ /\ closing
        /\ Return(s, "cancelled")
     \/ /\ ~closing
        /\ Goto(s, "speculate")
        /\ UNCHANGED <<answer, caller>>
  /\ UNCHANGED <<mutex, lists, opkey, key, job, net, reports, received, dropped>>

\* Is there no pending write?  Read without the mutex.
SendSpeculate(s) ==
  /\ pc[s] = "speculate"
  /\ Goto(s, IF Empty(WriteList) THEN "direct" ELSE "spin")
  /\ UNCHANGED <<mutex, lists, ops, key, caller, job, net, results>>

(* Mutant: the success of the fast track is not returned.                  *)
SendDirectAndQueue(s) ==
  /\ pc[s] = "direct" /\ link = "up" /\ ~closing
  /\ wire' = Append(wire, Current(s))
  /\ Goto(s, "spin")
  /\ UNCHANGED <<mutex, lists, ops, key, caller, job, link, inbox, arrived,
                 results>>

\* The fast track: the socket takes the data or some of it, fails, or would
\* block.
SendDirect(s) ==
  /\ pc[s] = "direct"
  /\ \/ /\ link = "up" /\ ~closing
        /\ \E n \in 1..Size :
             /\ Datagram => n = Size
             /\ wire' = wire \o [i \in 1..n |-> Current(s)]
        /\ Return(s, "sent")
     \/ /\ Return(s, "error")
        /\ UNCHANGED wire
     \/ /\ link # "new"
        /\ Goto(s, "spin")
        /\ UNCHANGED <<wire, answer, caller>>
  /\ UNCHANGED <<mutex, lists, ops, key, job, link, inbox, arrived, reports,
                 received, dropped>>

(* Mutant: the retries are not limited.                                    *)
SendSpinOn(s) ==
  /\ pc[s] = "spin" /\ top_ioqueue_is_pending(CurrentKey(s))
  /\ retry' = [retry EXCEPT ![s] = @ + 1]
  /\ UNCHANGED <<mutex, lists, ops, key, pc, sending, job, net, results>>

\* The operation key is busy: look again twice, then give up.
SendSpin(s) ==
  /\ pc[s] = "spin" /\ top_ioqueue_is_pending(CurrentKey(s))
  /\ \/ /\ retry[s] < PENDING_RETRY
        /\ retry' = [retry EXCEPT ![s] = @ + 1]
        /\ UNCHANGED <<pc, answer, sending>>
     \/ /\ retry[s] = PENDING_RETRY
        /\ Return(s, "busy")
  /\ UNCHANGED <<mutex, lists, ops, key, job, net, reports, received, dropped>>

\* The operation key is free when it is read; its fields are written later,
\* without the mutex.
SendSeesFree(s) ==
  /\ pc[s] = "spin" /\ ~top_ioqueue_is_pending(CurrentKey(s))
  /\ Goto(s, "fill")
  /\ UNCHANGED <<mutex, lists, ops, key, caller, job, net, results>>

SendFill(s, op) ==
  /\ pc[s] = "fill"
  /\ opkey' = [opkey EXCEPT ![CurrentKey(s)] =
                 [op |-> op, buf |-> BufferOf[Current(s)], written |-> 0,
                  msg |-> Current(s)]]
  /\ Goto(s, "queue")
  /\ UNCHANGED <<mutex, lists, buffer, key, caller, job, net, results>>

(* Mutant: the closing flag is not checked again.                          *)
SendQueueUnchecked(s) ==
  /\ pc[s] = "queue" /\ mutex = NoThread
  /\ PushBack(WriteList, CurrentKey(s))
  /\ evs' = evs \cup {WRITEABLE}
  /\ Return(s, "pending")
  /\ UNCHANGED <<mutex, ops, connecting, closing, use, job, net, reports, received,
                 dropped>>

(* Mutant: the event is not added to the poll set.                         *)
SendQueueUnwatched(s) ==
  /\ pc[s] = "queue" /\ mutex = NoThread
  /\ PushBack(WriteList, CurrentKey(s))
  /\ Return(s, "pending")
  /\ UNCHANGED <<mutex, ops, key, job, net, reports, received, dropped>>

\* The locked part: the second check, the list, the poll set.
SendQueue(s) ==
  /\ pc[s] = "queue" /\ mutex = NoThread
  /\ \/ /\ closing
        /\ Return(s, "cancelled")
        /\ UNCHANGED <<lists, evs>>
     \/ /\ ~closing
        /\ PushBack(WriteList, CurrentKey(s))
        /\ evs' = evs \cup {WRITEABLE}
        /\ Return(s, "pending")
  /\ UNCHANGED <<mutex, ops, connecting, closing, use, job, net, reports, received,
                 dropped>>

SendStep(s, op) ==
  \/ SendCheck(s) \/ SendSpeculate(s) \/ SendDirect(s) \/ SendSpin(s)
  \/ SendSeesFree(s) \/ SendFill(s, op) \/ SendQueue(s)

top_ioqueue_send(s) == ~Datagram /\ SendStep(s, SEND)
top_ioqueue_sendto(s) == Datagram /\ SendStep(s, SEND_TO)

-----------------------------------------------------------------------------
(* Receiving and accepting.                                                *)

ListOf(r) == IF use.calls = ACCEPT THEN AcceptList ELSE ReadList

\* The first check; the operation key is taken as free.
ReadCheck(r) ==
  /\ r \in use.active /\ pc[r] = "idle"
  /\ \/ /\ closing
        /\ Goto(r, "stopped")
        /\ UNCHANGED opkey
     \/ /\ ~closing
        /\ opkey' = [opkey EXCEPT ![ReadKey[r]].op = NONE]
        /\ Goto(r, IF r \in use.async THEN "fill" ELSE "direct")
  /\ UNCHANGED <<mutex, lists, buffer, key, caller, job, net, results>>

\* The receiver gets the first of what waits in the socket.
Take(r) ==
  /\ inbox # <<>> /\ ~closing
  /\ inbox' = Tail(inbox)
  /\ received' = [received EXCEPT ![r] = Append(@, Head(inbox))]

(* Mutant: the data is taken, and the operation is queued all the same.    *)
ReadDirectAndQueue(r) ==
  /\ pc[r] = "direct" /\ inbox # <<>>
  /\ inbox' = Tail(inbox)
  /\ Goto(r, "fill")
  /\ UNCHANGED <<mutex, lists, ops, key, caller, job, link, arrived, wire,
                 results>>

\* The socket gives a connection whose address cannot be read: accept closes
\* it and returns the error.
DropAccepted(r) ==
  /\ use.calls = ACCEPT /\ inbox # <<>> /\ ~closing
  /\ inbox' = Tail(inbox)
  /\ dropped' = dropped \cup {Head(inbox)}

\* The socket gives data or a connection, fails, or would block.
ReadDirect(r) ==
  /\ pc[r] = "direct"
  /\ \/ /\ Take(r)
        /\ Goto(r, "idle")
        /\ UNCHANGED dropped
     \/ /\ DropAccepted(r)
        /\ Goto(r, "idle")
        /\ UNCHANGED received
     \/ /\ Goto(r, "idle")
        /\ UNCHANGED <<inbox, received, dropped>>
     \/ /\ inbox = <<>>
        /\ Goto(r, "fill")
        /\ UNCHANGED <<inbox, received, dropped>>
  /\ UNCHANGED <<mutex, lists, ops, key, caller, job, link, arrived, wire,
                 answer, reports>>

ReadFill(r) ==
  /\ pc[r] = "fill"
  /\ opkey' = [opkey EXCEPT ![ReadKey[r]].op = use.calls]
  /\ Goto(r, "queue")
  /\ UNCHANGED <<mutex, lists, buffer, key, caller, job, net, results>>

(* Mutant: the event is not added to the poll set.                         *)
ReadQueueUnwatched(r) ==
  /\ pc[r] = "queue" /\ mutex = NoThread
  /\ PushBack(ListOf(r), ReadKey[r])
  /\ Goto(r, "waiting")
  /\ UNCHANGED <<mutex, ops, key, caller, job, net, results>>

ReadQueue(r) ==
  /\ pc[r] = "queue" /\ mutex = NoThread
  /\ \/ /\ closing
        /\ Goto(r, "stopped")
        /\ UNCHANGED <<lists, evs>>
     \/ /\ ~closing
        /\ PushBack(ListOf(r), ReadKey[r])
        /\ evs' = evs \cup {READABLE}
        /\ Goto(r, "waiting")
  /\ UNCHANGED <<mutex, ops, connecting, closing, use, caller, job, net, results>>

ReadStep(r) ==
  ReadCheck(r) \/ ReadDirect(r) \/ ReadFill(r) \/ ReadQueue(r)

top_ioqueue_recv(r) == use.calls = "recv" /\ ReadStep(r)
top_ioqueue_recvfrom(r) == use.calls = "recvfrom" /\ ReadStep(r)

\* accept tries the socket only while no other accept waits.
top_ioqueue_accept(r) ==
  /\ use.calls = ACCEPT
  /\ \/ ReadCheck(r) \/ ReadFill(r) \/ ReadQueue(r)
     \/ Empty(AcceptList) /\ ReadDirect(r)
     \/ /\ pc[r] = "direct" /\ ~Empty(AcceptList)
        /\ Goto(r, "fill")
        /\ UNCHANGED <<mutex, lists, ops, key, caller, job, net, results>>

-----------------------------------------------------------------------------
(* Polling.  The poll loop is in the library: it reports an event of the   *)
(* poll set for which the socket is ready, and calls the dispatch function *)
(* of the event.                                                           *)

Ready(e) ==
  \/ e = READABLE /\ inbox # <<>>
  \/ e = WRITEABLE /\ link \in {"up", "down"}
  \/ e = EXCEPTION /\ link = "down"

Poll(p, e) ==
  /\ pc[p] = "idle" /\ e \in evs /\ Ready(e)
  /\ Goto(p, e)
  /\ UNCHANGED <<mutex, lists, ops, key, caller, job, net, results>>

\* A dispatch function that finds the key closing, or nothing to do.
Leave(p) ==
  /\ Goto(p, "idle")
  /\ UNCHANGED <<mutex, lists, ops, key, caller, job, net, results>>

(* Mutant: the mutex is always dropped before the callback.                *)
UnlockAlways(p) == mutex' = NoThread

\* The end of the locked part of a dispatch function, before the callback.
Unlock(p) == mutex' = IF AllowConcurrent THEN NoThread ELSE p

\* The callback has returned.
AfterCallback(p) ==
  /\ mutex' = IF mutex = p THEN NoThread ELSE mutex
  /\ job' = [job EXCEPT ![p] = NoJob]

\* connect() is over: its events leave the poll set.
ConnectDone(p) ==
  /\ connecting' = FALSE
  /\ evs' = evs \ {WRITEABLE, EXCEPTION}
  /\ Unlock(p)
  /\ Goto(p, "connectCall")
  /\ UNCHANGED <<lists, ops, closing, use, caller, job, net, results>>

ConnectCallback(p) ==
  /\ pc[p] = "connectCall"
  /\ AfterCallback(p)
  /\ Goto(p, "idle")
  /\ UNCHANGED <<lists, ops, key, caller, net, results>>

\* The first pending write; a datagram leaves the list before it is sent.
WriteBegin(p) ==
  LET k == next[WriteList]
  IN /\ ~closing /\ ~connecting /\ ~Empty(WriteList)
     /\ mutex' = p
     /\ job' = [job EXCEPT ![p] = [NoJob EXCEPT !.key = k,
                                              !.msg = opkey[k].msg]]
     /\ IF Datagram THEN Erase(k) /\ Unwatch(WriteList, WRITEABLE)
                    ELSE UNCHANGED <<lists, evs>>
     /\ Goto(p, "writing")
     /\ UNCHANGED <<ops, connecting, closing, use, caller, net, results>>

(* Mutant: the result of the socket is not looked at.                      *)
WriteSendUnchecked(p) ==
  LET k == job[p].key
  IN /\ pc[p] = "writing"
     /\ opkey' = [opkey EXCEPT ![k].written = Size]
     /\ \/ wire' = wire \o [i \in 1..(Size - opkey[k].written) |->
                             buffer[opkey[k].buf]]
        \/ UNCHANGED wire
     /\ Goto(p, "written")
     /\ UNCHANGED <<mutex, lists, buffer, key, caller, job, link, inbox, arrived,
                    results>>

\* The socket takes what is left of the buffer, or a part of it, or fails; a
\* listed operation without a type is reported as an error.
WriteSend(p) ==
  LET k == job[p].key
      o == opkey[k]
  IN /\ pc[p] = "writing"
     /\ \/ /\ o.op \in {SEND, SEND_TO} /\ link = "up"
           /\ \E n \in 1..(Size - o.written) :
                /\ Datagram => n = Size - o.written
                /\ wire' = wire \o [i \in 1..n |-> buffer[o.buf]]
                /\ opkey' = [opkey EXCEPT ![k].written = @ + n]
           /\ UNCHANGED job
        \/ /\ opkey' = [opkey EXCEPT ![k].written = -1,
                            ![k].op = IF @ \in {SEND, SEND_TO} THEN @ ELSE NONE]
           /\ job' = [job EXCEPT ![p].ok = FALSE]
           /\ UNCHANGED wire
     /\ Goto(p, "written")
     /\ UNCHANGED <<mutex, lists, buffer, key, caller, link, inbox, arrived,
                    results>>

\* Finished: the operation key is free again and, on a stream, leaves the
\* list; otherwise the rest waits for the next event.
WriteFinish(p) ==
  LET k == job[p].key
  IN /\ pc[p] = "written"
     /\ \/ /\ ~job[p].ok \/ opkey[k].written = Size \/ Datagram
           /\ opkey' = [opkey EXCEPT ![k].op = NONE]
           /\ IF Datagram THEN UNCHANGED <<lists, evs>>
                          ELSE Erase(k) /\ Unwatch(WriteList, WRITEABLE)
           /\ Unlock(p)
           /\ Goto(p, "writeCall")
           /\ UNCHANGED job
        \/ /\ job[p].ok /\ opkey[k].written # Size /\ ~Datagram
           /\ mutex' = NoThread
           /\ job' = [job EXCEPT ![p] = NoJob]
           /\ Goto(p, "idle")
           /\ UNCHANGED <<lists, opkey, evs>>
     /\ UNCHANGED <<buffer, connecting, closing, use, caller, net, results>>

\* on_write_complete, with the byte count as it is now.
WriteCallback(p) ==
  /\ pc[p] = "writeCall"
  /\ reports' = IF closing THEN reports
                ELSE [reports EXCEPT ![job[p].msg] =
                        Append(@, opkey[job[p].key].written)]
  /\ AfterCallback(p)
  /\ Goto(p, "idle")
  /\ UNCHANGED <<lists, ops, key, caller, net, answer, received, dropped>>

topque_dispatch_write_event(p) ==
  \/ /\ pc[p] = WRITEABLE /\ mutex = NoThread
     /\ \/ (closing \/ (~connecting /\ Empty(WriteList))) /\ Leave(p)
        \/ ~closing /\ connecting /\ ConnectDone(p)
        \/ WriteBegin(p)
  \/ WriteSend(p) \/ WriteFinish(p) \/ WriteCallback(p) \/ ConnectCallback(p)

(* Mutant: the operation stays in the list.                                *)
ReadBeginListed(p, h) ==
  /\ ~closing /\ ~Empty(h) /\ inbox # <<>>
  /\ inbox' = Tail(inbox)
  /\ job' = [job EXCEPT ![p] = [NoJob EXCEPT !.key = next[h],
                                           !.value = Head(inbox)]]
  /\ Unlock(p)
  /\ Goto(p, "readCall")
  /\ UNCHANGED <<lists, ops, key, caller, link, arrived, wire, results>>

\* The first operation of a read or accept list leaves it and is done with
\* what the socket gives, or with an error.
ReadBegin(p, h) ==
  LET k == next[h]
  IN /\ ~closing /\ ~Empty(h)
     /\ Erase(k) /\ Unwatch(h, READABLE)
     /\ opkey' = [opkey EXCEPT ![k].op = NONE]
     /\ \/ /\ inbox # <<>>
           /\ inbox' = Tail(inbox)
           /\ job' = [job EXCEPT ![p] = [NoJob EXCEPT !.key = k,
                                                    !.value = Head(inbox)]]
        \/ /\ job' = [job EXCEPT ![p] = [NoJob EXCEPT !.key = k, !.value = -1]]
           /\ UNCHANGED inbox
     /\ Unlock(p)
     /\ Goto(p, "readCall")
     /\ UNCHANGED <<buffer, connecting, closing, use, caller, link, arrived, wire,
                    results>>

\* The receiver of the operation key is told, and goes on.
Told(k, value, t) ==
  LET rs == { r \in Receivers : ReadKey[r] = k }
  IN /\ received' = [r \in Receivers |-> IF r \in rs /\ value > 0
                                         THEN Append(received[r], value)
                                         ELSE received[r]]
     /\ pc' = [u \in DOMAIN pc |-> IF u = t \/ u \in rs THEN "idle" ELSE pc[u]]

\* on_read_complete or on_accept_complete.
ReadCallback(p) ==
  /\ pc[p] = "readCall"
  /\ IF closing THEN Goto(p, "idle") /\ UNCHANGED received
                ELSE Told(job[p].key, job[p].value, p)
  /\ AfterCallback(p)
  /\ UNCHANGED <<lists, ops, key, caller, net, answer, reports, dropped>>

topque_dispatch_read_event(p) ==
  \/ /\ pc[p] = READABLE /\ mutex = NoThread
     /\ \/ ReadBegin(p, AcceptList)
        \/ Empty(AcceptList) /\ ReadBegin(p, ReadList)
        \/ (closing \/ (Empty(AcceptList) /\ Empty(ReadList))) /\ Leave(p)
  \/ ReadCallback(p)

topque_dispatch_exception_event(p) ==
  /\ pc[p] = EXCEPTION /\ mutex = NoThread
  /\ \/ (~connecting \/ closing) /\ Leave(p)
     \/ connecting /\ ~closing /\ ConnectDone(p)

PollerStep(p) ==
  \/ topque_dispatch_write_event(p)
  \/ topque_dispatch_read_event(p)
  \/ topque_dispatch_exception_event(p)

-----------------------------------------------------------------------------
(* The application's other calls.                                          *)

\* The socket connects at once, fails, or is connecting: then the key is
\* marked, in a second step, under the mutex.
top_ioqueue_connect ==
  \/ /\ use.connects /\ pc[App] = "idle" /\ link = "new" /\ ~closing /\ ~connecting
     /\ \E status \in {"up", "down", "connecting"} :
          /\ link' = status
          /\ Goto(App, IF status = "connecting" THEN "connectQueue" ELSE "idle")
     /\ UNCHANGED <<mutex, lists, ops, key, caller, job, inbox, arrived, wire,
                    results>>
  \/ /\ pc[App] = "connectQueue" /\ mutex = NoThread
     /\ IF closing THEN UNCHANGED <<connecting, evs>>
                   ELSE /\ connecting' = TRUE
                        /\ evs' = evs \cup {WRITEABLE, EXCEPTION}
     /\ Goto(App, "idle")
     /\ UNCHANGED <<mutex, lists, ops, closing, use, caller, job, net, results>>

(* Mutant: the operation is left in its list.                              *)
PostListed(k) ==
  /\ pc[App] = "idle" /\ mutex = NoThread
  /\ k \in Listed(WriteList)
  /\ job' = [job EXCEPT ![App] =
                [NoJob EXCEPT !.key = k, !.value = -1, !.msg = opkey[k].msg]]
  /\ Goto(App, "postCall")
  /\ UNCHANGED <<mutex, lists, ops, key, caller, net, results>>

\* An operation that is still listed is taken out; its callback is called
\* without the mutex, whatever the concurrency setting and the key's state.
top_ioqueue_post_completion(k) ==
  /\ pc[App] = "idle" /\ mutex = NoThread
  /\ \E h \in Heads :
       /\ k \in Listed(h)
       /\ job' = [job EXCEPT ![App] =
                    [NoJob EXCEPT !.key = k, !.value = -1,
                       !.msg = IF h = WriteList THEN opkey[k].msg ELSE Null]]
  /\ Erase(k)
  /\ opkey' = [opkey EXCEPT ![k].op = NONE]
  /\ Goto(App, "postCall")
  /\ UNCHANGED <<mutex, buffer, key, caller, net, results>>

PostCallback ==
  /\ pc[App] = "postCall"
  /\ IF job[App].msg = Null
       THEN Told(job[App].key, job[App].value, App) /\ UNCHANGED reports
       ELSE /\ reports' = [reports EXCEPT ![job[App].msg] =
                             Append(@, job[App].value)]
            /\ Goto(App, "idle")
            /\ UNCHANGED received
  /\ job' = [job EXCEPT ![App] = NoJob]
  /\ UNCHANGED <<mutex, lists, ops, key, caller, net, answer, dropped>>

\* memset: the links of the node are cleared too, listed or not.
top_ioqueue_op_key_init(k) ==
  /\ k \in use.reinit
  /\ next' = [next EXCEPT ![k] = Null]
  /\ prev' = [prev EXCEPT ![k] = Null]
  /\ opkey' = [opkey EXCEPT ![k].op = NONE, ![k].written = 0]
  /\ UNCHANGED <<mutex, buffer, key, pc, caller, job, net, results>>

(* Mutant: nobody looks, as talkBackOpen and talkBackClose with the key    *)
(* they share with all senders.                                            *)
NoCare(k) == TRUE

\* The application's side of it: a careful one initialises no key that holds
\* an operation or is in the hands of a dispatch function.
Care(k) ==
  use.careful => /\ ~top_ioqueue_is_pending(k)
                 /\ \A t \in Pollers \cup {App} : job[t].key # k

top_ioqueue_lock_key ==
  /\ pc[App] = "idle" /\ mutex = NoThread
  /\ mutex' = App
  /\ Goto(App, "locked")
  /\ UNCHANGED <<lists, ops, key, caller, job, net, results>>

top_ioqueue_unlock_key ==
  /\ pc[App] = "locked"
  /\ mutex' = NoThread
  /\ Goto(App, "idle")
  /\ UNCHANGED <<lists, ops, key, caller, job, net, results>>

\* The library's unregister: the key leaves the poll set, the socket closes.
Unregister ==
  /\ ~closing /\ mutex = NoThread
  /\ closing' = TRUE
  /\ evs' = {}
  /\ UNCHANGED <<use, mutex, lists, ops, connecting, pc, caller, job, net, results>>

\* The network, as far as somebody reads.
Arrive ==
  /\ arrived < MaxArrivals /\ use.active \cap Receivers # {}
  /\ arrived' = arrived + 1
  /\ inbox' = Append(inbox, arrived + 1)
  /\ UNCHANGED <<mutex, lists, ops, key, pc, caller, job, link, wire, results>>

Established ==
  /\ link = "connecting"
  /\ link' \in {"up", "down"}
  /\ UNCHANGED <<mutex, lists, ops, key, pc, caller, job, inbox, arrived, wire,
                 results>>

-----------------------------------------------------------------------------
\* topque_init_key: the lists are empty, the key waits for nothing.
Init ==
  /\ use \in Uses
  /\ mutex = NoThread
  /\ next = [n \in Nodes |-> n] /\ prev = [n \in Nodes |-> n]
  /\ opkey = [k \in OpKeys |-> [op |-> NONE, buf |-> Null, written |-> 0,
                                msg |-> Null]]
  /\ buffer = [b \in Buffers |-> Null]
  /\ evs = {} /\ connecting = FALSE /\ closing = FALSE
  /\ pc = [t \in Threads \ {NoThread} |-> "idle"]
  /\ retry = [s \in Senders |-> 0] /\ sending = [s \in Senders |-> 1]
  /\ job = [t \in Pollers \cup {App} |-> NoJob]
  /\ link = IF use.connects THEN "new" ELSE "up"
  /\ inbox = <<>> /\ arrived = 0 /\ wire = <<>>
  /\ answer = [m \in Msgs |-> "none"]
  /\ reports = [m \in Msgs |-> <<>>]
  /\ received = [r \in Receivers |-> <<>>] /\ dropped = {}

AppStep ==
  \/ top_ioqueue_connect
  \/ \E k \in OpKeys : top_ioqueue_post_completion(k)
  \/ PostCallback
  \/ \E k \in OpKeys : Care(k) /\ top_ioqueue_op_key_init(k)
  \/ top_ioqueue_lock_key
  \/ top_ioqueue_unlock_key

Next ==
  \/ \E s \in Senders : top_ioqueue_send(s) \/ top_ioqueue_sendto(s)
  \/ \E r \in Receivers :
       top_ioqueue_recv(r) \/ top_ioqueue_recvfrom(r) \/ top_ioqueue_accept(r)
  \/ \E p \in Pollers, e \in {READABLE, WRITEABLE, EXCEPTION} : Poll(p, e)
  \/ \E p \in Pollers : PollerStep(p)
  \/ AppStep
  \/ Unregister
  \/ Arrive
  \/ Established

Spec == Init /\ [][Next]_vars

(***************************************************************************)
(* Fairness: a thread that polls keeps polling and gets every event of the *)
(* socket again while it is ready (epoll is level triggered); a thread     *)
(* that wants the mutex gets it in the end, and whoever holds it lets it   *)
(* go; the kernel gives up or completes every connect.  Nothing is assumed *)
(* of senders, receivers and peers.                                        *)
(***************************************************************************)
FairSpec ==
  /\ Spec
  /\ \A p \in Pollers : SF_vars(PollerStep(p))
  /\ \A p \in Pollers, e \in {READABLE, WRITEABLE, EXCEPTION} :
       SF_vars(Poll(p, e))
  /\ WF_vars(top_ioqueue_unlock_key \/ PostCallback) /\ WF_vars(Established)

-----------------------------------------------------------------------------
(* Properties.                                                             *)

\* Where a thread can be.
Place == {"idle", "speculate", "direct", "spin", "fill", "queue", "waiting",
          "stopped", READABLE, WRITEABLE, EXCEPTION, "writing", "written",
          "writeCall", "readCall", "connectCall", "connectQueue", "locked",
          "postCall"}

\* The types of the variables.
TypeOK ==
  /\ use \in Uses
  /\ mutex \in Threads
  /\ next \in [Nodes -> Nodes \cup {Null}] /\ prev \in [Nodes -> Nodes \cup {Null}]
  /\ opkey \in [OpKeys -> [op : Ops, buf : Buffers \cup {Null},
                           written : -1..Size, msg : Msgs \cup {Null}]]
  /\ buffer \in [Buffers -> Msgs \cup {Null}]
  /\ evs \subseteq {READABLE, WRITEABLE, EXCEPTION}
  /\ connecting \in BOOLEAN /\ closing \in BOOLEAN
  /\ pc \in [Threads \ {NoThread} -> Place]
  /\ retry \in [Senders -> 0..PENDING_RETRY]
  /\ sending \in [Senders -> 1..(MaxMessages + 1)]
  /\ job \in [Pollers \cup {App} -> Job]
  /\ link \in {"new", "connecting", "up", "down"}
  /\ inbox \in Seq(1..MaxArrivals) /\ arrived \in 0..MaxArrivals
  /\ wire \in Seq(Msgs)
  /\ answer \in [Msgs -> {"none", "sent", "error", "busy", "cancelled", "pending"}]
  /\ reports \in [Msgs -> Seq(Int)]
  /\ received \in [Receivers -> Seq(1..MaxArrivals)]
  /\ dropped \subseteq 1..MaxArrivals

\* The key waits for the event of every operation that is pending on it.  The
\* bits are cleared by the dispatch functions and set by the submissions, and
\* an operation whose bit is missing is never completed
\* (ioqueue_add_to_set, ioqueue_remove_from_set).  Not so the sends of an
\* application that does not wait for its connect: the end of the connect
\* clears the bit they share with it (line 186).
PendingWatched ==
  ~closing =>
    /\ ~(Empty(ReadList) /\ Empty(AcceptList)) => READABLE \in evs
    /\ connecting => WRITEABLE \in evs
    /\ ~Empty(WriteList) /\ ~use.eager => WRITEABLE \in evs
    /\ connecting => EXCEPTION \in evs

\* k is a node of a list: its neighbours know it and it holds an operation.
Linked(k) ==
  /\ next[k] \in Nodes \ {k} /\ prev[k] \in Nodes \ {k}
  /\ prev[next[k]] = k /\ next[prev[k]] = k
  /\ top_ioqueue_is_pending(k)

\* The pending lists are rings of operation keys that hold an operation: no
\* key is inserted twice, cleared while it is listed or filled again before
\* it has left its list (top_list_insert_before, top_list_erase).
ListsLinked ==
  \A h \in Heads :
    /\ prev[next[h]] = h /\ next[prev[h]] = h
    /\ \A k \in Listed(h) : Linked(k)

\* The callback of a send is called at most once, and only if the call
\* returned TOP_EPENDING, although a dispatch function and a cancel may both
\* be after the operation (topque_dispatch_write_event,
\* top_ioqueue_post_completion).
CompletedOnce ==
  \A m \in Msgs : /\ Len(reports[m]) <= 1
                  /\ reports[m] # <<>> => answer[m] = "pending"

Bytes(m) == Cardinality({ i \in DOMAIN wire : wire[i] = m })

\* A byte count given to on_write_complete is what left of the message, as
\* long as a sender waits for its completions: it is read from the operation
\* key after the key was released, line 352, and a sender that does not wait
\* may have filled it again.
ReportedTrue ==
  Patient => \A m \in Msgs : \A i \in DOMAIN reports[m] :
               reports[m][i] >= 0 => reports[m][i] = Bytes(m)

\* No byte of a message leaves twice: an operation is sent by the fast track
\* or from the list, and what it sends is the message it was given, also if
\* its sender uses the memory again after the completion (io_queue.h:740: the
\* buffer remains valid until the write operation completes).
SentOnce == \A m \in Msgs : Bytes(m) <= Size

\* The messages of a sender leave in the order he sent them; on a datagram
\* socket only if he waits for completions, as an operation is taken off the
\* list before it is sent (line 273) and the next call then sends directly.
InOrder ==
  Patient \/ ~Datagram =>
    \A i, j \in DOMAIN wire :
      i < j /\ wire[i][1] = wire[j][1] => wire[i][2] <= wire[j][2]

InCallback(t) ==
  pc[t] \in {"writeCall", "readCall", "connectCall", "postCall"}

\* A receiver gets what arrived in the order it arrived, although several
\* threads poll.
ReadsInOrder ==
  \A r \in Receivers : \A i, j \in DOMAIN received[r] :
    i < j => received[r][i] < received[r][j]

\* While the key is registered everything that arrived is in one place: it
\* waits in the socket, is on its way to a callback, or has been given to one
\* receiver; nothing is lost but a connection that accept has closed because
\* it could not read its address (lines 1036-1041).
NothingLost ==
  /\ closing \/ \A d \in 1..arrived :
       Cardinality({ i \in DOMAIN inbox : inbox[i] = d })
         + Cardinality({ p \in Pollers : job[p].value = d })
         + Cardinality({ r \in Receivers :
                           \E i \in DOMAIN received[r] : received[r][i] = d })
         + Cardinality({d} \cap dropped) = 1
  /\ use.calls # ACCEPT => dropped = {}

\* With concurrency disabled, whoever holds the key's lock keeps the
\* dispatch functions out of its callbacks (top_ioqueue_lock_key).
LockExcludes ==
  mutex = App => \A p \in Pollers : ~InCallback(p) \/ AllowConcurrent

\* No event is added to the poll set for a key that has been unregistered,
\* whatever the submitting threads had checked before (the second checks of
\* the closing flag).
NoWatchAfterClose == [][closing => evs' \subseteq evs]_vars

\* A receiver that waits is told of what arrives.
ReaderTold ==
  \A r \in Receivers :
    pc[r] = "waiting" /\ inbox # <<>> ~> pc[r] # "waiting" \/ closing

\* What AsyncOps calls the state of an operation.
Async == INSTANCE AsyncOps WITH
  Operations <- Msgs,
  state <- [m \in Msgs |-> CASE answer[m] = "none" -> "new"
                            [] answer[m] = "pending" -> "pending"
                            [] OTHER -> "returned"],
  reported <- [m \in Msgs |-> Len(reports[m])],
  closed <- closing

\* The sends of a key implement AsyncOps: one that returned TOP_EPENDING is
\* reported to its callback, once, as long as the key stays registered; the
\* application sends when it knows the outcome of its connect, for the end of
\* a connect clears the event also of a send that is pending (line 186).
Proactor == Async!FairSpec

=============================================================================
