---------------------------- MODULE MCIoQueueKey ----------------------------
(* Instances of IoQueueKey for TLC.                                        *)
EXTENDS IoQueueKey, TLC

CONSTANTS s1, s2,   \* senders
          r1, r2,   \* receivers
          p1, p2,   \* pollers
          k1, k2    \* operation keys

TwoSenders == {s1, s2}
TwoReceivers == {r1, r2}
OneReceiver == {r1}
OnePoller == {p1}
TwoPollers == {p1, p2}
Keys == {k1, k2}

(* A key for each sender, for each message, or one for all senders.        *)
KeyPerSender == [m \in Msgs |-> IF m[1] = s1 THEN k1 ELSE k2]
KeyPerMessage == [m \in Msgs |-> IF m[2] = 1 THEN k1 ELSE k2]
SharedKey == [m \in Msgs |-> k1]

(* Memory of its own for each message, or the same for all of a sender.    *)
OwnBuffer == [m \in Msgs |-> m]
SenderBuffer == [m \in Msgs |-> <<m[1], 1>>]

(* Senders of datagrams that wait for each completion, on one frame.       *)
PatientUse ==
  [active |-> Senders, keyOf |-> KeyPerSender, bufferOf |-> SenderBuffer,
   readKey |-> [r \in Receivers |-> IF r = r1 THEN k1 ELSE k2],
   calls |-> "recvfrom", async |-> {}, datagram |-> TRUE, concurrent |-> TRUE,
   patient |-> TRUE, connects |-> FALSE, eager |-> FALSE, reinit |-> {},
   careful |-> TRUE]

(* Senders of datagrams that go on at once; a key is initialised again.    *)
HastyUse == [PatientUse EXCEPT !.bufferOf = OwnBuffer, !.patient = FALSE,
                               !.reinit = {k1}]

(* One sender on a stream that is being connected, with two keys.          *)
StreamUse == [HastyUse EXCEPT !.active = {s1}, !.keyOf = KeyPerMessage,
                              !.datagram = FALSE, !.connects = TRUE,
                              !.reinit = {}]

(* The same, sending while the connect is still going on.                  *)
EagerUse == [StreamUse EXCEPT !.eager = TRUE]

(* Two receivers on a datagram socket or a stream, one of them always      *)
(* asynchronous, or two that accept.                                       *)
DatagramReads == [PatientUse EXCEPT !.active = Receivers, !.async = {r1}]
StreamReads == [DatagramReads EXCEPT !.calls = "recv", !.datagram = FALSE]
AcceptUse == [StreamReads EXCEPT !.calls = ACCEPT, !.async = {}]

(* A key without concurrency: a sender, a receiver, and the lock.          *)
SerialUse == [PatientUse EXCEPT !.active = {s2, r1}, !.concurrent = FALSE]

(* The threads of the MDU: one operation key, messages on their stacks.    *)
MduUse == [PatientUse EXCEPT !.keyOf = SharedKey]

SafeUses == {PatientUse, HastyUse, StreamUse, EagerUse, DatagramReads,
             StreamReads, AcceptUse, SerialUse}
LiveUses == {[PatientUse EXCEPT !.active = {s2, r1}], StreamUse}
MduUses == {MduUse}

Symmetry == Permutations(Pollers)
=============================================================================
