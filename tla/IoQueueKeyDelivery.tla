------------------------ MODULE IoQueueKeyDelivery ------------------------
(***************************************************************************)
(* Proofs of what IoQueueKey gives the application: the outcome of every   *)
(* send as AsyncOps promises it, and what arrives, once and in order.      *)
(***************************************************************************)
EXTENDS IoQueueKeyProofs

-----------------------------------------------------------------------------
(* The sends implement AsyncOps. *)

\* The state of an operation, by what its call returned.
StateOf(a) == CASE a = "none" -> "new" [] a = "pending" -> "pending" [] OTHER -> "returned"

LEMMA States ==
  /\ StateOf("none") = "new" /\ StateOf("pending") = "pending"
  /\ \A a \in {"sent", "error", "busy", "cancelled"} : StateOf(a) = "returned"
BY DEF StateOf

AsyncState == [m \in Msgs |-> StateOf(answer[m])]
AsyncReported == [m \in Msgs |-> Len(reports[m])]

\* The steps of AsyncOps in the variables of IoQueueKey.
Submits(m) ==
  /\ AsyncState[m] = "new"
  /\ \/ AsyncState' = [AsyncState EXCEPT ![m] = "returned"]
     \/ ~closing /\ AsyncState' = [AsyncState EXCEPT ![m] = "pending"]
  /\ AsyncReported' = AsyncReported /\ closing' = closing

Completes(m) ==
  /\ AsyncState[m] = "pending" /\ AsyncReported[m] = 0
  /\ AsyncReported' = [AsyncReported EXCEPT ![m] = 1]
  /\ AsyncState' = AsyncState /\ closing' = closing

Closes ==
  /\ ~closing /\ closing'
  /\ AsyncState' = AsyncState /\ AsyncReported' = AsyncReported

Stutters ==
  AsyncState' = AsyncState /\ AsyncReported' = AsyncReported /\ closing' = closing

LEMMA SameResults ==
  ASSUME UNCHANGED <<answer, reports, closing>>
  PROVE  Stutters
BY DEF Stutters, AsyncState, AsyncReported

(* What the call of a sender returns. *)
LEMMA SenderReturns ==
  ASSUME NEW s, NEW op, SendStep(s, op)
  PROVE  \/ answer' = answer
         \/ /\ pc[s] # "idle" \/ (s \in use.active /\ sending[s] <= MaxMessages)
            /\ \E a \in {"sent", "error", "busy", "cancelled", "pending"} :
                 /\ a = "pending" => ~closing
                 /\ answer' = [answer EXCEPT ![Current(s)] = a]
<1>. DEFINE Ret == \E a \in {"sent", "error", "busy", "cancelled", "pending"} :
                     /\ a = "pending" => ~closing
                     /\ answer' = [answer EXCEPT ![Current(s)] = a]
<1>1. CASE SendCheck(s)
  <2>1. s \in use.active /\ sending[s] <= MaxMessages /\ (answer' = answer \/ Ret)
    BY <1>1 DEF SendCheck, Return
  <2>. QED  BY <2>1
<1>2. CASE SendSpeculate(s) \/ SendSeesFree(s) \/ SendFill(s, op)
  BY <1>2 DEF SendSpeculate, SendSeesFree, SendFill, results
<1>3. CASE SendDirect(s)
  <2>1. pc[s] # "idle" /\ (answer' = answer \/ Ret)
    BY <1>3 DEF SendDirect, Return
  <2>. QED  BY <2>1
<1>4. CASE SendSpin(s)
  <2>1. pc[s] # "idle" /\ (answer' = answer \/ Ret)
    BY <1>4 DEF SendSpin, Return
  <2>. QED  BY <2>1
<1>5. CASE SendQueue(s)
  <2>1. pc[s] # "idle" /\ (answer' = answer \/ Ret)
    BY <1>5 DEF SendQueue, Return
  <2>. QED  BY <2>1
<1>. QED  BY <1>1, <1>2, <1>3, <1>4, <1>5 DEF SendStep

LEMMA SenderSubmits ==
  ASSUME KeyInv, NEW s \in Senders, NEW op, SendStep(s, op)
  PROVE  Stutters \/ \E m \in Msgs : Submits(m)
<1>1. UNCHANGED <<reports, closing>>
  BY SenderFrame
<1>2. CASE answer' = answer
  BY <1>1, <1>2, SameResults
<1>3. CASE answer' # answer
  <2>1. s \in use.active /\ sending[s] <= MaxMessages
    BY <1>3, SenderReturns DEF KeyInv, Base, Places
  <2>2. Current(s) \in Msgs /\ answer[Current(s)] = "none"
    <3>1. Current(s) \in Msgs /\ Current(s)[1] = s /\ Current(s)[2] = sending[s]
      BY <2>1, CurrentFacts DEF KeyInv
    <3>2. sending[s] \in Int
      BY DEF KeyInv, Base, TypeOK
    <3>. QED  BY <3>1, <3>2 DEF KeyInv, Fresh
  <2>3. PICK a \in {"sent", "error", "busy", "cancelled", "pending"} :
          /\ a = "pending" => ~closing
          /\ answer' = [answer EXCEPT ![Current(s)] = a]
    BY <1>3, SenderReturns
  <2>4. answer \in [Msgs -> Answer]
    BY DEF KeyInv, Base, TypeOK, Answer
  <2>5. AsyncState' = [AsyncState EXCEPT ![Current(s)] = StateOf(a)]
    BY <2>2, <2>3, <2>4 DEF AsyncState
  <2>6. AsyncState[Current(s)] = "new"
    BY <2>2, States DEF AsyncState
  <2>7. AsyncReported' = AsyncReported
    BY <1>1 DEF AsyncReported
  <2>8. StateOf(a) = "returned" \/ (~closing /\ StateOf(a) = "pending")
    BY <2>3, States
  <2>9. Submits(Current(s))
    BY <1>1, <2>5, <2>6, <2>7, <2>8 DEF Submits
  <2>. QED  BY <2>2, <2>9
<1>. QED  BY <1>2, <1>3

(* What a callback reports. *)
LEMMA ReportCompletes ==
  ASSUME KeyInv, NEW t \in Workers, job[t].msg # Null, NEW v,
         reports' = [reports EXCEPT ![job[t].msg] = Append(@, v)],
         UNCHANGED <<answer, closing>>
  PROVE  \E m \in Msgs : Completes(m)
<1>. DEFINE m == job[t].msg
<1>1. m \in Msgs /\ answer[m] = "pending" /\ reports[m] = <<>>
  BY UseFacts DEF KeyInv, SendJobs, Awaited, Workers
<1>2. reports \in [Msgs -> Seq(Int)]
  BY DEF KeyInv, Base, TypeOK
<1>. HIDE DEF m
<1>3. reports' = [reports EXCEPT ![m] = Append(<<>>, v)]
  BY <1>1 DEF m
<1>4. Len(Append(<<>>, v)) = 1 /\ Len(<<>>) = 0
  OBVIOUS
<1>5. AsyncReported' = [AsyncReported EXCEPT ![m] = 1]
  <2>1. ASSUME NEW n \in Msgs
        PROVE  Len(reports'[n]) = IF n = m THEN 1 ELSE Len(reports[n])
    BY <1>1, <1>2, <1>3, <1>4
  <2>2. AsyncReported' = [n \in Msgs |-> IF n = m THEN 1 ELSE Len(reports[n])]
    BY <2>1 DEF AsyncReported
  <2>. QED  BY <2>2 DEF AsyncReported
<1>6. AsyncState[m] = "pending" /\ AsyncReported[m] = 0
  BY <1>1, <1>4, States DEF AsyncState, AsyncReported
<1>7. AsyncState' = AsyncState
  BY DEF AsyncState
<1>. QED  BY <1>1, <1>5, <1>6, <1>7 DEF Completes

LEMMA WorkerCompletes ==
  ASSUME KeyInv, WorkStep
  PROVE  Stutters \/ Closes \/ \E m \in Msgs : Completes(m)
<1>1. answer' = answer
  BY WorkFrame DEF WorkerFrame
<1>2. App \in Workers /\ \A p \in Pollers : p \in Workers
  BY DEF Workers
<1>3. ASSUME NEW p \in Pollers, NEW e, Poll(p, e)
      PROVE  UNCHANGED <<reports, closing>>
  BY <1>3 DEF Poll, key, results
<1>4. ASSUME NEW p \in Pollers, PollerStep(p)
      PROVE  /\ closing' = closing
             /\ reports' = reports \/ WriteCallback(p)
  BY <1>4, PollerCases DEF Leave, ConnectDone, WriteBegin, ReadBegin, WriteSend,
     WriteFinish, WriteCallback, ConnectCallback, ReadCallback, key, results
<1>5. ASSUME NEW p \in Pollers, WriteCallback(p)
      PROVE  Stutters \/ \E m \in Msgs : Completes(m)
  <2>1. job[p].msg # Null /\ closing' = closing
    BY <1>2, <1>5 DEF WriteCallback, KeyInv, Hands, Workers, key
  <2>2. CASE closing
    BY <1>1, <1>5, <2>1, <2>2, SameResults DEF WriteCallback
  <2>3. CASE ~closing
    <3>1. PICK v : reports' = [reports EXCEPT ![job[p].msg] = Append(@, v)]
      BY <1>5, <2>3 DEF WriteCallback
    <3>. QED  BY <1>1, <1>2, <2>1, <3>1, ReportCompletes
  <2>. QED  BY <2>2, <2>3
<1>6. ASSUME AppStep
      PROVE  closing' = closing /\ (reports' = reports \/ PostCallback)
  BY <1>6 DEF AppStep, top_ioqueue_connect, top_ioqueue_post_completion, PostCallback,
     top_ioqueue_op_key_init, top_ioqueue_lock_key, top_ioqueue_unlock_key, key, results
<1>7. ASSUME PostCallback
      PROVE  Stutters \/ \E m \in Msgs : Completes(m)
  <2>1. closing' = closing
    BY <1>7 DEF PostCallback, key
  <2>2. CASE job[App].msg = Null
    BY <1>1, <1>7, <2>1, <2>2, SameResults DEF PostCallback
  <2>3. CASE job[App].msg # Null
    <3>1. PICK v : reports' = [reports EXCEPT ![job[App].msg] = Append(@, v)]
      BY <1>7, <2>3 DEF PostCallback
    <3>. QED  BY <1>1, <1>2, <2>1, <2>3, <3>1, ReportCompletes
  <2>. QED  BY <2>2, <2>3
<1>8. CASE Unregister
  BY <1>1, <1>8 DEF Unregister, Closes, AsyncState, AsyncReported, results
<1>9. CASE Arrive \/ Established \/ UNCHANGED vars
  BY <1>1, <1>9, SameResults DEF Arrive, Established, vars, key, results
<1>. QED
  BY <1>1, <1>3, <1>4, <1>5, <1>6, <1>7, <1>8, <1>9, SameResults DEF WorkStep, Outside

LEMMA StepImplements ==
  ASSUME KeyInv, [Next]_vars
  PROVE  Stutters \/ Closes \/ \E m \in Msgs : Submits(m) \/ Completes(m)
<1>1. CASE \E r \in Receivers : ReceiverStep(r)
  BY <1>1, ReceiverFrame, SameResults
<1>. QED  BY <1>1, StepCases, SenderSubmits, WorkerCompletes

(* Every send is submitted once, reported at most once and only if its     *)
(* call returned TOP_EPENDING, and none is pending once the key is         *)
(* unregistered that was not before: the key implements the safety part of *)
(* AsyncOps, the proactor of io_queue.h.                                   *)
THEOREM SendsImplement ==
  ASSUME ExclusiveUses
  PROVE  Spec => Async!Spec
<1>1. Init => Async!Init
  <2>. SUFFICES ASSUME Init PROVE Async!Init
    OBVIOUS
  <2>1. \A m \in Msgs : answer[m] = "none" /\ Len(reports[m]) = 0
    BY DEF Init
  <2>. QED  BY <2>1 DEF Init, Async!Init
<1>2. KeyInv /\ [Next]_vars => [Async!Next]_(Async!vars)
  <2>. SUFFICES ASSUME KeyInv, [Next]_vars PROVE [Async!Next]_(Async!vars)
    OBVIOUS
  <2>1. CASE Stutters
    BY <2>1 DEF Stutters, AsyncState, AsyncReported, StateOf, Async!vars
  <2>2. CASE Closes
    BY <2>2 DEF Closes, AsyncState, AsyncReported, StateOf, Async!Next, Async!Close
  <2>3. ASSUME NEW m \in Msgs, Submits(m)
        PROVE  Async!Submit(m)
    BY <2>3 DEF Submits, AsyncState, AsyncReported, StateOf, Async!Submit
  <2>4. ASSUME NEW m \in Msgs, Completes(m)
        PROVE  Async!Complete(m)
    BY <2>4 DEF Completes, AsyncState, AsyncReported, StateOf, Async!Complete
  <2>. QED  BY <2>1, <2>2, <2>3, <2>4, StepImplements DEF Async!Next
<1>3. IInv => KeyInv
  BY DEF IInv
<1>. QED  BY <1>1, <1>2, <1>3, KeyInvariant, PTL DEF Spec, Async!Spec

-----------------------------------------------------------------------------
(* What arrives is delivered. *)

\* The last that was taken out of the socket.
Taken == arrived - Len(inbox)

\* What waits in the socket is what arrived last.
InLine ==
  /\ Len(inbox) <= arrived
  /\ \A i \in DOMAIN inbox : inbox[i] = Taken + i

\* Receiver or poller x has d; what accept has closed, no thread has.
Holders == Pollers \cup Receivers \cup {NoThread}
Has(x, d) ==
  IF x \in Receivers THEN \E i \in DOMAIN received[x] : received[x][i] = d
  ELSE IF x = NoThread THEN d \in dropped
  ELSE job[x].value = d

\* What is in a poller's hands is newer than what its receiver has got.
InTurn ==
  /\ job[App].value <= 0
  /\ \A p \in Pollers :
       /\ job[p].value <= Taken
       /\ job[p].value > 0 => pc[p] = "readCall"
  /\ \A r \in Receivers : \A i \in DOMAIN received[r] :
       /\ received[r][i] <= Taken
       /\ \A p \in Pollers : job[p].value > 0 /\ job[p].key = ReadKey[r] =>
            received[r][i] < job[p].value

\* Whatever was taken is in one place.
OnceEach ==
  closing \/ \A d \in 1..Taken :
    \E x \in Holders : \A y \in Holders : Has(y, d) <=> y = x

\* Only accept closes what it has taken.
Refused ==
  /\ \A d \in dropped : d <= Taken
  /\ use.calls # ACCEPT => dropped = {}

Delivery == InLine /\ InTurn /\ ReadsInOrder /\ OnceEach /\ Refused

LEMMA ArrivalTypes ==
  ASSUME KeyInv
  PROVE  /\ inbox \in Seq(1..MaxArrivals) /\ arrived \in Nat /\ Len(inbox) \in Nat
         /\ Taken \in Int /\ DOMAIN inbox = 1..Len(inbox) /\ MaxArrivals \in Nat
         /\ received \in [Receivers -> Seq(1..MaxArrivals)]
         /\ \A p \in Workers : job[p].value \in -1..MaxArrivals
         /\ \A r \in Receivers : /\ DOMAIN received[r] = 1..Len(received[r])
                                 /\ Len(received[r]) \in Nat
         /\ \A r \in Receivers : \A i \in DOMAIN received[r] : received[r][i] \in 1..MaxArrivals
         /\ Pollers \cap Receivers = {} /\ App \notin Pollers \cup Receivers
         /\ App \in Workers /\ Pollers \subseteq Workers
         /\ dropped \subseteq Int /\ NoThread \notin Pollers \cup Receivers
<1>1. /\ inbox \in Seq(1..MaxArrivals) /\ arrived \in 0..MaxArrivals
      /\ received \in [Receivers -> Seq(1..MaxArrivals)]
      /\ \A p \in Workers : job[p].value \in -1..MaxArrivals
      /\ dropped \subseteq 1..MaxArrivals
  BY DEF KeyInv, Base, TypeOK, Places, Workers
<1>2. /\ MaxArrivals \in Nat /\ Pollers \cap Receivers = {} /\ App \notin Pollers \cup Receivers
      /\ NoThread \notin Pollers \cup Receivers
  BY KeyAssumption
<1>3. arrived \in Nat /\ Len(inbox) \in Nat /\ DOMAIN inbox = 1..Len(inbox)
  BY <1>1, <1>2
<1>. QED  BY <1>1, <1>2, <1>3 DEF Taken, Workers

\* A step that takes nothing out of the socket and gives nobody anything.
ReadsNothing ==
  /\ UNCHANGED <<use, inbox, received, dropped>> /\ (closing => closing')
  /\ arrived' = arrived
  /\ job'[App].value <= 0
  /\ \A p \in Pollers :
       \/ job'[p].value <= 0 /\ (job[p].value > 0 => closing')
       \/ job'[p].value = job[p].value /\ job'[p].key = job[p].key /\ pc'[p] = pc[p]

LEMMA NothingKeeps ==
  ASSUME KeyInv, KeyInv', Delivery, ReadsNothing
  PROVE  Delivery'
<1>1. /\ Taken' = Taken /\ ReadKey' = ReadKey /\ received' = received /\ inbox' = inbox
      /\ arrived' = arrived /\ dropped' = dropped /\ use' = use
  BY UseKept DEF ReadsNothing, Taken
<1>2. InLine' /\ ReadsInOrder' /\ Refused'
  BY <1>1 DEF Delivery, InLine, ReadsInOrder, Refused
<1>3. \A p \in Pollers : job[p].value \in Int /\ job'[p].value \in Int
  <2>1. \A p \in Workers : job[p].value \in -1..MaxArrivals /\ job'[p].value \in -1..MaxArrivals
    BY DEF KeyInv, Base, Places, Workers
  <2>. QED  BY <2>1 DEF Workers
<1>4. InTurn'
  <2>1. job'[App].value <= 0
    BY DEF ReadsNothing
  <2>2. ASSUME NEW p \in Pollers
        PROVE  /\ job'[p].value <= Taken'
               /\ job'[p].value > 0 => pc'[p] = "readCall"
    <3>1. Taken >= 0 /\ Taken \in Int
      BY ArrivalTypes DEF Delivery, InLine, Taken
    <3>. QED  BY <1>1, <1>3, <3>1 DEF ReadsNothing, Delivery, InTurn
  <2>3. ASSUME NEW r \in Receivers, NEW i \in DOMAIN received'[r]
        PROVE  /\ received'[r][i] <= Taken'
               /\ \A p \in Pollers : job'[p].value > 0 /\ job'[p].key = ReadKey'[r] =>
                    received'[r][i] < job'[p].value
    BY <1>1, <1>3, <2>3 DEF ReadsNothing, Delivery, InTurn
  <2>. QED  BY <2>1, <2>2, <2>3 DEF InTurn
<1>5. OnceEach'
  <2>. SUFFICES ASSUME ~closing', NEW d \in 1..Taken
                PROVE  \E x \in Holders : \A y \in Holders :
                         Has(y, d)' <=> y = x
    BY <1>1 DEF OnceEach
  <2>1. PICK x \in Holders : \A y \in Holders :
          Has(y, d) <=> y = x
    BY DEF ReadsNothing, Delivery, OnceEach
  <2>2. \A y \in Holders : Has(y, d)' <=> Has(y, d)
    <3>1. d >= 1 /\ d \in Int
      BY ArrivalTypes
    <3>2. \A y \in Pollers : job'[y].value = d <=> job[y].value = d
      BY <1>3, <3>1 DEF ReadsNothing
    <3>. QED  BY <1>1, <3>2 DEF Has, Holders
  <2>. QED  BY <2>1, <2>2
<1>. QED  BY <1>2, <1>4, <1>5 DEF Delivery

LEMMA ArriveKeeps ==
  ASSUME KeyInv, KeyInv', Delivery, Arrive
  PROVE  Delivery'
<1>1. /\ arrived' = arrived + 1 /\ inbox' = Append(inbox, arrived + 1)
      /\ UNCHANGED <<use, job, pc, received, dropped, closing>>
  BY DEF Arrive, key, results
<1>2. /\ Len(inbox') = Len(inbox) + 1 /\ DOMAIN inbox' = 1..(Len(inbox) + 1)
      /\ \A i \in 1..Len(inbox) : inbox'[i] = inbox[i]
      /\ inbox'[Len(inbox) + 1] = arrived + 1
  BY <1>1, ArrivalTypes
<1>3. Taken' = Taken /\ ReadKey' = ReadKey
  BY <1>1, <1>2, ArrivalTypes, UseKept DEF Taken
<1>4. InLine'
  <2>1. Len(inbox') <= arrived'
    BY <1>1, <1>2, ArrivalTypes DEF Delivery, InLine
  <2>2. ASSUME NEW i \in DOMAIN inbox'
        PROVE  inbox'[i] = Taken' + i
    <3>1. CASE i \in 1..Len(inbox)
      BY <1>2, <1>3, <3>1, ArrivalTypes DEF Delivery, InLine
    <3>2. CASE i = Len(inbox) + 1
      BY <1>2, <1>3, <3>2, ArrivalTypes DEF Taken
    <3>. QED  BY <1>2, <3>1, <3>2, ArrivalTypes
  <2>. QED  BY <2>1, <2>2 DEF InLine
<1>5. InTurn' /\ ReadsInOrder' /\ Refused'
  BY <1>1, <1>3 DEF Delivery, InTurn, ReadsInOrder, Refused
<1>6. OnceEach'
  <2>1. \A d, y : Has(y, d)' <=> Has(y, d)
    BY <1>1 DEF Has
  <2>. QED  BY <1>1, <1>3, <2>1 DEF Delivery, OnceEach
<1>. QED  BY <1>4, <1>5, <1>6 DEF Delivery

(* The first of what waits is taken. *)
LEMMA HeadTaken ==
  ASSUME KeyInv, Delivery, inbox # <<>>, inbox' = Tail(inbox), arrived' = arrived
  PROVE  /\ InLine' /\ Taken' = Taken + 1 /\ Head(inbox) = Taken + 1
         /\ Taken \in Nat
<1>1. /\ Len(inbox) >= 1 /\ Len(inbox') = Len(inbox) - 1 /\ Head(inbox) = inbox[1]
      /\ DOMAIN inbox' = 1..(Len(inbox) - 1)
      /\ \A i \in 1..(Len(inbox) - 1) : inbox'[i] = inbox[i + 1]
  BY ArrivalTypes
<1>2. Taken' = Taken + 1 /\ Head(inbox) = Taken + 1 /\ Taken \in Nat
  BY <1>1, ArrivalTypes DEF Taken, Delivery, InLine
<1>3. Len(inbox') <= arrived'
  BY <1>1, ArrivalTypes DEF Delivery, InLine
<1>4. ASSUME NEW i \in DOMAIN inbox'
      PROVE  inbox'[i] = Taken' + i
  <2>1. i + 1 \in DOMAIN inbox /\ inbox'[i] = inbox[i + 1] /\ i \in Int
    BY <1>1, ArrivalTypes
  <2>. QED  BY <1>2, <2>1 DEF Delivery, InLine
<1>. QED  BY <1>2, <1>3, <1>4 DEF InLine

(* A receiver gets one more. *)
GetsNext(r, v) ==
  \A q \in Receivers :
    /\ \A i \in DOMAIN received'[q] :
         \/ i \in DOMAIN received[q] /\ received'[q][i] = received[q][i]
         \/ q = r /\ received'[q][i] = v
    /\ \A d : (\E i \in DOMAIN received'[q] : received'[q][i] = d)
         <=> \/ \E i \in DOMAIN received[q] : received[q][i] = d
             \/ q = r /\ d = v

LEMMA GetsOneMore ==
  ASSUME KeyInv, Delivery, NEW r \in Receivers, NEW v \in Nat,
         received' = [received EXCEPT ![r] = Append(received[r], v)],
         \A i \in DOMAIN received[r] : received[r][i] < v
  PROVE  ReadsInOrder' /\ GetsNext(r, v)
<1>. DEFINE n == Len(received[r])
<1>1. /\ received'[r] = Append(received[r], v)
      /\ \A q \in Receivers : q # r => received'[q] = received[q]
  BY ArrivalTypes
<1>2. /\ n \in Nat /\ DOMAIN received[r] = 1..n
      /\ DOMAIN received'[r] = 1..(n + 1) /\ received'[r][n + 1] = v
      /\ \A i \in 1..n : received'[r][i] = received[r][i]
  BY <1>1, ArrivalTypes
<1>. HIDE DEF n
<1>3. ASSUME NEW q \in Receivers, NEW i \in DOMAIN received'[q]
      PROVE  \/ i \in DOMAIN received[q] /\ received'[q][i] = received[q][i]
             \/ q = r /\ received'[q][i] = v
  BY <1>1, <1>2
<1>4. ASSUME NEW q \in Receivers, NEW d
      PROVE  (\E i \in DOMAIN received'[q] : received'[q][i] = d)
              <=> \/ \E i \in DOMAIN received[q] : received[q][i] = d
                  \/ q = r /\ d = v
  <2>1. n + 1 \in 1..(n + 1) /\ \A i \in 1..n : i \in 1..(n + 1)
    BY <1>2
  <2>. QED  BY <1>1, <1>2, <1>3, <2>1
<1>5. ASSUME NEW q \in Receivers, NEW i \in DOMAIN received'[q],
             NEW j \in DOMAIN received'[q], i < j
      PROVE  received'[q][i] < received'[q][j]
  <2>1. CASE q # r
    BY <1>1, <1>5, <2>1 DEF Delivery, ReadsInOrder
  <2>2. CASE q = r
    <3>1. i \in 1..n /\ (j \in 1..n \/ j = n + 1)
      BY <1>2, <1>5, <2>2
    <3>. QED  BY <1>2, <1>5, <2>2, <3>1 DEF Delivery, ReadsInOrder
  <2>. QED  BY <2>1, <2>2
<1>. QED  BY <1>3, <1>4, <1>5 DEF ReadsInOrder, GetsNext

(* A receiver takes what waits. *)
LEMMA TakeKeeps ==
  ASSUME KeyInv, Delivery, NEW r \in Receivers, pc[r] = "direct", Take(r),
         UNCHANGED <<use, closing, job, arrived, dropped>>,
         \A p \in Pollers : pc'[p] = pc[p]
  PROVE  Delivery'
<1>. DEFINE v == Head(inbox)
<1>1. /\ inbox # <<>> /\ inbox' = Tail(inbox) /\ ~closing
      /\ received' = [received EXCEPT ![r] = Append(received[r], v)]
  BY DEF Take
<1>2. InLine' /\ Taken' = Taken + 1 /\ v = Taken + 1 /\ Taken \in Nat /\ v \in Nat
  BY <1>1, HeadTaken
<1>. HIDE DEF v
<1>3. \A i \in DOMAIN received[r] : received[r][i] < v
  BY <1>2, ArrivalTypes DEF Delivery, InTurn
<1>4. ReadsInOrder' /\ GetsNext(r, v)
  BY <1>1, <1>2, <1>3, GetsOneMore
<1>5. ReadKey' = ReadKey /\ \A p \in Pollers : job[p].key # ReadKey[r]
  <2>1. r \in use.active
    BY DEF KeyInv, Base, Places
  <2>. QED  BY <2>1, KeyOfReceiver, UseKept
<1>6. InTurn'
  <2>1. job'[App].value <= 0
    BY DEF Delivery, InTurn
  <2>2. ASSUME NEW p \in Pollers
        PROVE  job'[p].value <= Taken' /\ (job'[p].value > 0 => pc'[p] = "readCall")
    <3>1. job'[p].value = job[p].value /\ pc'[p] = pc[p] /\ job[p].value \in Int
      BY ArrivalTypes
    <3>2. job[p].value <= Taken /\ (job[p].value > 0 => pc[p] = "readCall")
      BY DEF Delivery, InTurn
    <3>. QED  BY <1>2, <3>1, <3>2
  <2>3. ASSUME NEW q \in Receivers, NEW i \in DOMAIN received'[q]
        PROVE  /\ received'[q][i] <= Taken'
               /\ \A p \in Pollers : job'[p].value > 0 /\ job'[p].key = ReadKey'[q] =>
                    received'[q][i] < job'[p].value
    <3>1. CASE i \in DOMAIN received[q] /\ received'[q][i] = received[q][i]
      <4>1. received[q][i] <= Taken /\ received[q][i] \in Int
        BY <3>1, ArrivalTypes DEF Delivery, InTurn
      <4>2. received'[q][i] <= Taken'
        BY <1>2, <3>1, <4>1
      <4>. QED  BY <1>5, <3>1, <4>2 DEF Delivery, InTurn
    <3>2. CASE q = r /\ received'[q][i] = v
      BY <1>2, <1>5, <3>2
    <3>. QED  BY <1>4, <2>3, <3>1, <3>2 DEF GetsNext
  <2>. QED  BY <2>1, <2>2, <2>3 DEF InTurn
<1>7. OnceEach'
  <2>. SUFFICES ASSUME NEW d \in 1..Taken'
                PROVE  \E x \in Holders : \A y \in Holders :
                         Has(y, d)' <=> y = x
    BY DEF OnceEach
  <2>1. \A y \in Receivers : Has(y, d)' <=> Has(y, d) \/ (y = r /\ d = v)
    BY <1>4 DEF Has, GetsNext
  <2>2. \A y \in Pollers \cup {NoThread} : Has(y, d)' <=> Has(y, d)
    BY ArrivalTypes DEF Has
  <2>3. CASE d = v
    <3>1. \A y \in Holders : ~Has(y, d)
      <4>1. \A y \in Pollers : job[y].value <= Taken /\ job[y].value \in Int
        BY ArrivalTypes DEF Delivery, InTurn
      <4>2. \A y \in Receivers : \A i \in DOMAIN received[y] :
              received[y][i] <= Taken /\ received[y][i] \in Int
        BY ArrivalTypes DEF Delivery, InTurn
      <4>3. d \notin dropped
        BY <1>2, <2>3, ArrivalTypes DEF Delivery, Refused
      <4>. QED  BY <1>2, <2>3, <4>1, <4>2, <4>3 DEF Has, Holders
    <3>2. \A y \in Holders : Has(y, d)' <=> y = r
      BY <2>1, <2>2, <2>3, <3>1, ArrivalTypes DEF Holders
    <3>. QED  BY <3>2 DEF Holders
  <2>4. CASE d # v
    <3>1. d \in 1..Taken
      BY <1>2, <2>4
    <3>2. PICK x \in Holders : \A y \in Holders :
            Has(y, d) <=> y = x
      BY <1>1, <3>1 DEF Delivery, OnceEach
    <3>3. \A y \in Holders : Has(y, d)' <=> Has(y, d)
      BY <2>1, <2>2, <2>4 DEF Holders
    <3>. QED  BY <3>2, <3>3
  <2>. QED  BY <2>3, <2>4
<1>8. Refused'
  BY <1>2, ArrivalTypes DEF Delivery, Refused
<1>. QED  BY <1>2, <1>4, <1>6, <1>7, <1>8 DEF Delivery

(* Accept closes what it has taken. *)
LEMMA DropKeeps ==
  ASSUME KeyInv, Delivery, NEW r \in Receivers, DropAccepted(r),
         UNCHANGED <<use, closing, job, arrived, received>>,
         \A p \in Pollers : pc'[p] = pc[p]
  PROVE  Delivery'
<1>. DEFINE v == Head(inbox)
<1>1. /\ inbox # <<>> /\ inbox' = Tail(inbox) /\ ~closing /\ use.calls = ACCEPT
      /\ dropped' = dropped \cup {v}
  BY DEF DropAccepted
<1>2. InLine' /\ Taken' = Taken + 1 /\ v = Taken + 1 /\ Taken \in Nat /\ v \in Nat
  BY <1>1, HeadTaken
<1>. HIDE DEF v
<1>3. /\ job[App].value <= 0 /\ ReadKey' = ReadKey /\ NoThread \notin Pollers \cup Receivers
      /\ \A p \in Pollers : job[p].value <= Taken /\ job[p].value \in Int
      /\ \A q \in Receivers : \A i \in DOMAIN received[q] :
           received[q][i] <= Taken /\ received[q][i] \in Int
      /\ \A d \in dropped : d \in Int /\ d <= Taken
  BY ArrivalTypes, UseKept DEF Delivery, InTurn, Refused
<1>4. InTurn'
  BY <1>2, <1>3 DEF Delivery, InTurn
<1>5. ReadsInOrder' /\ Refused'
  BY <1>1, <1>2, <1>3 DEF Delivery, ReadsInOrder, Refused
<1>6. OnceEach'
  <2>. SUFFICES ASSUME NEW d \in 1..Taken'
                PROVE  \E x \in Holders : \A y \in Holders : Has(y, d)' <=> y = x
    BY DEF OnceEach
  <2>1. /\ \A y \in Pollers \cup Receivers : Has(y, d)' <=> Has(y, d)
        /\ Has(NoThread, d)' <=> Has(NoThread, d) \/ d = v
    BY <1>1, <1>3 DEF Has
  <2>2. CASE d = v
    <3>1. \A y \in Holders : ~Has(y, d)
      BY <1>2, <1>3, <2>2 DEF Has, Holders
    <3>. QED  BY <2>1, <2>2, <3>1 DEF Holders
  <2>3. CASE d # v
    <3>1. d \in 1..Taken
      BY <1>2, <2>3
    <3>2. PICK x \in Holders : \A y \in Holders : Has(y, d) <=> y = x
      BY <1>1, <3>1 DEF Delivery, OnceEach
    <3>3. \A y \in Holders : Has(y, d)' <=> Has(y, d)
      BY <2>1, <2>3 DEF Holders
    <3>. QED  BY <3>2, <3>3
  <2>. QED  BY <2>2, <2>3
<1>. QED  BY <1>2, <1>4, <1>5, <1>6 DEF Delivery


(* A poller takes what waits. *)
LEMMA BeginKeeps ==
  ASSUME KeyInv, Delivery, NEW p \in Pollers, pc[p] # "readCall", ~closing,
         inbox # <<>>, inbox' = Tail(inbox), job'[p].value = Head(inbox),
         pc'[p] = "readCall", UNCHANGED <<use, arrived, received, dropped>>,
         \A u \in Workers : u # p => job'[u] = job[u] /\ pc'[u] = pc[u]
  PROVE  Delivery'
<1>. DEFINE v == Head(inbox)
<1>1. InLine' /\ Taken' = Taken + 1 /\ v = Taken + 1 /\ Taken \in Nat /\ v \in Nat
  BY HeadTaken
<1>. HIDE DEF v
<1>2. /\ job'[p].value = v /\ ReadKey' = ReadKey /\ received' = received /\ p # App
      /\ \A u \in Workers : u # p => job'[u] = job[u] /\ pc'[u] = pc[u]
  BY ArrivalTypes, UseKept DEF v
<1>3. /\ job[App].value <= 0 /\ App \in Workers /\ Pollers \subseteq Workers
      /\ \A q \in Pollers : /\ job[q].value <= Taken /\ job[q].value \in Int
                            /\ job[q].value > 0 => pc[q] = "readCall"
      /\ \A r \in Receivers : \A i \in DOMAIN received[r] :
           received[r][i] <= Taken /\ received[r][i] \in Int
      /\ \A d \in dropped : d \in Int /\ d <= Taken
      /\ NoThread \notin Pollers \cup Receivers
  BY ArrivalTypes DEF Delivery, InTurn, Refused
<1>4. InTurn'
  <2>1. job'[App].value <= 0
    BY <1>2, <1>3
  <2>2. ASSUME NEW q \in Pollers
        PROVE  job'[q].value <= Taken' /\ (job'[q].value > 0 => pc'[q] = "readCall")
    <3>1. CASE q = p
      BY <1>1, <1>2, <3>1
    <3>2. CASE q # p
      BY <1>1, <1>2, <1>3, <3>2
    <3>. QED  BY <3>1, <3>2
  <2>3. ASSUME NEW r \in Receivers, NEW i \in DOMAIN received'[r]
        PROVE  received'[r][i] <= Taken'
    BY <1>1, <1>2, <1>3, <2>3
  <2>4. ASSUME NEW r \in Receivers, NEW i \in DOMAIN received'[r], NEW q \in Pollers,
               job'[q].value > 0, job'[q].key = ReadKey'[r]
        PROVE  received'[r][i] < job'[q].value
    <3>1. CASE q = p
      BY <1>1, <1>2, <1>3, <2>4, <3>1
    <3>2. CASE q # p
      <4>1. job'[q] = job[q]
        BY <1>2, <1>3, <3>2
      <4>. QED  BY <1>2, <2>4, <4>1 DEF Delivery, InTurn
    <3>. QED  BY <3>1, <3>2
  <2>. QED  BY <2>1, <2>2, <2>3, <2>4 DEF InTurn
<1>5. OnceEach'
  <2>. SUFFICES ASSUME NEW d \in 1..Taken'
                PROVE  \E x \in Holders : \A y \in Holders :
                         Has(y, d)' <=> y = x
    BY DEF OnceEach
  <2>1. \A y \in Receivers \cup {NoThread} : Has(y, d)' <=> Has(y, d)
    BY <1>2, <1>3 DEF Has
  <2>2. p \notin Receivers /\ \A y \in Pollers : y \notin Receivers
    BY ArrivalTypes
  <2>3. \A y \in Pollers : y # p => (Has(y, d)' <=> Has(y, d))
    BY <1>2, <1>3, <2>2 DEF Has
  <2>4. ~Has(p, d) /\ (Has(p, d)' <=> d = v)
    <3>1. Has(p, d)' <=> d = v
      BY <1>2, <1>3, <2>2 DEF Has
    <3>2. job[p].value <= 0 /\ d >= 1
      BY <1>1, <1>3
    <3>3. Has(p, d) <=> job[p].value = d
      BY <1>3, <2>2 DEF Has
    <3>. QED  BY <1>1, <1>3, <3>1, <3>2, <3>3
  <2>5. CASE d = v
    <3>1. \A y \in Holders : ~Has(y, d)
      BY <1>1, <1>3, <2>2, <2>5 DEF Has, Holders
    <3>. QED  BY <2>1, <2>3, <2>4, <2>5, <3>1 DEF Holders
  <2>6. CASE d # v
    <3>1. d \in 1..Taken
      BY <1>1, <2>6
    <3>2. PICK x \in Holders : \A y \in Holders :
            Has(y, d) <=> y = x
      BY <3>1 DEF Delivery, OnceEach
    <3>3. \A y \in Holders : Has(y, d)' <=> Has(y, d)
      BY <2>1, <2>3, <2>4, <2>6 DEF Holders
    <3>. QED  BY <3>2, <3>3
  <2>. QED  BY <2>5, <2>6
<1>6. Refused'
  BY <1>1, <1>3 DEF Delivery, Refused
<1>. QED  BY <1>1, <1>2, <1>4, <1>5, <1>6 DEF Delivery, ReadsInOrder

(* A callback gives what was taken to the receiver. *)
LEMMA CallbackKeeps ==
  ASSUME KeyInv, Delivery, NEW p \in Pollers, ReadCallback(p), ~closing,
         job[p].value > 0
  PROVE  Delivery'
<1>. DEFINE v == job[p].value
            k == job[p].key
<1>1. /\ pc[p] = "readCall" /\ UNCHANGED <<use, inbox, arrived, dropped>>
      /\ job' = [job EXCEPT ![p] = NoJob] /\ Told(k, v, p)
  BY DEF ReadCallback, AfterCallback, key, net
<1>2. /\ p \in Workers /\ v \in 1..MaxArrivals /\ v \in Nat /\ v <= Taken
      /\ p \notin Receivers /\ p # App
  BY ArrivalTypes DEF Delivery, InTurn
<1>3. /\ \A u \in Workers : u # p => job[u].key # k
      /\ \E r \in Receivers : ReadKey[r] = k
  <2>1. k # Null /\ job[p].msg = Null
    BY <1>1, <1>2 DEF KeyInv, Hands, Workers
  <2>. QED  BY <1>2, <2>1 DEF KeyInv, ReadJobs, WaitsFor, Workers
<1>4. PICK r \in Receivers : ReadKey[r] = k
  BY <1>3
<1>5. \A q \in Receivers : ReadKey[q] = k <=> q = r
  BY <1>4, UseFacts DEF KeyInv
<1>6. /\ job'[p].value = 0
      /\ \A u \in Workers : u # p => job'[u] = job[u] /\ pc'[u] = pc[u]
  <2>1. job'[p] = NoJob /\ \A u \in Workers : u # p => job'[u] = job[u]
    BY <1>1, <1>2, JobAt, JobRecords
  <2>2. v \in -1..MaxArrivals
    BY <1>2
  <2>. HIDE DEF v, k
  <2>3. \A u \in Workers : u # p => pc'[u] = pc[u]
    BY <1>1, <1>2, <2>2, ToldFacts
  <2>. QED  BY <2>1, <2>3, JobRecords
<1>7. \A i \in DOMAIN received[r] : received[r][i] < v
  BY <1>4 DEF Delivery, InTurn
<1>8. received' = [received EXCEPT ![r] = Append(received[r], v)]
  <2>1. received' = [q \in Receivers |-> IF q \in {x \in Receivers : ReadKey[x] = k} /\ v > 0
                                         THEN Append(received[q], v) ELSE received[q]]
    BY <1>1 DEF Told
  <2>. HIDE DEF k, v
  <2>2. received' = [q \in Receivers |-> IF q = r THEN Append(received[q], v)
                                                  ELSE received[q]]
    BY <1>2, <1>5, <2>1
  <2>. QED  BY <2>2, ArrivalTypes
<1>. HIDE DEF v, k
<1>9. ReadsInOrder' /\ GetsNext(r, v)
  BY <1>2, <1>7, <1>8, GetsOneMore
<1>10. /\ Taken' = Taken /\ ReadKey' = ReadKey /\ InLine'
       /\ App \in Workers /\ Pollers \subseteq Workers
  BY <1>1, UseKept, ArrivalTypes DEF Taken, InLine, Delivery
<1>11. InTurn'
  <2>1. job'[App].value <= 0
    BY <1>2, <1>6, <1>10 DEF Delivery, InTurn
  <2>2. ASSUME NEW q \in Pollers
        PROVE  job'[q].value <= Taken' /\ (job'[q].value > 0 => pc'[q] = "readCall")
    <3>1. CASE q = p
      BY <1>2, <1>6, <1>10, <3>1, ArrivalTypes
    <3>2. CASE q # p
      BY <1>6, <1>10, <3>2 DEF Delivery, InTurn
    <3>. QED  BY <3>1, <3>2
  <2>3. ASSUME NEW q \in Receivers, NEW i \in DOMAIN received'[q]
        PROVE  received'[q][i] <= Taken'
    BY <1>2, <1>9, <1>10, <2>3 DEF Delivery, InTurn, GetsNext
  <2>4. ASSUME NEW q \in Receivers, NEW i \in DOMAIN received'[q], NEW u \in Pollers,
               job'[u].value > 0, job'[u].key = ReadKey'[q]
        PROVE  received'[q][i] < job'[u].value
    <3>1. u # p /\ job'[u] = job[u] /\ job[u].key # k
      BY <1>3, <1>6, <1>10, <2>4
    <3>2. q # r
      BY <1>4, <1>10, <2>4, <3>1
    <3>3. i \in DOMAIN received[q] /\ received'[q][i] = received[q][i]
      BY <1>9, <2>4, <3>2 DEF GetsNext
    <3>. QED  BY <1>10, <2>4, <3>1, <3>3 DEF Delivery, InTurn
  <2>. QED  BY <2>1, <2>2, <2>3, <2>4 DEF InTurn
<1>12. OnceEach'
  <2>. SUFFICES ASSUME NEW d \in 1..Taken
                PROVE  \E x \in Holders : \A y \in Holders :
                         Has(y, d)' <=> y = x
    BY <1>10 DEF OnceEach
  <2>1. \A y \in Receivers : Has(y, d)' <=> Has(y, d) \/ (y = r /\ d = v)
    BY <1>9 DEF Has, GetsNext
  <2>2. NoThread \notin Pollers \cup Receivers /\ \A y \in Pollers : y \notin Receivers
    BY ArrivalTypes
  <2>3. \A y \in Pollers \cup {NoThread} : y # p => (Has(y, d)' <=> Has(y, d))
    BY <1>1, <1>6, <1>10, <2>2 DEF Has
  <2>4. (Has(p, d) <=> d = v) /\ ~Has(p, d)'
    <3>1. Has(p, d) <=> d = v
      BY <1>2, <2>2 DEF Has, v
    <3>2. Has(p, d)' <=> 0 = d
      BY <1>2, <1>6, <2>2 DEF Has
    <3>. QED  BY <3>1, <3>2
  <2>5. PICK x \in Holders : \A y \in Holders :
          Has(y, d) <=> y = x
    BY DEF Delivery, OnceEach
  <2>6. CASE d = v
    <3>1. x = p
      BY <2>4, <2>5, <2>6 DEF Holders
    <3>2. \A y \in Holders : Has(y, d)' <=> y = r
      BY <1>2, <2>1, <2>2, <2>3, <2>4, <2>5, <2>6, <3>1 DEF Holders
    <3>. QED  BY <3>2 DEF Holders
  <2>7. CASE d # v
    BY <2>1, <2>3, <2>4, <2>5, <2>7 DEF Holders
  <2>. QED  BY <2>6, <2>7
<1>13. Refused'
  BY <1>1, <1>10 DEF Delivery, Refused
<1>. QED  BY <1>9, <1>10, <1>11, <1>12, <1>13 DEF Delivery

(* Everything else leaves what arrived where it is. *)
LEMMA OneWorker ==
  ASSUME KeyInv, Delivery, NEW t \in Workers, pc[t] # "readCall" \/ closing \/ job[t].value <= 0,
         UNCHANGED <<use, inbox, arrived, received, dropped, closing>>, job'[t].value <= 0,
         \A u \in Workers : u # t => job'[u] = job[u] /\ pc'[u] = pc[u]
  PROVE  ReadsNothing
<1>1. job'[App].value <= 0
  BY ArrivalTypes DEF Delivery, InTurn
<1>2. ASSUME NEW p \in Pollers
      PROVE  \/ job'[p].value <= 0 /\ (job[p].value > 0 => closing')
             \/ job'[p].value = job[p].value /\ job'[p].key = job[p].key /\ pc'[p] = pc[p]
  <2>1. CASE p = t
    <3>1. job[p].value \in Int
      BY ArrivalTypes
    <3>. QED  BY <2>1, <3>1 DEF Delivery, InTurn
  <2>2. CASE p # t
    BY <2>2 DEF Workers
  <2>. QED  BY <2>1, <2>2
<1>. QED  BY <1>1, <1>2 DEF ReadsNothing

LEMMA PollerDelivers ==
  ASSUME KeyInv, KeyInv', Delivery, NEW p \in Pollers, PollerStep(p)
  PROVE  Delivery'
<1>1. p \in Workers /\ p # App
  BY ArrivalTypes
<1>2. ASSUME NEW x, pc' = [pc EXCEPT ![p] = x]
      PROVE  \A u \in Workers : u # p => pc'[u] = pc[u]
  BY <1>1, <1>2, WorkerAt
<1>3. ASSUME NEW j, job' = [job EXCEPT ![p] = j]
      PROVE  job'[p] = j /\ \A u \in Workers : u # p => job'[u] = job[u]
  BY <1>1, <1>3 DEF KeyInv, Base, TypeOK, Workers
<1>4. pc[p] # "readCall" => job[p].value <= 0
  BY ArrivalTypes DEF Delivery, InTurn
<1>5. ASSUME Leave(p), pc[p] # "readCall" PROVE ReadsNothing
  <2>1. /\ UNCHANGED <<use, inbox, arrived, received, dropped, closing, job>>
        /\ \E x : pc' = [pc EXCEPT ![p] = x]
    BY <1>5 DEF Leave, Goto, key, net, results
  <2>. QED  BY <1>1, <1>2, <1>4, <1>5, <2>1, OneWorker
<1>6. ASSUME ConnectDone(p), pc[p] # "readCall" PROVE ReadsNothing
  <2>1. /\ UNCHANGED <<use, inbox, arrived, received, dropped, closing, job>>
        /\ \E x : pc' = [pc EXCEPT ![p] = x]
    BY <1>6 DEF ConnectDone, Goto, net, results
  <2>. QED  BY <1>1, <1>2, <1>4, <1>6, <2>1, OneWorker
<1>7. ASSUME WriteBegin(p), pc[p] # "readCall" PROVE ReadsNothing
  <2>1. /\ UNCHANGED <<use, inbox, arrived, received, dropped, closing>>
        /\ \E x : pc' = [pc EXCEPT ![p] = x]
        /\ \E a, m : job' = [job EXCEPT ![p] = [NoJob EXCEPT !.key = a, !.msg = m]]
    BY <1>7 DEF WriteBegin, Goto, net, results
  <2>2. job'[p].value <= 0
    <3>1. PICK a, m : job' = [job EXCEPT ![p] = [NoJob EXCEPT !.key = a, !.msg = m]]
      BY <2>1
    <3>2. job'[p] = [NoJob EXCEPT !.key = a, !.msg = m]
      BY <1>3, <3>1
    <3>. QED  BY <3>2 DEF NoJob
  <2>. QED  BY <1>1, <1>2, <1>3, <1>7, <2>1, <2>2, OneWorker
<1>8. ASSUME WriteSend(p) PROVE ReadsNothing
  <2>1. /\ UNCHANGED <<use, inbox, arrived, received, dropped, closing>> /\ pc[p] = "writing"
        /\ \E x : pc' = [pc EXCEPT ![p] = x]
        /\ job' = job \/ job' = [job EXCEPT ![p].ok = FALSE]
    BY <1>8 DEF WriteSend, Goto, key, results
  <2>2. job'[p].value <= 0 /\ \A u \in Workers : u # p => job'[u] = job[u]
    <3>1. job[p].value <= 0
      BY <1>4, <2>1
    <3>2. CASE job' = [job EXCEPT ![p].ok = FALSE]
      <4>1. job[p] \in Job
        BY <1>1 DEF KeyInv, Base, TypeOK, Workers
      <4>2. job'[p] = [job[p] EXCEPT !.ok = FALSE] /\ \A u \in Workers : u # p => job'[u] = job[u]
        BY <1>1, <3>2 DEF KeyInv, Base, TypeOK, Workers
      <4>. QED  BY <3>1, <4>1, <4>2 DEF Job
    <3>. QED  BY <2>1, <3>1, <3>2
  <2>. QED  BY <1>1, <1>2, <2>1, <2>2, OneWorker
<1>9. ASSUME WriteFinish(p) PROVE ReadsNothing
  <2>1. /\ UNCHANGED <<use, inbox, arrived, received, dropped, closing>> /\ pc[p] = "written"
        /\ \E x : pc' = [pc EXCEPT ![p] = x]
        /\ job' = job \/ job' = [job EXCEPT ![p] = NoJob]
    BY <1>9 DEF WriteFinish, Goto, net, results
  <2>2. job'[p].value <= 0 /\ \A u \in Workers : u # p => job'[u] = job[u]
    BY <1>3, <1>4, <2>1, JobRecords
  <2>. QED  BY <1>1, <1>2, <2>1, <2>2, OneWorker
<1>10. ASSUME WriteCallback(p) \/ ConnectCallback(p) PROVE ReadsNothing
  <2>1. /\ UNCHANGED <<use, inbox, arrived, received, dropped, closing>>
        /\ pc[p] \in {"writeCall", "connectCall"}
        /\ \E x : pc' = [pc EXCEPT ![p] = x]
        /\ job' = [job EXCEPT ![p] = NoJob]
    BY <1>10 DEF WriteCallback, ConnectCallback, AfterCallback, Goto, key, net, results
  <2>2. job'[p].value <= 0 /\ \A u \in Workers : u # p => job'[u] = job[u]
    <3>1. job'[p] = NoJob /\ \A u \in Workers : u # p => job'[u] = job[u]
      BY <1>1, <2>1, JobAt, JobRecords
    <3>2. job'[p].value = 0
      BY <3>1, JobRecords
    <3>. QED  BY <3>1, <3>2
  <2>. QED  BY <1>1, <1>2, <2>1, <2>2, OneWorker
<1>11. ASSUME ReadCallback(p) PROVE ReadsNothing \/ Delivery'
  <2>1. /\ UNCHANGED <<use, inbox, arrived, dropped, closing>>
        /\ job' = [job EXCEPT ![p] = NoJob]
    BY <1>11 DEF ReadCallback, AfterCallback, key, net
  <2>2. job'[p].value <= 0 /\ \A u \in Workers : u # p => job'[u] = job[u]
    <3>1. job'[p] = NoJob /\ \A u \in Workers : u # p => job'[u] = job[u]
      BY <1>1, <2>1, JobAt, JobRecords
    <3>2. job'[p].value = 0
      BY <3>1, JobRecords
    <3>. QED  BY <3>1, <3>2
  <2>3. job[p].value \in -1..MaxArrivals /\ job[p].value \in Int
    BY <1>1, ArrivalTypes
  <2>4. CASE closing
    <3>1. received' = received /\ pc' = [pc EXCEPT ![p] = "idle"]
      BY <1>11, <2>4 DEF ReadCallback, Goto
    <3>. QED  BY <1>1, <1>2, <2>1, <2>2, <2>4, <3>1, OneWorker
  <2>5. CASE ~closing /\ job[p].value <= 0
    <3>1. Told(job[p].key, job[p].value, p)
      BY <1>11, <2>5 DEF ReadCallback
    <3>2. \A u \in Workers : u # p => pc'[u] = pc[u]
      BY <1>1, <2>3, <3>1, ToldFacts
    <3>3. received' = [r \in Receivers |-> received[r]]
      BY <2>3, <2>5, <3>1 DEF Told
    <3>4. received' = received
      BY <3>3, ArrivalTypes
    <3>. QED  BY <1>1, <2>1, <2>2, <2>5, <3>2, <3>4, OneWorker
  <2>6. CASE ~closing /\ job[p].value > 0
    BY <1>11, <2>6, CallbackKeeps
  <2>. QED  BY <2>3, <2>4, <2>5, <2>6
<1>12. ASSUME NEW h, ReadBegin(p, h), pc[p] # "readCall" PROVE ReadsNothing \/ Delivery'
  <2>1. /\ UNCHANGED <<use, arrived, received, dropped, closing>> /\ ~closing
        /\ pc' = [pc EXCEPT ![p] = "readCall"]
        /\ \/ /\ inbox # <<>> /\ inbox' = Tail(inbox)
              /\ \E a : job' = [job EXCEPT ![p] = [NoJob EXCEPT !.key = a, !.value = Head(inbox)]]
           \/ /\ \E a : job' = [job EXCEPT ![p] = [NoJob EXCEPT !.key = a, !.value = -1]]
              /\ inbox' = inbox
    BY <1>12 DEF ReadBegin, Goto, results
  <2>2. pc'[p] = "readCall" /\ \A u \in Workers : u # p => pc'[u] = pc[u]
    BY <1>1, <2>1, WorkerAt
  <2>3. ASSUME NEW a, NEW v, job' = [job EXCEPT ![p] = [NoJob EXCEPT !.key = a, !.value = v]]
        PROVE  job'[p].value = v /\ \A u \in Workers : u # p => job'[u] = job[u]
    <3>1. /\ job'[p] = [NoJob EXCEPT !.key = a, !.value = v]
          /\ \A u \in Workers : u # p => job'[u] = job[u]
      BY <1>3, <2>3
    <3>. QED  BY <3>1 DEF NoJob
  <2>4. CASE inbox' = inbox
    <3>1. PICK a, v : /\ v = -1 \/ (inbox # <<>> /\ inbox' = Tail(inbox))
                      /\ job' = [job EXCEPT ![p] = [NoJob EXCEPT !.key = a, !.value = v]]
      BY <2>1
    <3>2. v = -1
      <4>1. inbox # <<>> => Len(Tail(inbox)) = Len(inbox) - 1 /\ Len(inbox) \in Nat
        BY ArrivalTypes
      <4>2. inbox # <<>> => Tail(inbox) # inbox
        BY <4>1
      <4>. QED  BY <2>4, <3>1, <4>2
    <3>3. job'[p].value = -1 /\ \A u \in Workers : u # p => job'[u] = job[u]
      BY <2>3, <3>1, <3>2
    <3>4. job'[p].value <= 0
      BY <3>3
    <3>5. UNCHANGED <<use, inbox, arrived, received, dropped, closing>>
      BY <2>1, <2>4
    <3>. QED  BY <1>1, <1>12, <2>2, <3>3, <3>4, <3>5, OneWorker
  <2>5. CASE inbox' # inbox
    <3>1. PICK a : job' = [job EXCEPT ![p] = [NoJob EXCEPT !.key = a, !.value = Head(inbox)]]
      BY <2>1, <2>5
    <3>2. job'[p].value = Head(inbox) /\ \A u \in Workers : u # p => job'[u] = job[u]
      BY <2>3, <3>1
    <3>3. inbox # <<>> /\ inbox' = Tail(inbox)
      BY <2>1, <2>5
    <3>. QED  BY <1>12, <2>1, <2>2, <3>2, <3>3, BeginKeeps
  <2>. QED  BY <2>4, <2>5
<1>. QED
  BY <1>5, <1>6, <1>7, <1>8, <1>9, <1>10, <1>11, <1>12, PollerCases, NothingKeeps
     DEF READABLE, WRITEABLE, EXCEPTION


LEMMA AppDelivers ==
  ASSUME KeyInv, KeyInv', Delivery, AppStep
  PROVE  Delivery'
<1>1. App \in Workers /\ pc[App] # "readCall" /\ job[App].value <= 0
  BY ArrivalTypes DEF KeyInv, Base, Places, Delivery, InTurn
<1>2. ASSUME UNCHANGED <<use, inbox, arrived, received, dropped, closing, job>>,
             \A u \in Workers : u # App => pc'[u] = pc[u]
      PROVE  ReadsNothing
  BY <1>1, <1>2, OneWorker
<1>3. ASSUME NEW x, pc' = [pc EXCEPT ![App] = x] PROVE \A u \in Workers : u # App => pc'[u] = pc[u]
  BY <1>1, <1>3, WorkerAt
<1>4. ASSUME top_ioqueue_connect \/ top_ioqueue_lock_key \/ top_ioqueue_unlock_key
             \/ \E k \in OpKeys : top_ioqueue_op_key_init(k)
      PROVE  ReadsNothing
  <2>1. UNCHANGED <<use, inbox, arrived, received, dropped, closing, job>>
    BY <1>4 DEF top_ioqueue_connect, top_ioqueue_lock_key, top_ioqueue_unlock_key,
       top_ioqueue_op_key_init, key, net, results
  <2>2. pc' = pc \/ \E x : pc' = [pc EXCEPT ![App] = x]
    BY <1>4 DEF top_ioqueue_connect, top_ioqueue_lock_key, top_ioqueue_unlock_key,
       top_ioqueue_op_key_init, Goto
  <2>. QED  BY <1>2, <1>3, <2>1, <2>2
<1>5. ASSUME NEW k \in OpKeys, top_ioqueue_post_completion(k) PROVE ReadsNothing
  <2>1. /\ UNCHANGED <<use, inbox, arrived, received, dropped, closing>>
        /\ pc' = [pc EXCEPT ![App] = "postCall"]
    BY <1>5 DEF top_ioqueue_post_completion, Goto, key, net, results
  <2>2. PICK m : job' = [job EXCEPT ![App] =
                           [NoJob EXCEPT !.key = k, !.value = -1, !.msg = m]]
    BY <1>5 DEF top_ioqueue_post_completion
  <2>3. /\ job'[App] = [NoJob EXCEPT !.key = k, !.value = -1, !.msg = m]
        /\ \A u \in Workers : u # App => job'[u] = job[u]
    BY <1>1, <2>2 DEF KeyInv, Base, TypeOK, Workers
  <2>4. job'[App].value = -1
    BY <2>3 DEF NoJob
  <2>5. job'[App].value <= 0 /\ \A u \in Workers : u # App => job'[u] = job[u] /\ pc'[u] = pc[u]
    BY <1>3, <2>1, <2>3, <2>4
  <2>. QED  BY <1>1, <2>1, <2>5, OneWorker
<1>6. ASSUME PostCallback PROVE ReadsNothing
  <2>1. UNCHANGED <<use, inbox, arrived, dropped, closing>> /\ job' = [job EXCEPT ![App] = NoJob]
    BY <1>6 DEF PostCallback, key, net
  <2>2. job'[App].value <= 0 /\ \A u \in Workers : u # App => job'[u] = job[u]
    <3>1. job'[App] = NoJob /\ \A u \in Workers : u # App => job'[u] = job[u]
      BY <1>1, <2>1, JobAt, JobRecords
    <3>2. job'[App].value = 0
      BY <3>1, JobRecords
    <3>. QED  BY <3>1, <3>2
  <2>3. received' = received /\ \A u \in Workers : u # App => pc'[u] = pc[u]
    <3>1. CASE job[App].msg = Null
      <4>1. Told(job[App].key, job[App].value, App)
        BY <1>6, <3>1 DEF PostCallback
      <4>2. \A u \in Workers : u # App => pc'[u] = pc[u]
        BY <1>1, <4>1, ToldFacts, ArrivalTypes
      <4>3. job[App].value \in Int
        BY <1>1, ArrivalTypes
      <4>4. received' = [r \in Receivers |-> received[r]]
        BY <1>1, <4>1, <4>3 DEF Told
      <4>. QED  BY <4>2, <4>4, ArrivalTypes
    <3>2. CASE job[App].msg # Null
      <4>1. received' = received /\ pc' = [pc EXCEPT ![App] = "idle"]
        BY <1>6, <3>2 DEF PostCallback, Goto
      <4>. QED  BY <1>3, <4>1
    <3>. QED  BY <3>1, <3>2
  <2>. QED  BY <1>1, <2>1, <2>2, <2>3, OneWorker
<1>. QED  BY <1>4, <1>5, <1>6, NothingKeeps DEF AppStep

LEMMA NextDelivers ==
  ASSUME KeyInv, KeyInv', Delivery, [Next]_vars
  PROVE  Delivery'
<1>1. /\ App \in Workers /\ Pollers \subseteq Workers /\ App \notin Pollers
      /\ job[App].value <= 0
      /\ \A p \in Pollers : job[p].value \in Int /\ (job[p].value > 0 => pc[p] = "readCall")
  BY ArrivalTypes DEF Delivery, InTurn
<1>2. ASSUME UNCHANGED <<use, inbox, arrived, received, dropped, job>>, closing => closing',
             \A p \in Pollers : pc'[p] = pc[p]
      PROVE  Delivery'
  <2>1. ReadsNothing
    BY <1>1, <1>2 DEF ReadsNothing
  <2>. QED  BY <2>1, NothingKeeps
<1>3. ASSUME NEW s \in Senders, NEW op, SendStep(s, op) PROVE Delivery'
  <2>1. UNCHANGED <<use, inbox, arrived, received, dropped, job, closing>>
    BY <1>3, SenderFrame
  <2>2. pc' = pc \/ \E x : pc' = [pc EXCEPT ![s] = x]
    BY <1>3, SenderFrame
  <2>3. \A p \in Pollers : pc'[p] = pc[p]
    BY <2>2, ThreadIds DEF KeyInv, Base, TypeOK
  <2>. QED  BY <1>2, <2>1, <2>3
<1>4. ASSUME NEW r \in Receivers, ReceiverStep(r) PROVE Delivery'
  <2>1. UNCHANGED <<use, arrived, job, closing>>
    BY <1>4, ReceiverFrame
  <2>2. \E x : pc' = [pc EXCEPT ![r] = x]
    BY <1>4, ReceiverFrame
  <2>3. \A p \in Pollers : pc'[p] = pc[p]
    BY <2>2, ThreadIds DEF KeyInv, Base, TypeOK
  <2>4. \/ pc[r] = "direct" /\ Take(r) /\ dropped' = dropped
        \/ DropAccepted(r) /\ received' = received
        \/ inbox' = inbox /\ received' = received /\ dropped' = dropped
    BY <1>4 DEF ReceiverStep, ReadStep, ReadCheck, ReadDirect, ReadFill, ReadQueue, net, results
  <2>5. CASE inbox' = inbox /\ received' = received /\ dropped' = dropped
    BY <1>2, <2>1, <2>3, <2>5
  <2>6. CASE pc[r] = "direct" /\ Take(r) /\ dropped' = dropped
    BY <2>1, <2>3, <2>6, TakeKeeps
  <2>7. CASE DropAccepted(r) /\ received' = received
    BY <2>1, <2>3, <2>7, DropKeeps
  <2>. QED  BY <2>4, <2>5, <2>6, <2>7
<1>5. ASSUME NEW p \in Pollers, NEW e \in {READABLE, WRITEABLE, EXCEPTION}, Poll(p, e)
      PROVE  Delivery'
  <2>1. /\ UNCHANGED <<use, inbox, arrived, received, dropped, job, closing>> /\ pc[p] = "idle"
        /\ pc' = [pc EXCEPT ![p] = e]
    BY <1>5 DEF Poll, Goto, key, net, results
  <2>2. p \in Workers /\ \A u \in Workers : u # p => pc'[u] = pc[u] /\ job'[u] = job[u]
    BY <1>1, <2>1, WorkerAt
  <2>3. job'[p].value <= 0
    BY <1>1, <2>1
  <2>4. ReadsNothing
    BY <2>1, <2>2, <2>3, OneWorker
  <2>. QED  BY <2>4, NothingKeeps
<1>6. CASE Unregister \/ Established \/ UNCHANGED vars
  BY <1>2, <1>6 DEF Unregister, Established, vars, key, net, results
<1>7. CASE Arrive
  BY <1>7, ArriveKeeps
<1>. QED
  BY <1>3, <1>4, <1>5, <1>6, <1>7, StepCases, PollerDelivers, AppDelivers
     DEF WorkStep, Outside

LEMMA InitDelivers == Init => Delivery
<1>. SUFFICES ASSUME Init PROVE Delivery
  OBVIOUS
<1>1. /\ inbox = <<>> /\ arrived = 0 /\ received = [r \in Receivers |-> <<>>]
      /\ dropped = {}
      /\ \A p \in Workers : job[p] = NoJob
  BY DEF Init, Workers
<1>2. Taken = 0 /\ Len(inbox) = 0 /\ DOMAIN inbox = {} /\ 1..Taken = {}
  <2>1. Len(inbox) = 0 /\ DOMAIN inbox = {}
    BY <1>1
  <2>2. Taken = 0
    <3>1. arrived = 0
      BY <1>1
    <3>. QED  BY <2>1, <3>1 DEF Taken
  <2>3. 1..0 = {}
    OBVIOUS
  <2>. QED  BY <2>1, <2>2, <2>3
<1>3. \A p \in Workers : job[p].value = 0
  BY <1>1, JobRecords
<1>. QED
  BY <1>1, <1>2, <1>3 DEF Delivery, InLine, InTurn, OnceEach, ReadsInOrder, Refused,
                          Workers

(* What arrives waits in the order of its arrival, and is then with one    *)
(* thread or one receiver.                                                 *)
THEOREM DeliveryInvariant ==
  ASSUME ExclusiveUses
  PROVE  Spec => [](IInv /\ Delivery)
<1>1. Init => IInv /\ Delivery
  BY InitInv, InitDelivers
<1>2. IInv /\ Delivery /\ [Next]_vars => (IInv /\ Delivery)'
  <2>. SUFFICES ASSUME IInv, Delivery, [Next]_vars PROVE IInv' /\ Delivery'
    OBVIOUS
  <2>1. IInv'
    BY NextInv
  <2>. QED  BY <2>1, NextDelivers DEF IInv
<1>. QED  BY <1>1, <1>2, PTL DEF Spec

(* A receiver gets what arrived in the order it arrived, although several  *)
(* threads poll and it may also take without waiting                       *)
(* (topque_dispatch_read_event, top_ioqueue_recvfrom).                     *)
THEOREM AlwaysInOrder ==
  ASSUME ExclusiveUses
  PROVE  Spec => []ReadsInOrder
<1>1. IInv /\ Delivery => ReadsInOrder
  BY DEF Delivery
<1>. QED  BY <1>1, DeliveryInvariant, PTL

(* While the key is registered what arrived waits in the socket, is on its *)
(* way to a callback or has been given to one receiver, or accept has      *)
(* closed it as it could not read its address (ioque_base.c:1036-1041);    *)
(* nothing else is lost, and none is given twice.                          *)
THEOREM NothingEverLost ==
  ASSUME ExclusiveUses
  PROVE  Spec => []NothingLost
<1>1. ASSUME KeyInv, Delivery PROVE NothingLost
  <2>. SUFFICES ASSUME ~closing, NEW d \in 1..arrived
                PROVE  Cardinality({ i \in DOMAIN inbox : inbox[i] = d })
                         + Cardinality({ p \in Pollers : job[p].value = d })
                         + Cardinality({ r \in Receivers :
                             \E i \in DOMAIN received[r] : received[r][i] = d })
                         + Cardinality({d} \cap dropped) = 1
    BY <1>1 DEF NothingLost, Delivery, Refused
  <2>. DEFINE A == { i \in DOMAIN inbox : inbox[i] = d }
              B == { p \in Pollers : job[p].value = d }
              C == { r \in Receivers : \E i \in DOMAIN received[r] : received[r][i] = d }
              D == {d} \cap dropped
  <2>1. /\ Taken \in Nat /\ d \in Nat /\ d >= 1 /\ DOMAIN inbox = 1..(arrived - Taken)
        /\ \A i \in DOMAIN inbox : inbox[i] = Taken + i
        /\ d <= arrived /\ arrived \in Nat
    BY <1>1, ArrivalTypes DEF Delivery, InLine, Taken
  <2>2. Cardinality({}) = 0 /\ \A x : Cardinality({x}) = 1
    BY FS_EmptySet, FS_Singleton
  <2>3. CASE d > Taken
    <3>1. A = {d - Taken}
      BY <2>1, <2>3
    <3>2. B = {}
      BY <1>1, <2>1, <2>3, ArrivalTypes DEF Delivery, InTurn
    <3>3. C = {}
      BY <1>1, <2>1, <2>3, ArrivalTypes DEF Delivery, InTurn
    <3>4. D = {}
      BY <1>1, <2>1, <2>3, ArrivalTypes DEF Delivery, Refused
    <3>. QED
      <4>1. /\ Cardinality(A) = 1 /\ Cardinality(B) = 0 /\ Cardinality(C) = 0
            /\ Cardinality(D) = 0
        BY <2>2, <3>1, <3>2, <3>3, <3>4
      <4>. QED  BY <4>1
  <2>4. CASE d <= Taken
    <3>1. A = {}
      BY <2>1, <2>4
    <3>2. PICK x \in Holders : \A y \in Holders :
            Has(y, d) <=> y = x
      BY <1>1, <2>1, <2>4 DEF Delivery, OnceEach
    <3>3. /\ \A y \in Pollers : y \in B <=> y = x
          /\ \A y \in Receivers : y \in C <=> y = x
          /\ d \in dropped <=> x = NoThread
          /\ Pollers \cap Receivers = {} /\ NoThread \notin Pollers \cup Receivers
      BY <1>1, <3>2, ArrivalTypes DEF Has, Holders
    <3>4. CASE x \in Pollers
      <4>1. B = {x} /\ C = {} /\ D = {}
        BY <3>3, <3>4
      <4>2. /\ Cardinality(A) = 0 /\ Cardinality(B) = 1 /\ Cardinality(C) = 0
            /\ Cardinality(D) = 0
        BY <2>2, <3>1, <4>1
      <4>. QED  BY <4>2
    <3>5. CASE x \in Receivers
      <4>1. B = {} /\ C = {x} /\ D = {}
        BY <3>3, <3>5
      <4>2. /\ Cardinality(A) = 0 /\ Cardinality(B) = 0 /\ Cardinality(C) = 1
            /\ Cardinality(D) = 0
        BY <2>2, <3>1, <4>1
      <4>. QED  BY <4>2
    <3>6. CASE x = NoThread
      <4>1. B = {} /\ C = {} /\ D = {d}
        BY <3>3, <3>6
      <4>2. /\ Cardinality(A) = 0 /\ Cardinality(B) = 0 /\ Cardinality(C) = 0
            /\ Cardinality(D) = 1
        BY <2>2, <3>1, <4>1
      <4>. QED  BY <4>2
    <3>. QED  BY <3>4, <3>5, <3>6 DEF Holders
  <2>. QED  BY <2>1, <2>3, <2>4
<1>2. IInv /\ Delivery => NothingLost
  BY <1>1 DEF IInv
<1>. QED  BY <1>2, DeliveryInvariant, PTL

=============================================================================
