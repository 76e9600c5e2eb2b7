-------------------------- MODULE IoQueueKeySends --------------------------
(***************************************************************************)
(* Proofs of what leaves a key of the proactor queue: no byte of a message *)
(* twice, the byte count its callback is told, and the messages of a       *)
(* sender in his order.                                                    *)
(***************************************************************************)
EXTENDS IoQueueKeyProofs, WellFoundedInduction

-----------------------------------------------------------------------------
(* Bytes. *)

\* n bytes of message m leave.
Emits(m, n) == wire' = wire \o [i \in 1..n |-> m]

LEMMA BytesNat ==
  ASSUME wire \in Seq(Msgs), NEW m
  PROVE  Bytes(m) \in Nat /\ IsFiniteSet({ i \in DOMAIN wire : wire[i] = m })
<1>1. Len(wire) \in Nat /\ DOMAIN wire = 1..Len(wire)
  OBVIOUS
<1>2. IsFiniteSet(1..Len(wire))
  BY <1>1, FS_Interval
<1>3. IsFiniteSet({ i \in DOMAIN wire : wire[i] = m })
  BY <1>1, <1>2, FS_Subset
<1>. QED  BY <1>3, FS_CardinalityType DEF Bytes

LEMMA EmitBytes ==
  ASSUME wire \in Seq(Msgs), NEW m \in Msgs, NEW n \in Nat, Emits(m, n)
  PROVE  /\ wire' \in Seq(Msgs)
         /\ Bytes(m)' = Bytes(m) + n
         /\ \A x : x # m => Bytes(x)' = Bytes(x)
<1>. DEFINE l == Len(wire)
            v == [i \in 1..n |-> m]
            Old(x) == { i \in DOMAIN wire : wire[i] = x }
            New(x) == { i \in DOMAIN wire' : wire'[i] = x }
<1>1. l \in Nat /\ DOMAIN wire = 1..l /\ v \in Seq(Msgs) /\ Len(v) = n
  OBVIOUS
<1>2. /\ wire' \in Seq(Msgs) /\ DOMAIN wire' = 1..(l + n)
      /\ \A i \in 1..l : wire'[i] = wire[i]
      /\ \A i \in (l + 1)..(l + n) : wire'[i] = m
  BY <1>1 DEF Emits
<1>3. New(m) = Old(m) \cup ((l + 1)..(l + n)) /\ Old(m) \cap ((l + 1)..(l + n)) = {}
  BY <1>1, <1>2
<1>4. \A x : x # m => New(x) = Old(x)
  BY <1>1, <1>2
<1>5. IsFiniteSet((l + 1)..(l + n)) /\ Cardinality((l + 1)..(l + n)) = n
  <2>1. l + 1 \in Int /\ l + n \in Int /\ (l + 1 > l + n => n = 0)
        /\ (l + n) - (l + 1) + 1 = n
    BY <1>1
  <2>. QED  BY <2>1, FS_Interval
<1>6. IsFiniteSet(Old(m)) /\ Cardinality(Old(m)) \in Nat
  BY BytesNat, FS_CardinalityType
<1>7. Cardinality(New(m)) = Cardinality(Old(m)) + n
  <2>. HIDE DEF Old, New, l, v
  <2>. DEFINE I == (l + 1)..(l + n)
  <2>. HIDE DEF I
  <2>1. /\ IsFiniteSet(Old(m)) /\ IsFiniteSet(I) /\ Cardinality(I) = n
        /\ New(m) = Old(m) \cup I /\ Old(m) \cap I = {}
    BY <1>3, <1>5, <1>6 DEF I
  <2>2. Cardinality(New(m)) = Cardinality(Old(m)) + n - Cardinality({})
    BY <2>1, FS_Union
  <2>3. Cardinality({}) = 0
    BY FS_EmptySet
  <2>. QED  BY <1>6, <2>2, <2>3
<1>. QED  BY <1>2, <1>4, <1>7 DEF Bytes

\* A set of keys has one of the lowest rank.
LEMMA LowestRank ==
  ASSUME NEW K, NEW k \in K, NEW f \in [K -> Nat]
  PROVE  \E j \in K : \A i \in K : f[j] <= f[i]
<1>. DEFINE R == OpToRel(<, Nat)
            T == { f[i] : i \in K }
<1>1. T \subseteq Nat /\ T # {}
  OBVIOUS
<1>2. \E x \in T : \A y \in T : ~(<<y, x>> \in R)
  BY <1>1, NatLessThanWellFounded, WFMin
<1>3. \A x, y \in Nat : x < y => <<x, y>> \in R
  BY DEF OpToRel
<1>4. \A x, y \in Nat : ~(y < x) => x <= y
  OBVIOUS
<1>. QED  BY <1>1, <1>2, <1>3, <1>4

-----------------------------------------------------------------------------
(* How an application uses its memory. *)

\* A message keeps its memory until its completion (io_queue.h: "Caller MUST
\* make sure that this buffer remains valid until the write operation
\* completes"): two share it only if their sender waits in between.
OwnMemory(u) ==
  \A m, n \in Msgs :
    m[1] \in u.active /\ n[1] \in u.active /\ u.bufferOf[m] = u.bufferOf[n] =>
      m[1] = n[1] /\ (m = n \/ u.patient)

OwnMemoryUses == \A u \in Uses : OwnMemory(u)

LEMMA OwnBuffers ==
  ASSUME Base, OwnMemory(use), NEW m \in Sent, NEW n \in Sent, BufferOf[m] = BufferOf[n]
  PROVE  m[1] = n[1] /\ (m = n \/ Patient)
BY UseFacts DEF OwnMemory, Sent, BufferOf, Patient

LEMMA OneWriter ==
  ASSUME KeyInv, NEW p \in Pollers, NEW q \in Pollers, Writing(p), Writing(q)
  PROVE  p = q
BY DEF KeyInv, Base, Locks

-----------------------------------------------------------------------------
(* What an operation key tells of its message. *)

Queued(k) == \E s \in Senders : pc[s] = "queue" /\ CurrentKey(s) = k
Held(k) == \E p \in Pollers : Writing(p) /\ job[p].key = k

\* The operation key k holds what is left to send of a message.
Live(k) == k \in ring \/ Queued(k) \/ Held(k)

\* The socket has failed for the operation of key k.
Failed(k) == \E p \in Pollers : pc[p] = "written" /\ job[p].key = k /\ ~job[p].ok

LEMMA LiveFacts ==
  ASSUME KeyInv, NEW k \in SendKeys, Live(k)
  PROVE  /\ k \in OpKeys /\ opkey[k].msg \in Sent /\ opkey[k].msg \in Msgs
         /\ KeyOf[opkey[k].msg] = k /\ IsSend(k)
         /\ \/ Awaited(opkey[k].msg)
            \/ \E s \in Senders : /\ pc[s] = "queue" /\ CurrentKey(s) = k
                                  /\ opkey[k].msg = Current(s)
<1>1. k \in OpKeys /\ Sent \subseteq Msgs
  BY UseFacts DEF KeyInv
<1>2. CASE k \in ring
  BY <1>1, <1>2 DEF KeyInv, Filed, Awaited
<1>3. CASE Held(k)
  <2>1. PICK p \in Pollers : Writing(p) /\ job[p].key = k
    BY <1>3 DEF Held
  <2>2. job[p].msg # Null /\ job[p].msg = opkey[k].msg /\ IsSend(k)
    BY <2>1 DEF KeyInv, Hands
  <2>3. Awaited(job[p].msg) /\ KeyOf[job[p].msg] = k
    BY <2>1, <2>2 DEF KeyInv, SendJobs
  <2>. QED  BY <1>1, <2>2, <2>3 DEF Awaited
<1>4. CASE Queued(k)
  <2>1. PICK s \in Senders : pc[s] = "queue" /\ CurrentKey(s) = k
    BY <1>4 DEF Queued
  <2>2. opkey[k].msg = Current(s) /\ IsSend(k)
    BY <2>1 DEF KeyInv, Queueing
  <2>3. Current(s) \in Sent /\ KeyOf[Current(s)] = k
    BY <2>1, CurrentFacts DEF KeyInv, Base, Places
  <2>. QED  BY <1>1, <2>1, <2>2, <2>3
<1>. QED  BY <1>2, <1>3, <1>4 DEF Live

\* Two keys never hold one message.
LEMMA LiveApart ==
  ASSUME KeyInv, NEW k \in SendKeys, NEW j \in SendKeys, Live(k), Live(j),
         opkey[k].msg = opkey[j].msg
  PROVE  k = j
BY LiveFacts

-----------------------------------------------------------------------------
(* The invariant of the bytes. *)

\* Nothing of a message has left before its call returns.
Unsent == \A m \in Msgs : m[2] >= sending[m[1]] => Bytes(m) = 0

\* The buffer of a call holds its message.
Filled == \A s \in Senders : pc[s] # "idle" => buffer[BufferOf[Current(s)]] = Current(s)

\* The operation key points to its message and counts what has left of it.
Stored ==
  \A k \in SendKeys : Live(k) =>
    /\ opkey[k].buf = BufferOf[opkey[k].msg] /\ buffer[opkey[k].buf] = opkey[k].msg
    /\ \/ opkey[k].written = Bytes(opkey[k].msg)
       \/ opkey[k].written = -1 /\ Failed(k)

\* A sender that waits is waiting for his last message.
PatientLast ==
  Patient => \A m \in Msgs : Awaited(m) => m[2] = sending[m[1]] - 1 /\ pc[m[1]] = "idle"

\* The count is still that of the message when the callback is called.
Reporting ==
  Patient => \A p \in Pollers : pc[p] = "writeCall" =>
    opkey[job[p].key].written \in {-1, Bytes(job[p].msg)}

\* A cancel reports no bytes.
Cancels == pc[App] = "postCall" => job[App].value = -1

ByteInv ==
  /\ OwnMemory(use)
  /\ Unsent /\ Filled /\ Stored /\ PatientLast /\ Reporting /\ Cancels
  /\ SentOnce /\ ReportedTrue


-----------------------------------------------------------------------------
(* The steps of the senders. *)

\* What a step of sender s may change.
SenderEffects(s, op) ==
  /\ UNCHANGED <<use, mutex, job, reports>>
  /\ s \in use.active /\ sending[s] <= MaxMessages
  /\ Current(s) \in Msgs /\ Current(s) \in Sent
  /\ \A t \in Senders \cup Workers : t # s => pc'[t] = pc[t]
  /\ \A r \in Senders : r # s => sending'[r] = sending[r] /\ Current(r)' = Current(r)
  /\ \/ sending'[s] = sending[s] /\ Current(s)' = Current(s)
     \/ sending'[s] = sending[s] + 1 /\ pc'[s] = "idle"
  /\ (buffer' = buffer /\ pc[s] # "idle") \/ SendCheck(s)
  /\ \/ wire' = wire
     \/ /\ pc[s] = "direct" /\ sending'[s] = sending[s] + 1
        /\ \E n \in 1..Size : Emits(Current(s), n)
  /\ opkey' = opkey \/ SendFill(s, op)
  /\ \/ answer' = answer
     \/ /\ sending'[s] = sending[s] + 1
        /\ \A m \in Msgs : m # Current(s) => answer'[m] = answer[m]
  /\ \/ UNCHANGED <<next, prev>> /\ ring' = ring
     \/ Queues(s) /\ ring' = ring \cup {CurrentKey(s)}

LEMMA SenderDoes ==
  ASSUME KeyInv, NEW s \in Senders, NEW op \in {SEND, SEND_TO}, SendStep(s, op)
  PROVE  SenderEffects(s, op)
<1>1. UNCHANGED <<use, mutex, job, reports>>
  BY SenderFrame
<1>2. s \in use.active /\ sending[s] <= MaxMessages
  BY DEF SendStep, SendCheck, SendSpeculate, SendDirect, SendSpin, SendSeesFree,
     SendFill, SendQueue, KeyInv, Base, Places
<1>3. Current(s) \in Msgs /\ Current(s) \in Sent
  BY <1>2, CurrentFacts DEF KeyInv
<1>4. \A t \in Senders \cup Workers : t # s => pc'[t] = pc[t]
  <2>1. pc' = pc \/ \E x \in SenderPlaces : pc' = [pc EXCEPT ![s] = x]
    BY SenderFrame
  <2>2. pc \in [Threads \ {NoThread} -> Place]
    BY DEF KeyInv, Base, TypeOK
  <2>. QED  BY <2>1, <2>2, ThreadIds DEF Workers
<1>5. /\ sending' = sending \/ (sending' = [sending EXCEPT ![s] = sending[s] + 1]
                                /\ pc' = [pc EXCEPT ![s] = "idle"])
      /\ (buffer' = buffer /\ pc[s] # "idle") \/ SendCheck(s)
      /\ opkey' = opkey \/ SendFill(s, op)
      /\ answer' = answer \/ (sending' = [sending EXCEPT ![s] = sending[s] + 1]
                              /\ \E a : answer' = [answer EXCEPT ![Current(s)] = a])
  BY DEF SendStep, SendCheck, SendSpeculate, SendDirect, SendSpin, SendSeesFree,
     SendFill, SendQueue, Return, Goto, ops, caller, results
<1>6. /\ \A r \in Senders : r # s => sending'[r] = sending[r] /\ Current(r)' = Current(r)
      /\ \/ sending'[s] = sending[s] /\ Current(s)' = Current(s)
         \/ sending'[s] = sending[s] + 1 /\ pc'[s] = "idle"
      /\ sending' = [sending EXCEPT ![s] = sending[s] + 1] => sending'[s] = sending[s] + 1
  BY <1>5, ThreadIds DEF Current, KeyInv, Base, TypeOK
<1>7. \/ wire' = wire
      \/ /\ pc[s] = "direct" /\ sending'[s] = sending[s] + 1
         /\ \E n \in 1..Size : Emits(Current(s), n)
  <2>1. wire' = wire \/ SendDirect(s)
    BY DEF SendStep, SendCheck, SendSpeculate, SendSpin, SendSeesFree, SendFill,
        SendQueue, net
  <2>2. SendDirect(s) /\ wire' # wire => /\ pc[s] = "direct" /\ Return(s, "sent")
                                         /\ \E n \in 1..Size : Emits(Current(s), n)
    BY DEF SendDirect, Emits
  <2>. QED  BY <1>6, <2>1, <2>2 DEF Return
<1>8. /\ \/ answer' = answer
         \/ /\ sending'[s] = sending[s] + 1
            /\ \A m \in Msgs : m # Current(s) => answer'[m] = answer[m]
  BY <1>5, <1>6 DEF KeyInv, Base, TypeOK
<1>9. \/ UNCHANGED <<next, prev>> /\ ring' = ring
      \/ Queues(s) /\ ring' = ring \cup {CurrentKey(s)}
  <2>1. CASE UNCHANGED <<next, prev>>
    BY <2>1 DEF ring
  <2>2. CASE SendQueue(s) /\ ~closing
    <3>1. Queues(s)
      BY <1>1, <2>2 DEF SendQueue, Queues, ops
    <3>. QED  BY <1>1, <3>1, QueueLinks DEF Queues
  <2>3. UNCHANGED <<next, prev>> \/ (SendQueue(s) /\ ~closing)
    BY DEF SendStep, SendCheck, SendSpeculate, SendDirect, SendSpin, SendSeesFree,
       SendFill, SendQueue, lists
  <2>. QED  BY <2>1, <2>2, <2>3
<1>. QED
  BY <1>1, <1>2, <1>3, <1>4, <1>5, <1>6, <1>7, <1>8, <1>9 DEF SenderEffects

\* The bytes of a message change only by its sender's direct send, which is
\* the first of it to leave.
LEMMA SenderBytes ==
  ASSUME KeyInv, Unsent, NEW s \in Senders, NEW op \in {SEND, SEND_TO}, SendStep(s, op)
  PROVE  /\ Bytes(Current(s)) = 0
         /\ \A m : \/ Bytes(m)' = Bytes(m)
                   \/ /\ m = Current(s) /\ Bytes(m)' \in 0..Size
                      /\ sending'[s] = sending[s] + 1 /\ pc[s] = "direct"
<1>1. SenderEffects(s, op) /\ wire \in Seq(Msgs) /\ sending[s] \in Nat
  BY SenderDoes DEF KeyInv, Base, TypeOK
<1>2. Current(s)[1] = s /\ Current(s)[2] = sending[s]
  BY <1>1, CurrentFacts DEF SenderEffects, KeyInv
<1>3. Bytes(Current(s)) = 0
  BY <1>1, <1>2 DEF SenderEffects, Unsent
<1>4. CASE wire' = wire
  <2>1. \A m : Bytes(m)' = Bytes(m)
    BY <1>4 DEF Bytes
  <2>. QED  BY <1>3, <2>1
<1>5. CASE wire' # wire
  <2>. DEFINE c == Current(s)
  <2>1. PICK n \in 1..Size : Emits(c, n)
    BY <1>1, <1>5 DEF SenderEffects
  <2>2. n \in Nat /\ c \in Msgs /\ Bytes(c) = 0
    BY <1>1, <1>3 DEF SenderEffects
  <2>3. sending'[s] = sending[s] + 1 /\ pc[s] = "direct"
    BY <1>1, <1>5 DEF SenderEffects
  <2>4. ASSUME NEW d, d = c
        PROVE  Bytes(d)' \in 0..Size /\ \A m : m # d => Bytes(m)' = Bytes(m)
    <3>1. d \in Msgs /\ Emits(d, n) /\ Bytes(d) = 0
      BY <2>1, <2>2, <2>4 DEF Emits
    <3>2. /\ Bytes(d)' = Bytes(d) + n
          /\ \A m : m # d => Bytes(m)' = Bytes(m)
      BY <1>1, <2>2, <3>1, EmitBytes
    <3>3. Bytes(d)' = n
      BY <2>2, <3>1, <3>2
    <3>. QED  BY <3>2, <3>3
  <2>. QED  BY <1>3, <2>3, <2>4
<1>. QED  BY <1>4, <1>5

\* What is live or awaited is not what a sender is about to send.
LEMMA NotCurrent ==
  ASSUME KeyInv, NEW s \in Senders, s \in use.active, sending[s] <= MaxMessages
  PROVE  /\ \A m : Awaited(m) => m # Current(s)
         /\ reports[Current(s)] = <<>>
         /\ \A k \in SendKeys : Live(k) /\ pc[s] # "queue" => opkey[k].msg # Current(s)
<1>1. Current(s) \in Msgs /\ Current(s)[1] = s /\ Current(s)[2] = sending[s]
  BY CurrentFacts DEF KeyInv
<1>2. sending[s] \in Nat
  BY DEF KeyInv, Base, TypeOK
<1>3. answer[Current(s)] = "none" /\ reports[Current(s)] = <<>>
  BY <1>1, <1>2 DEF KeyInv, Fresh
<1>4. ASSUME NEW k \in SendKeys, Live(k), pc[s] # "queue", opkey[k].msg = Current(s)
      PROVE  FALSE
  <2>1. PICK r \in Senders : pc[r] = "queue" /\ opkey[k].msg = Current(r)
    BY <1>3, <1>4, LiveFacts DEF Awaited
  <2>2. Current(r)[1] = r
    BY <2>1, CurrentFacts DEF KeyInv, Base, Places
  <2>. QED  BY <1>1, <1>4, <2>1, <2>2
<1>. QED  BY <1>3, <1>4 DEF Awaited

\* A sender that waits calls when none of his messages is awaited.
LEMMA NoneAwaited ==
  ASSUME KeyInv, PatientLast, Patient, NEW s \in Senders,
         SendCheck(s) \/ pc[s] # "idle",
         NEW m, Awaited(m)
  PROVE  m[1] # s
<1>. SUFFICES ASSUME m[1] = s PROVE FALSE
  OBVIOUS
<1>1. m \in Msgs /\ m[2] = sending[s] - 1 /\ pc[s] = "idle"
  BY UseFacts DEF PatientLast, Awaited, KeyInv
<1>2. m = <<s, sending[s] - 1>> /\ m[2] >= 1 /\ sending[s] \in Nat
  BY <1>1 DEF Msgs, KeyInv, Base, TypeOK
<1>3. sending[s] > 1
  BY <1>1, <1>2
<1>4. Outstanding(s)
  BY <1>2, <1>3 DEF Outstanding, Awaited
<1>. QED  BY <1>1, <1>4 DEF SendCheck

LEMMA SenderUnsent ==
  ASSUME KeyInv, Unsent, NEW s \in Senders, NEW op \in {SEND, SEND_TO}, SendStep(s, op)
  PROVE  Unsent'
<1>1. SenderEffects(s, op) /\ \A r \in Senders : sending[r] \in Nat
  BY SenderDoes DEF KeyInv, Base, TypeOK
<1>2. Current(s)[1] = s /\ Current(s)[2] = sending[s]
  BY <1>1, CurrentFacts DEF SenderEffects, KeyInv
<1>3. ASSUME NEW m \in Msgs, m[2] >= sending'[m[1]]
      PROVE  Bytes(m)' = 0
  <2>1. m[1] \in Senders /\ m[2] \in Nat
    BY DEF Msgs
  <2>2. m[2] >= sending[m[1]]
    BY <1>1, <1>3, <2>1 DEF SenderEffects
  <2>3. Bytes(m) = 0
    BY <2>2 DEF Unsent
  <2>4. ~(m = Current(s) /\ sending'[s] = sending[s] + 1)
    BY <1>1, <1>2, <1>3, <2>1
  <2>. QED  BY <2>3, <2>4, SenderBytes
<1>. QED  BY <1>3 DEF Unsent

LEMMA SenderFilled ==
  ASSUME KeyInv, OwnMemory(use), Filled, NEW s \in Senders, NEW op \in {SEND, SEND_TO},
         SendStep(s, op)
  PROVE  Filled'
<1>1. SenderEffects(s, op) /\ BufferOf' = BufferOf /\ BufferOf \in [Msgs -> Buffers]
      /\ buffer \in [Buffers -> Msgs \cup {Null}]
  <2>1. SenderEffects(s, op)
    BY SenderDoes
  <2>. QED  BY <2>1, UseKept, UseFacts DEF SenderEffects, KeyInv, Base, TypeOK
<1>2. ASSUME NEW r \in Senders, pc'[r] # "idle"
      PROVE  Current(r)' = Current(r)
  BY <1>1, <1>2 DEF SenderEffects
<1>3. CASE SendCheck(s)
  <2>1. buffer' = [buffer EXCEPT ![BufferOf[Current(s)]] = Current(s)]
    BY <1>3 DEF SendCheck
  <2>2. Current(s) \in Msgs /\ Current(s) \in Sent /\ Current(s)[1] = s
    BY <1>1, CurrentFacts DEF SenderEffects, KeyInv
  <2>3. buffer'[BufferOf[Current(s)]] = Current(s)
    BY <1>1, <2>1, <2>2
  <2>4. ASSUME NEW r \in Senders, r # s, pc'[r] # "idle"
        PROVE  buffer'[BufferOf[Current(r)]] = Current(r)
    <3>1. pc[r] # "idle"
      BY <1>1, <2>4 DEF SenderEffects
    <3>2. Current(r) \in Sent /\ Current(r)[1] = r
      BY <3>1, CurrentFacts DEF KeyInv, Base, Places
    <3>3. BufferOf[Current(r)] # BufferOf[Current(s)]
      BY <2>2, <2>4, <3>2, OwnBuffers DEF KeyInv
    <3>4. BufferOf[Current(r)] \in Buffers
      BY <1>1, <3>2, UseFacts DEF KeyInv
    <3>. QED  BY <1>1, <2>1, <3>1, <3>3, <3>4 DEF Filled
  <2>. QED  BY <1>1, <1>2, <2>3, <2>4 DEF Filled
<1>4. CASE ~SendCheck(s)
  <2>1. buffer' = buffer /\ pc[s] # "idle"
    BY <1>1, <1>4 DEF SenderEffects
  <2>2. \A r \in Senders : pc'[r] # "idle" => pc[r] # "idle"
    BY <1>1, <2>1 DEF SenderEffects
  <2>. QED  BY <1>1, <1>2, <2>1, <2>2 DEF Filled
<1>. QED  BY <1>3, <1>4

LEMMA SenderLast ==
  ASSUME KeyInv, PatientLast, NEW s \in Senders, NEW op \in {SEND, SEND_TO}, SendStep(s, op)
  PROVE  PatientLast'
<1>1. SenderEffects(s, op) /\ Patient' = Patient /\ Sent' = Sent /\ Sent \subseteq Msgs
  <2>1. SenderEffects(s, op)
    BY SenderDoes
  <2>. QED  BY <2>1, UseKept, UseFacts DEF SenderEffects, KeyInv
<1>2. Current(s)[1] = s /\ Current(s)[2] = sending[s] /\ sending[s] \in Nat
  BY <1>1, CurrentFacts DEF SenderEffects, KeyInv, Base, TypeOK
<1>3. ASSUME Patient, NEW m \in Msgs, Awaited(m)'
      PROVE  m[2] = sending'[m[1]] - 1 /\ pc'[m[1]] = "idle"
  <2>1. CASE m = Current(s) /\ sending'[s] = sending[s] + 1
    BY <1>1, <1>2, <2>1 DEF SenderEffects
  <2>2. CASE ~(m = Current(s) /\ sending'[s] = sending[s] + 1)
    <3>1. Awaited(m)
      BY <1>1, <1>3, <2>2 DEF SenderEffects, Awaited
    <3>2. SendCheck(s) \/ pc[s] # "idle"
      BY <1>1 DEF SenderEffects
    <3>3. m[1] # s /\ m[1] \in Senders
      BY <1>3, <3>1, <3>2, NoneAwaited DEF Msgs
    <3>. QED  BY <1>1, <1>3, <3>1, <3>3 DEF SenderEffects, PatientLast
  <2>. QED  BY <2>1, <2>2
<1>. QED  BY <1>1, <1>3 DEF PatientLast


\* Where a sender's step leaves an operation to be sent, it was one before,
\* unless it is the one he fills.
LEMMA SenderLive ==
  ASSUME KeyInv, NEW s \in Senders, NEW op \in {SEND, SEND_TO}, SendStep(s, op),
         NEW k \in SendKeys, Live(k)', ~(SendFill(s, op) /\ k = CurrentKey(s))
  PROVE  Live(k) /\ opkey'[k] = opkey[k] /\ (Failed(k) => Failed(k)')
<1>1. SenderEffects(s, op) /\ s \in Workers \cup Senders
      /\ \A p \in Pollers : p # s /\ p \in Workers
  BY SenderDoes, ThreadIds DEF Workers
<1>2. \A p \in Pollers : pc'[p] = pc[p] /\ job'[p] = job[p]
  BY <1>1 DEF SenderEffects
<1>3. \A r \in Senders : r # s => CurrentKey(r)' = CurrentKey(r)
  <2>1. use' = use
    BY <1>1 DEF SenderEffects
  <2>. QED  BY <1>1, <2>1, UseKept DEF SenderEffects, CurrentKey
<1>4. pc'[s] = "queue" => SendFill(s, op) /\ CurrentKey(s)' = CurrentKey(s)
  <2>1. pc[s] # "queue" /\ pc'[s] = "queue" => SendFill(s, op)
    BY ThreadIds DEF SendStep, SendCheck, SendSpeculate, SendDirect, SendSpin,
       SendSeesFree, SendQueue, Return, Goto, KeyInv, Base, TypeOK
  <2>2. pc[s] = "queue" => pc'[s] # "queue"
    BY ThreadIds DEF SendStep, SendCheck, SendSpeculate, SendDirect, SendSpin,
       SendSeesFree, SendFill, SendQueue, Return, Goto, KeyInv, Base, TypeOK
  <2>3. SendFill(s, op) => sending' = sending /\ use' = use
    BY DEF SendFill, caller, key
  <2>. QED  BY <2>1, <2>2, <2>3, UseKept DEF CurrentKey, Current
<1>5. Live(k)
  <2>1. CASE k \in ring'
    BY <1>1, <2>1 DEF SenderEffects, Queues, Live, Queued
  <2>2. CASE Queued(k)'
    <3>1. PICK r \in Senders : pc'[r] = "queue" /\ CurrentKey(r)' = k
      BY <2>2 DEF Queued
    <3>2. r # s
      BY <1>4, <3>1
    <3>. QED  BY <1>1, <1>3, <3>1, <3>2 DEF SenderEffects, Live, Queued
  <2>3. CASE Held(k)'
    BY <1>2, <2>3 DEF Held, Writing, Live
  <2>. QED  BY <2>1, <2>2, <2>3 DEF Live
<1>6. opkey'[k] = opkey[k]
  <2>1. k \in OpKeys /\ opkey \in [OpKeys -> OpKeyType]
    BY UseFacts, WorkTyped DEF KeyInv, Base, WorkTypes
  <2>. QED  BY <1>1, <2>1 DEF SenderEffects, SendFill
<1>. QED  BY <1>2, <1>5, <1>6 DEF Failed

LEMMA SenderStored ==
  ASSUME KeyInv, OwnMemory(use), Unsent, Filled, PatientLast, Stored,
         NEW s \in Senders, NEW op \in {SEND, SEND_TO}, SendStep(s, op)
  PROVE  Stored'
<1>. DEFINE c == Current(s)
<1>1. SenderEffects(s, op) /\ BufferOf' = BufferOf /\ SendKeys' = SendKeys
  <2>1. SenderEffects(s, op)
    BY SenderDoes
  <2>. QED  BY <2>1, UseKept DEF SenderEffects
<1>2. c \in Msgs /\ c \in Sent /\ c[1] = s /\ CurrentKey(s) \in OpKeys
      /\ BufferOf \in [Msgs -> Buffers]
  BY <1>1, CurrentFacts, UseFacts DEF SenderEffects, KeyInv
<1>3. ASSUME NEW k \in SendKeys, Live(k)'
      PROVE  /\ opkey'[k].buf = BufferOf[opkey'[k].msg]
             /\ buffer'[opkey'[k].buf] = opkey'[k].msg
             /\ \/ \A m : m = opkey'[k].msg => opkey'[k].written = Bytes(m)'
                \/ opkey'[k].written = -1 /\ Failed(k)'
  <2>1. CASE SendFill(s, op) /\ k = CurrentKey(s)
    <3>1. /\ opkey'[k] = [op |-> op, buf |-> BufferOf[c], written |-> 0, msg |-> c]
          /\ pc[s] = "fill" /\ buffer' = buffer /\ wire' = wire
      BY <1>2, <2>1 DEF SendFill, KeyInv, Base, TypeOK, net
    <3>2. buffer[BufferOf[c]] = c
      BY <3>1 DEF Filled
    <3>3. Bytes(c) = 0
      BY SenderBytes
    <3>4. \A m : Bytes(m)' = Bytes(m)
      BY <3>1 DEF Bytes
    <3>. QED  BY <3>1, <3>2, <3>3, <3>4
  <2>2. CASE ~(SendFill(s, op) /\ k = CurrentKey(s))
    <3>. DEFINE m == opkey[k].msg
    <3>1. Live(k) /\ opkey'[k] = opkey[k] /\ (Failed(k) => Failed(k)')
      BY <1>3, <2>2, SenderLive
    <3>2. /\ opkey[k].buf = BufferOf[m] /\ buffer[opkey[k].buf] = m
          /\ opkey[k].written = Bytes(m) \/ (opkey[k].written = -1 /\ Failed(k))
      BY <3>1 DEF Stored
    <3>3. m \in Sent /\ m \in Msgs
      BY <3>1, LiveFacts
    <3>4. pc[s] # "queue" => m # c
      BY <1>1, <3>1, NotCurrent DEF SenderEffects
    <3>5. buffer'[BufferOf[m]] = buffer[BufferOf[m]]
      <4>1. CASE SendCheck(s) /\ BufferOf[m] = BufferOf[c]
        <5>1. pc[s] = "idle" /\ m # c
          BY <3>4, <4>1 DEF SendCheck
        <5>2. m[1] = s /\ Patient
          BY <1>2, <3>3, <4>1, <5>1, OwnBuffers DEF KeyInv
        <5>3. Awaited(m)
          <6>1. ASSUME NEW r \in Senders, pc[r] = "queue", m = Current(r)
                PROVE  FALSE
            <7>1. Current(r)[1] = r
              BY <6>1, CurrentFacts DEF KeyInv, Base, Places
            <7>. QED  BY <5>1, <5>2, <6>1, <7>1
          <6>. QED  BY <3>1, <6>1, LiveFacts
        <5>. QED  BY <4>1, <5>2, <5>3, NoneAwaited
      <4>2. CASE SendCheck(s) /\ BufferOf[m] # BufferOf[c]
        <5>1. buffer' = [buffer EXCEPT ![BufferOf[c]] = c]
          BY <4>2 DEF SendCheck
        <5>2. BufferOf[m] \in Buffers /\ buffer \in [Buffers -> Msgs \cup {Null}]
          BY <1>2, <3>3 DEF KeyInv, Base, TypeOK
        <5>. QED  BY <4>2, <5>1, <5>2
      <4>. QED  BY <1>1, <4>1, <4>2 DEF SenderEffects
    <3>6. Bytes(m)' = Bytes(m)
      <4>1. ASSUME NEW n, n = m, Bytes(n)' # Bytes(n)
            PROVE  FALSE
        <5>1. n = c /\ pc[s] = "direct"
          BY <4>1, SenderBytes
        <5>. QED  BY <3>4, <4>1, <5>1
      <4>2. opkey'[k].msg = m
        BY <3>1
      <4>. QED  BY <3>1, <4>1, <4>2
    <3>. QED  BY <3>1, <3>2, <3>5, <3>6
  <2>. QED  BY <2>1, <2>2
<1>. QED  BY <1>1, <1>3 DEF Stored


LEMMA SenderReporting ==
  ASSUME KeyInv, Unsent, PatientLast, Reporting, NEW s \in Senders,
         NEW op \in {SEND, SEND_TO}, SendStep(s, op)
  PROVE  Reporting'
<1>1. SenderEffects(s, op) /\ Patient' = Patient
  <2>1. SenderEffects(s, op)
    BY SenderDoes
  <2>. QED  BY <2>1, UseKept DEF SenderEffects
<1>2. ASSUME Patient, NEW p \in Pollers, pc'[p] = "writeCall"
      PROVE  opkey'[job[p].key].written \in {-1, Bytes(job[p].msg)'}
  <2>. DEFINE m == job[p].msg
              j == job[p].key
  <2>1. job' = job /\ pc[p] = "writeCall"
    BY <1>1, <1>2, ThreadIds DEF SenderEffects, Workers
  <2>2. opkey[j].written \in {-1, Bytes(m)}
    BY <1>2, <2>1 DEF Reporting
  <2>3. Awaited(m) /\ m \in Sent /\ j = KeyOf[m] /\ j \in OpKeys
    BY <2>1, UseFacts DEF KeyInv, Hands, SendJobs, Awaited
  <2>4. \A n : n = m => Bytes(n)' = Bytes(n)
    BY <1>1, <2>3, NotCurrent, SenderBytes DEF SenderEffects
  <2>5. opkey'[j] = opkey[j]
    <3>1. CASE SendFill(s, op) /\ j = CurrentKey(s)
      <4>1. pc[s] = "fill"
        BY <3>1 DEF SendFill
      <4>2. Current(s) \in Sent /\ Current(s)[1] = s /\ KeyOf[Current(s)] = j
        BY <1>1, <3>1, CurrentFacts DEF SenderEffects, KeyInv
      <4>3. m[1] = s
        BY <2>3, <4>2, UseFacts DEF KeyInv
      <4>. QED  BY <1>2, <2>3, <4>1, <4>3, NoneAwaited
    <3>2. CASE ~(SendFill(s, op) /\ j = CurrentKey(s))
      BY <1>1, <2>3, <3>2 DEF SenderEffects, SendFill, KeyInv, Base, TypeOK
    <3>. QED  BY <3>1, <3>2
  <2>. QED  BY <2>1, <2>2, <2>4, <2>5
<1>3. job' = job
  BY <1>1 DEF SenderEffects
<1>. QED  BY <1>1, <1>2, <1>3 DEF Reporting

LEMMA SenderKeepsBytes ==
  ASSUME KeyInv, ByteInv, NEW s \in Senders, NEW op \in {SEND, SEND_TO}, SendStep(s, op)
  PROVE  ByteInv'
<1>1. SenderEffects(s, op) /\ use' = use /\ Patient' = Patient /\ Size \in Nat
  <2>1. SenderEffects(s, op)
    BY SenderDoes
  <2>. QED  BY <2>1, UseKept, KeyAssumption DEF SenderEffects
<1>2. OwnMemory(use)'
  BY <1>1 DEF ByteInv, OwnMemory
<1>3. Unsent' /\ Filled' /\ Stored' /\ PatientLast' /\ Reporting'
  BY SenderUnsent, SenderFilled, SenderStored, SenderLast, SenderReporting DEF ByteInv
<1>4. Cancels'
  BY <1>1, ThreadIds DEF ByteInv, Cancels, SenderEffects, Workers
<1>5. SentOnce'
  <2>1. \A m \in Msgs : Bytes(m)' <= Size
    BY <1>1, SenderBytes DEF ByteInv, SentOnce
  <2>. QED  BY <2>1 DEF SentOnce
<1>6. ReportedTrue'
  <2>1. ASSUME Patient, NEW m \in Msgs, NEW i \in DOMAIN reports[m], reports[m][i] >= 0
        PROVE  reports[m][i] = Bytes(m)'
    <3>1. m # Current(s)
      BY <1>1, <2>1, NotCurrent DEF SenderEffects
    <3>2. Bytes(m)' = Bytes(m)
      BY <3>1, SenderBytes DEF ByteInv
    <3>. QED  BY <2>1, <3>2 DEF ByteInv, ReportedTrue
  <2>2. reports' = reports
    BY <1>1 DEF SenderEffects
  <2>. QED  BY <1>1, <2>1, <2>2 DEF ReportedTrue
<1>. QED  BY <1>2, <1>3, <1>4, <1>5, <1>6 DEF ByteInv

-----------------------------------------------------------------------------
(* The steps of the receivers. *)

LEMMA ReceiverDoes ==
  ASSUME KeyInv, NEW r \in Receivers, ReceiverStep(r)
  PROVE  /\ UNCHANGED <<use, buffer, job, wire, sending, answer, reports>>
         /\ \A t \in Senders \cup Workers : pc'[t] = pc[t]
         /\ \A k \in SendKeys : opkey'[k] = opkey[k]
         /\ ring' \cap SendKeys = ring \cap SendKeys
         /\ \A k \in SendKeys \cap ring : next'[k] = next[k]
         /\ next'[WriteList] = next[WriteList]
<1>1. /\ UNCHANGED <<use, buffer, job, wire, sending, answer, reports>>
      /\ \A t \in Senders \cup Workers : pc'[t] = pc[t]
  BY ReceiverFrame, ThreadIds DEF caller, KeyInv, Base, TypeOK, Workers
<1>2. /\ ReadKey[r] \in OpKeys
      /\ opkey' = opkey \/ (pc[r] # "waiting" /\ r \in use.active
                            /\ \E x : opkey' = [opkey EXCEPT ![ReadKey[r]].op = x])
  BY UseFacts DEF ReceiverStep, ReadStep, ReadCheck, ReadDirect, ReadFill, ReadQueue, ops,
     KeyInv, Base, Places
<1>3. \A k \in SendKeys : opkey'[k] = opkey[k]
  <2>1. SendKeys \subseteq OpKeys /\ opkey \in [OpKeys -> OpKeyType]
    BY UseFacts, WorkTyped DEF KeyInv, Base, WorkTypes
  <2>2. opkey' = opkey \/ ReadKey[r] \notin SendKeys
    BY <1>2, KeyOfReceiver
  <2>. QED  BY <1>2, <2>1, <2>2
<1>4. CASE UNCHANGED <<next, prev>>
  BY <1>1, <1>3, <1>4 DEF ring
<1>5. CASE PushBack(ListOf(r), ReadKey[r]) /\ pc[r] = "queue"
  <2>1. ListOf(r) = ReadHead /\ r \in use.active
    BY <1>5 DEF ListOf, ReadHead, KeyInv, Base, Places
  <2>2. /\ ReadKey[r] \in OpKeys /\ ReadKey[r] \notin ring /\ home[ReadKey[r]] = ReadHead
        /\ ReadHead \in Heads /\ ReadHead # WriteList /\ ReadKey[r] \notin SendKeys
    BY <1>5, <2>1, KeyOfReceiver, UseFacts DEF KeyInv
  <2>3. LinkTypes /\ Links /\ home' = home
    BY <1>1, UseKept DEF KeyInv, Base, TypeOK, LinkTypes
  <2>4. ring' = ring \cup {ReadKey[r]}
    BY <1>5, <2>1, <2>2, <2>3, PushLinks
  <2>5. \A n \in ring : home[n] = WriteList => next'[n] = next[n]
    <3>1. ReadHead \in ring /\ home[ReadHead] = ReadHead
      BY <2>2, NodeIds, UseFacts DEF ring, KeyInv
    <3>2. PICK last \in ring : last = prev[ReadHead] /\ next[last] = ReadHead
      BY <3>1, <2>3 DEF Links
    <3>3. home[last] # WriteList
      BY <2>2, <2>3, <3>1, <3>2 DEF Links
    <3>4. next' = [next EXCEPT ![ReadKey[r]] = ReadHead, ![last] = ReadKey[r]]
      BY <1>5, <2>1, <3>2 DEF PushBack
    <3>5. ring \subseteq Nodes
      BY DEF ring
    <3>. QED  BY <2>2, <2>3, <3>3, <3>4, <3>5 DEF LinkTypes
  <2>6. WriteList \in ring /\ home[WriteList] = WriteList
        /\ \A k \in SendKeys : home[k] = WriteList
    BY NodeIds, UseFacts DEF ring, KeyInv
  <2>. QED  BY <1>1, <1>3, <2>2, <2>4, <2>5, <2>6
<1>6. UNCHANGED <<next, prev>> \/ (PushBack(ListOf(r), ReadKey[r]) /\ pc[r] = "queue")
  BY DEF ReceiverStep, ReadStep, ReadCheck, ReadDirect, ReadFill, ReadQueue, lists
<1>. QED  BY <1>4, <1>5, <1>6

\* A step that leaves the senders' variables alone.
LEMMA ReceiverKeepsBytes ==
  ASSUME KeyInv, ByteInv, NEW r \in Receivers, ReceiverStep(r)
  PROVE  ByteInv'
<1>1. /\ UNCHANGED <<use, buffer, job, wire, sending, answer, reports>>
      /\ \A t \in Senders \cup Workers : pc'[t] = pc[t]
      /\ \A k \in SendKeys : opkey'[k] = opkey[k]
      /\ ring' \cap SendKeys = ring \cap SendKeys
  BY ReceiverDoes
<1>2. /\ SendKeys' = SendKeys /\ Patient' = Patient /\ BufferOf' = BufferOf /\ Sent' = Sent
      /\ \A s \in Senders : Current(s)' = Current(s) /\ CurrentKey(s)' = CurrentKey(s)
      /\ \A m : Bytes(m)' = Bytes(m) /\ (Awaited(m)' <=> Awaited(m))
  BY <1>1, UseKept DEF Current, CurrentKey, Bytes, Awaited
<1>3. \A k \in SendKeys : (Live(k)' <=> Live(k)) /\ (Failed(k)' <=> Failed(k))
  BY <1>1, <1>2 DEF Live, Queued, Held, Writing, Failed, Workers
<1>4. OwnMemory(use)' /\ Unsent' /\ Filled' /\ SentOnce' /\ ReportedTrue'
  BY <1>1, <1>2 DEF ByteInv, OwnMemory, Unsent, Filled, SentOnce, ReportedTrue
<1>5. Stored'
  <2>1. \A k \in SendKeys : \A m : m = opkey[k].msg => Bytes(m)' = Bytes(m)
    BY <1>2
  <2>. QED  BY <1>1, <1>2, <1>3, <2>1 DEF ByteInv, Stored
<1>6. PatientLast' /\ Cancels'
  <2>1. \A m \in Msgs : m[1] \in Senders
    BY DEF Msgs
  <2>. QED  BY <1>1, <1>2, <2>1 DEF ByteInv, PatientLast, Cancels, Workers
<1>7. Reporting'
  <2>1. ASSUME NEW p \in Pollers, pc[p] = "writeCall"
        PROVE  job[p].key \in SendKeys
    BY <2>1, UseFacts DEF KeyInv, Hands, SendJobs, Awaited
  <2>. QED  BY <1>1, <1>2, <2>1 DEF ByteInv, Reporting, Workers
<1>. QED  BY <1>4, <1>5, <1>6, <1>7 DEF ByteInv


-----------------------------------------------------------------------------
(* The steps of the pollers and of the application. *)

\* What they do to the lists: a key leaves its list, taken out by a thread
\* that finds the mutex free or that has written its message; or memory
\* outside the lists is cleared.
Leaves(k) ==
  /\ k \in OpKeys /\ k \in ring /\ Erase(k)
  /\ mutex = NoThread \/ \E p \in Pollers : WriteFinish(p) /\ job[p].key = k

Cleared(k) ==
  /\ k \in OpKeys /\ k \notin ring
  /\ next' = [next EXCEPT ![k] = Null] /\ prev' = [prev EXCEPT ![k] = Null]

LEMMA WorkLinks ==
  ASSUME KeyInv, WorkStep
  PROVE  \/ UNCHANGED <<next, prev>>
         \/ \E k \in OpKeys : Leaves(k) \/ Cleared(k)
<1>1. ASSUME NEW p \in Pollers, PollerStep(p)
      PROVE  UNCHANGED <<next, prev>> \/ \E k \in OpKeys : Leaves(k)
  <2>1. ASSUME NEW h \in Heads, next[h] # h, Erase(next[h]), mutex = NoThread
        PROVE  \E k \in OpKeys : Leaves(k)
    BY <2>1, FirstNode DEF Leaves
  <2>2. CASE WriteFinish(p) /\ ~UNCHANGED <<next, prev>>
    <3>1. Erase(job[p].key) /\ pc[p] = "written" /\ ~Datagram
      BY <2>2 DEF WriteFinish, lists
    <3>2. /\ job[p].key = KeyOf[job[p].msg] /\ job[p].msg \in Sent
          /\ job[p].key \in ring
      BY <3>1 DEF KeyInv, Hands, SendJobs, Awaited, Writing
    <3>3. job[p].key \in OpKeys
      BY <3>2, UseFacts DEF KeyInv
    <3>. QED  BY <2>2, <3>1, <3>2, <3>3 DEF Leaves
  <2>3. WriteBegin(p) => \/ UNCHANGED <<next, prev>>
                         \/ next[WriteList] # WriteList /\ Erase(next[WriteList])
    BY DEF WriteBegin, Empty, lists
  <2>4. \A h : ReadBegin(p, h) => next[h] # h /\ Erase(next[h])
    BY DEF ReadBegin, Empty
  <2>5. \/ UNCHANGED <<next, prev>> \/ WriteFinish(p)
        \/ mutex = NoThread /\ WriteBegin(p)
        \/ mutex = NoThread /\ \E h \in {AcceptList, ReadList} : ReadBegin(p, h)
    BY <1>1, PollerCases DEF Leave, ConnectDone, WriteSend, WriteCallback, ConnectCallback,
       ReadCallback, lists
  <2>. QED  BY <2>1, <2>2, <2>3, <2>4, <2>5, NodeIds
<1>2. CASE AppStep
  <2>1. ASSUME NEW k \in OpKeys, top_ioqueue_post_completion(k)
        PROVE  Leaves(k)
    BY <2>1, ListedKeys DEF top_ioqueue_post_completion, Leaves
  <2>2. ASSUME NEW k \in OpKeys, Care(k), top_ioqueue_op_key_init(k)
        PROVE  Cleared(k)
    <3>1. k \notin ring
      <4>1. opkey[k].op = NONE
        BY <2>2 DEF KeyInv, Base, Exclusive, Care, top_ioqueue_is_pending
      <4>. QED  BY <4>1, UseFacts DEF KeyInv, Filed, IsSend, NONE, SEND, SEND_TO, ACCEPT
    <3>. QED  BY <2>2, <3>1 DEF top_ioqueue_op_key_init, Cleared
  <2>3. \/ UNCHANGED <<next, prev>>
        \/ \E k \in OpKeys : \/ top_ioqueue_post_completion(k)
                             \/ Care(k) /\ top_ioqueue_op_key_init(k)
    BY <1>2 DEF AppStep, top_ioqueue_connect, PostCallback, top_ioqueue_lock_key,
       top_ioqueue_unlock_key, lists
  <2>. QED  BY <2>1, <2>2, <2>3
<1>3. ASSUME NEW p \in Pollers, NEW e, Poll(p, e) PROVE UNCHANGED <<next, prev>>
  BY <1>3 DEF Poll, lists
<1>4. Outside \/ UNCHANGED vars => UNCHANGED <<next, prev>>
  BY OutsideFrame DEF vars, lists
<1>. QED  BY <1>1, <1>2, <1>3, <1>4 DEF WorkStep

LEMMA RingShrinks ==
  ASSUME KeyInv, WorkStep
  PROVE  ring' \subseteq ring
<1>1. LinkTypes /\ Links /\ home' = home
  BY WorkFrame, UseKept DEF KeyInv, Base, TypeOK, LinkTypes, WorkerFrame
<1>2. UNCHANGED <<next, prev>> => ring' = ring
  BY DEF ring
<1>. QED  BY <1>1, <1>2, WorkLinks, EraseLinks, ClearLinks DEF Leaves, Cleared

\* The callback of m is called with the count v, or none is.
CallsBack(m, v) == reports' = [reports EXCEPT ![m] = Append(@, v)]

\* A step that takes no message into the hands of a poller and sends nothing.
Calm ==
  /\ wire' = wire
  /\ \A k \in OpKeys : \/ opkey'[k].written = opkey[k].written
                       \/ opkey[k].op = NONE /\ \A t \in Workers : job[t].key # k
  /\ \A p \in Pollers :
       \/ pc'[p] = pc[p] /\ job'[p] = job[p]
       \/ ~Writing(p) /\ pc'[p] \notin {"writing", "written", "writeCall"}
  /\ pc'[App] = "postCall" => job'[App].value = -1
  /\ \/ reports' = reports
     \/ \E t \in Workers, v \in Int :
          /\ CallsBack(job[t].msg, v) /\ job[t].msg \in Msgs
          /\ Patient /\ v >= 0 => v = Bytes(job[t].msg)


LEMMA CalmPoller ==
  ASSUME KeyInv, ByteInv, NEW p \in Pollers, PollerStep(p)
  PROVE  \/ Calm \/ WriteSend(p) \/ WriteFinish(p)
         \/ mutex = NoThread /\ pc[p] = WRITEABLE /\ WriteBegin(p)
<1>1. /\ p \in Workers /\ p # App /\ \A q \in Pollers : q \in Workers
      /\ App \in Workers /\ opkey \in [OpKeys -> OpKeyType] /\ job \in [Workers -> Job]
      /\ ~Writing(App)
  BY ThreadIds, WorkTyped DEF Workers, KeyInv, Base, WorkTypes, Places, Writing
<1>2. ASSUME NEW x \in {"idle", "connectCall", "readCall"}, pc[p] \notin {"writing", "written"},
             wire' = wire, opkey' = opkey \/ \E k : opkey' = [opkey EXCEPT ![k].op = NONE],
             pc'[p] = x, \A t \in Workers : t # p => pc'[t] = pc[t],
             \E j : job' = job \/ job' = [job EXCEPT ![p] = j],
             \/ reports' = reports
             \/ \E t \in Workers, v \in Int :
                  /\ CallsBack(job[t].msg, v) /\ job[t].msg \in Msgs
                  /\ Patient /\ v >= 0 => v = Bytes(job[t].msg)
      PROVE  Calm
  <2>1. \A k \in OpKeys : opkey'[k].written = opkey[k].written
    BY <1>1, <1>2 DEF OpKeyType
  <2>2. \A t \in Workers : t # p => job'[t] = job[t]
    BY <1>1, <1>2
  <2>3. pc'[App] = "postCall" => job'[App].value = -1
    BY <1>1, <1>2, <2>2 DEF ByteInv, Cancels
  <2>. QED  BY <1>1, <1>2, <2>1, <2>2, <2>3 DEF Calm, Writing
<1>3. ASSUME NEW x, pc' = [pc EXCEPT ![p] = x]
      PROVE  pc'[p] = x /\ \A t \in Workers : t # p => pc'[t] = pc[t]
  BY <1>1, <1>3, WorkerAt
<1>4. ASSUME Leave(p), pc[p] \in {READABLE, WRITEABLE, EXCEPTION} PROVE Calm
  <2>1. pc[p] \notin {"writing", "written"}
    BY <1>4 DEF READABLE, WRITEABLE, EXCEPTION
  <2>. QED  BY <1>2, <1>3, <1>4, <2>1 DEF Leave, Goto, ops, net, results
<1>5. ASSUME ConnectDone(p), pc[p] \in {WRITEABLE, EXCEPTION} PROVE Calm
  <2>1. pc[p] \notin {"writing", "written"}
    BY <1>5 DEF WRITEABLE, EXCEPTION
  <2>. QED  BY <1>2, <1>3, <1>5, <2>1 DEF ConnectDone, Goto, ops, net, results
<1>6. ASSUME pc[p] = READABLE, NEW h, ReadBegin(p, h) PROVE Calm
  <2>1. pc[p] \notin {"writing", "written"}
    BY <1>6 DEF READABLE
  <2>2. /\ wire' = wire /\ reports' = reports /\ pc' = [pc EXCEPT ![p] = "readCall"]
        /\ opkey' = [opkey EXCEPT ![next[h]].op = NONE]
        /\ \E j : job' = [job EXCEPT ![p] = j]
    BY <1>6 DEF ReadBegin, Goto, results
  <2>. QED  BY <1>2, <1>3, <2>1, <2>2
<1>7. CASE ConnectCallback(p)
  BY <1>2, <1>3, <1>7 DEF ConnectCallback, AfterCallback, Goto, ops, net, results
<1>8. CASE ReadCallback(p)
  <2>1. /\ pc[p] = "readCall" /\ opkey' = opkey /\ wire' = wire /\ reports' = reports
        /\ job' = [job EXCEPT ![p] = NoJob]
    BY <1>8 DEF ReadCallback, AfterCallback, ops, net
  <2>2. pc'[p] = "idle" /\ \A t \in Workers : t # p => pc'[t] = pc[t]
    <3>1. job[p].value \in -1..MaxArrivals
      BY DEF KeyInv, Base, Places
    <3>2. (pc' = [pc EXCEPT ![p] = "idle"]) \/ Told(job[p].key, job[p].value, p)
      BY <1>8 DEF ReadCallback, Goto
    <3>. QED  BY <1>1, <1>3, <3>1, <3>2, ToldFacts
  <2>. QED  BY <1>2, <2>1, <2>2
<1>9. CASE WriteCallback(p)
  <2>. DEFINE m == job[p].msg
              v == opkey[job[p].key].written
  <2>1. /\ pc[p] = "writeCall" /\ opkey' = opkey /\ wire' = wire
        /\ job' = [job EXCEPT ![p] = NoJob] /\ pc' = [pc EXCEPT ![p] = "idle"]
        /\ reports' = reports \/ CallsBack(m, v)
    BY <1>9 DEF WriteCallback, AfterCallback, Goto, ops, net, CallsBack
  <2>2. m \in Msgs /\ job[p].key \in OpKeys
    BY <2>1, UseFacts DEF KeyInv, Hands, SendJobs, Awaited
  <2>3. v \in Int
    BY <1>1, <2>2, KeyAssumption DEF OpKeyType
  <2>4. Patient /\ v >= 0 => v = Bytes(m)
    BY <2>1 DEF ByteInv, Reporting
  <2>. QED  BY <1>1, <1>2, <1>3, <2>1, <2>2, <2>3, <2>4
<1>. QED
  BY <1>4, <1>5, <1>6, <1>7, <1>8, <1>9, PollerCases DEF READABLE, WRITEABLE, EXCEPTION

LEMMA CalmWork ==
  ASSUME KeyInv, ByteInv, WorkStep
  PROVE  Calm \/ \E p \in Pollers : \/ WriteSend(p) \/ WriteFinish(p)
                                    \/ /\ mutex = NoThread /\ pc[p] = WRITEABLE
                                       /\ WriteBegin(p)
<1>1. /\ App \in Workers /\ opkey \in [OpKeys -> OpKeyType] /\ job \in [Workers -> Job]
      /\ \A p \in Pollers : p \in Workers /\ p # App
  BY ThreadIds, WorkTyped DEF Workers, KeyInv, Base, WorkTypes
<1>2. ASSUME wire' = wire, reports' = reports, opkey' = opkey, job' = job,
             \A p \in Pollers : pc'[p] = pc[p], pc'[App] = pc[App] \/ pc'[App] # "postCall"
      PROVE  Calm
  BY <1>1, <1>2 DEF Calm, ByteInv, Cancels
<1>3. ASSUME NEW x, pc' = [pc EXCEPT ![App] = x]
      PROVE  pc'[App] = x /\ \A p \in Pollers : pc'[p] = pc[p]
  BY <1>1, <1>3, WorkerAt
<1>4. ASSUME NEW p \in Pollers, NEW e \in {READABLE, WRITEABLE, EXCEPTION}, Poll(p, e)
      PROVE  Calm
  <2>1. /\ UNCHANGED <<wire, reports, opkey, job>> /\ pc[p] = "idle"
        /\ pc' = [pc EXCEPT ![p] = e]
    BY <1>4 DEF Poll, Goto, ops, net, results
  <2>2. pc'[p] = e /\ \A t \in Workers : t # p => pc'[t] = pc[t]
    BY <1>1, <2>1, WorkerAt
  <2>3. e \notin {"writing", "written", "writeCall"}
    BY DEF READABLE, WRITEABLE, EXCEPTION
  <2>. QED  BY <1>1, <2>1, <2>2, <2>3 DEF Calm, Writing, ByteInv, Cancels
<1>5. CASE top_ioqueue_connect
  BY <1>2, <1>3, <1>5 DEF top_ioqueue_connect, Goto, ops, net, results
<1>6. CASE top_ioqueue_lock_key \/ top_ioqueue_unlock_key
  BY <1>2, <1>3, <1>6 DEF top_ioqueue_lock_key, top_ioqueue_unlock_key, Goto, ops, net,
     results
<1>7. CASE Outside \/ UNCHANGED vars
  BY <1>2, <1>7, OutsideFrame DEF vars, ops, net, results
<1>8. ASSUME NEW k \in OpKeys, top_ioqueue_post_completion(k) PROVE Calm
  <2>1. /\ UNCHANGED <<wire, reports>> /\ pc' = [pc EXCEPT ![App] = "postCall"]
        /\ opkey' = [opkey EXCEPT ![k].op = NONE]
    BY <1>8 DEF top_ioqueue_post_completion, Goto, net, results
  <2>2. PICK x : job' = [job EXCEPT ![App] = [NoJob EXCEPT !.key = k, !.value = -1, !.msg = x]]
    BY <1>8 DEF top_ioqueue_post_completion
  <2>3. job'[App].value = -1 /\ \A p \in Pollers : job'[p] = job[p]
    BY <1>1, <2>2 DEF NoJob
  <2>4. \A j \in OpKeys : opkey'[j].written = opkey[j].written
    BY <1>1, <2>1 DEF OpKeyType
  <2>. QED  BY <1>3, <2>1, <2>3, <2>4 DEF Calm
<1>9. ASSUME NEW k \in OpKeys, Care(k), top_ioqueue_op_key_init(k) PROVE Calm
  <2>1. /\ UNCHANGED <<wire, reports, job, pc>> /\ opkey[k].op = NONE
        /\ \A t \in Workers : job[t].key # k
        /\ opkey' = [opkey EXCEPT ![k].op = NONE, ![k].written = 0]
    BY <1>9 DEF KeyInv, Base, Exclusive, Care, top_ioqueue_op_key_init,
       top_ioqueue_is_pending, net, results, Workers
  <2>2. \A j \in OpKeys : j # k => opkey'[j] = opkey[j]
    BY <1>1, <2>1
  <2>. QED  BY <2>1, <2>2 DEF Calm, ByteInv, Cancels
<1>10. CASE PostCallback
  <2>1. /\ UNCHANGED <<wire, opkey>> /\ job' = [job EXCEPT ![App] = NoJob]
        /\ pc[App] = "postCall"
    BY <1>10 DEF PostCallback, ops, net
  <2>2. pc'[App] = "idle" /\ \A p \in Pollers : pc'[p] = pc[p]
    <3>1. job[App].value \in -1..MaxArrivals
      BY DEF KeyInv, Base, Places
    <3>2. (pc' = [pc EXCEPT ![App] = "idle"]) \/ Told(job[App].key, job[App].value, App)
      BY <1>10 DEF PostCallback, Goto
    <3>. QED  BY <1>1, <1>3, <3>1, <3>2, ToldFacts
  <2>3. \A p \in Pollers : job'[p] = job[p]
    BY <1>1, <2>1
  <2>4. \/ reports' = reports
        \/ CallsBack(job[App].msg, job[App].value) /\ job[App].msg # Null
    BY <1>10 DEF PostCallback, CallsBack
  <2>5. job[App].value = -1 /\ (job[App].msg # Null => job[App].msg \in Msgs)
    BY <1>1, <2>1 DEF ByteInv, Cancels, Job
  <2>. QED  BY <1>1, <2>1, <2>2, <2>3, <2>4, <2>5 DEF Calm
<1>. QED
  BY <1>4, <1>5, <1>6, <1>7, <1>8, <1>9, <1>10, CalmPoller DEF WorkStep, AppStep


\* A worker's step tells a callback, or none.
LEMMA WorkReports ==
  ASSUME KeyInv, WorkStep, NEW m \in Msgs, reports'[m] = <<>>
  PROVE  reports[m] = <<>>
<1>1. \/ reports' = reports
      \/ \E c \in Msgs : \E v : reports' = [reports EXCEPT ![c] = Append(@, v)]
  <2>1. ASSUME NEW p \in Pollers, WriteCallback(p)
        PROVE  job[p].msg \in Msgs
    BY <2>1, UseFacts DEF WriteCallback, KeyInv, Hands, SendJobs, Awaited
  <2>2. job[App].msg # Null => job[App].msg \in Msgs
    BY DEF KeyInv, Base, TypeOK, Job
  <2>3. \A p \in Pollers : PollerStep(p) =>
           \/ reports' = reports
           \/ \E c \in Msgs : \E v : reports' = [reports EXCEPT ![c] = Append(@, v)]
    BY <2>1, PollerCases DEF Leave, ConnectDone, WriteBegin, WriteSend, WriteFinish,
       ConnectCallback, ReadBegin, ReadCallback, WriteCallback, results
  <2>4. AppStep =>
           \/ reports' = reports
           \/ \E c \in Msgs : \E v : reports' = [reports EXCEPT ![c] = Append(@, v)]
    BY <2>2 DEF AppStep, top_ioqueue_connect, top_ioqueue_post_completion, PostCallback,
       top_ioqueue_op_key_init, top_ioqueue_lock_key, top_ioqueue_unlock_key, results
  <2>5. \A p, e : Poll(p, e) => reports' = reports
    BY DEF Poll, results
  <2>6. Outside \/ UNCHANGED vars => reports' = reports
    BY OutsideFrame DEF vars, results
  <2>. QED  BY <2>3, <2>4, <2>5, <2>6 DEF WorkStep
<1>2. reports \in [Msgs -> Seq(Int)]
  BY DEF KeyInv, Base, TypeOK
<1>3. \A q \in Seq(Int) : \A v : Append(q, v) # <<>>
  <2>1. ASSUME NEW q \in Seq(Int), NEW v, Append(q, v) = <<>>
        PROVE  FALSE
    <3>. DEFINE T == Int \cup {v}
    <3>1. q \in Seq(T) /\ v \in T
      OBVIOUS
    <3>2. Len(Append(q, v)) = Len(q) + 1 /\ Len(q) \in Nat
      <4>. HIDE DEF T
      <4>. QED  BY <3>1
    <3>3. Len(<<>>) = 0
      OBVIOUS
    <3>. QED  BY <2>1, <3>2, <3>3
  <2>. QED  BY <2>1
<1>. QED  BY <1>1, <1>2, <1>3

\* What holds after every such step, when it sends only what is awaited.
LEMMA WorkSteady ==
  ASSUME KeyInv, ByteInv, WorkStep,
         \A m \in Msgs : Bytes(m)' = Bytes(m) \/ Awaited(m)
  PROVE  OwnMemory(use)' /\ Unsent' /\ Filled' /\ PatientLast'
<1>1. /\ UNCHANGED <<use, buffer, retry, sending, answer>>
      /\ \A s \in Senders : pc'[s] = pc[s]
  BY WorkFrame DEF WorkerFrame
<1>2. /\ Patient' = Patient /\ BufferOf' = BufferOf /\ Sent' = Sent /\ Sent \subseteq Msgs
      /\ \A s \in Senders : Current(s)' = Current(s)
  BY <1>1, UseKept, UseFacts DEF Current, KeyInv
<1>3. Unsent'
  <2>1. ASSUME NEW m \in Msgs, m[2] >= sending[m[1]]
        PROVE  Bytes(m)' = 0
    <3>1. ~Awaited(m) /\ Bytes(m) = 0
      BY <2>1 DEF KeyInv, Fresh, Awaited, ByteInv, Unsent
    <3>. QED  BY <3>1
  <2>. QED  BY <1>1, <2>1 DEF Unsent
<1>4. \A m \in Msgs : Awaited(m)' => Awaited(m)
  BY <1>1, <1>2, WorkReports DEF Awaited
<1>5. \A m \in Msgs : m[1] \in Senders
  BY DEF Msgs
<1>. QED
  BY <1>1, <1>2, <1>3, <1>4, <1>5 DEF ByteInv, OwnMemory, Filled, PatientLast

LEMMA CalmKeeps ==
  ASSUME KeyInv, ByteInv, WorkStep, Calm
  PROVE  ByteInv'
<1>1. /\ UNCHANGED <<use, buffer, retry, sending, answer, wire>>
      /\ \A s \in Senders : pc'[s] = pc[s]
  BY WorkFrame DEF WorkerFrame, Calm
<1>2. /\ Patient' = Patient /\ BufferOf' = BufferOf /\ SendKeys' = SendKeys
      /\ \A s \in Senders : Current(s)' = Current(s) /\ CurrentKey(s)' = CurrentKey(s)
      /\ \A m : Bytes(m)' = Bytes(m)
  BY <1>1, UseKept DEF Current, CurrentKey, Bytes
<1>3. OwnMemory(use)' /\ Unsent' /\ Filled' /\ PatientLast'
  BY <1>2, WorkSteady
<1>4. SentOnce' /\ Cancels'
  BY <1>2 DEF ByteInv, SentOnce, Cancels, Calm
<1>5. Stored'
  <2>1. ASSUME NEW k \in SendKeys, Live(k)'
        PROVE  /\ Live(k) /\ k \in OpKeys /\ opkey'[k].written = opkey[k].written
               /\ opkey'[k].buf = opkey[k].buf /\ opkey'[k].msg = opkey[k].msg
               /\ Failed(k) => Failed(k)'
    <3>1. Live(k)
      <4>1. k \in ring' => k \in ring
        BY RingShrinks
      <4>2. Queued(k)' => Queued(k)
        BY <1>1, <1>2 DEF Queued
      <4>3. Held(k)' => Held(k)
        BY DEF Held, Calm, Writing
      <4>. QED  BY <2>1, <4>1, <4>2, <4>3 DEF Live
    <3>2. k \in OpKeys /\ IsSend(k)
      BY <3>1, LiveFacts
    <3>3. opkey[k].op # NONE
      BY <3>2 DEF IsSend, SEND, SEND_TO, NONE
    <3>4. opkey'[k].written = opkey[k].written
      BY <3>2, <3>3 DEF Calm
    <3>5. opkey'[k].buf = opkey[k].buf /\ opkey'[k].msg = opkey[k].msg
      BY <3>2, WorkOps
    <3>6. Failed(k) => Failed(k)'
      BY DEF Failed, Calm, Writing
    <3>. QED  BY <3>1, <3>2, <3>4, <3>5, <3>6
  <2>. QED  BY <1>1, <1>2, <2>1 DEF ByteInv, Stored
<1>6. Reporting'
  <2>1. ASSUME Patient, NEW p \in Pollers, pc'[p] = "writeCall"
        PROVE  opkey'[job'[p].key].written \in {-1, Bytes(job[p].msg)}
    <3>1. pc[p] = "writeCall" /\ job'[p] = job[p]
      BY <2>1 DEF Calm
    <3>2. job[p].key \in OpKeys /\ p \in Workers
      BY <3>1, UseFacts DEF KeyInv, Hands, SendJobs, Awaited, Workers
    <3>3. opkey'[job[p].key].written = opkey[job[p].key].written
      BY <3>2 DEF Calm
    <3>. QED  BY <2>1, <3>1, <3>3 DEF ByteInv, Reporting
  <2>2. \A p \in Pollers : pc'[p] = "writeCall" => job'[p] = job[p]
    BY DEF Calm
  <2>. QED  BY <1>2, <2>1, <2>2 DEF Reporting
<1>7. ReportedTrue'
  <2>1. reports \in [Msgs -> Seq(Int)]
    BY DEF KeyInv, Base, TypeOK
  <2>2. ASSUME Patient, NEW m \in Msgs, NEW i \in DOMAIN reports'[m], reports'[m][i] >= 0
        PROVE  reports'[m][i] = Bytes(m)
    <3>1. CASE reports'[m] = reports[m]
      BY <2>2, <3>1 DEF ByteInv, ReportedTrue
    <3>2. CASE reports'[m] # reports[m]
      <4>1. PICK t \in Workers, v \in Int :
              /\ CallsBack(job[t].msg, v) /\ job[t].msg = m
              /\ Patient /\ v >= 0 => v = Bytes(m)
        BY <2>1, <3>2 DEF Calm, CallsBack
      <4>2. reports'[m] = Append(reports[m], v)
        BY <2>1, <4>1 DEF CallsBack
      <4>3. /\ reports'[m][i] = reports[m][i] /\ i \in DOMAIN reports[m]
            \/ reports'[m][i] = v
        BY <2>1, <2>2, <4>2
      <4>. QED  BY <2>2, <4>1, <4>3 DEF ByteInv, ReportedTrue
    <3>. QED  BY <3>1, <3>2
  <2>. QED  BY <1>2, <2>2 DEF ReportedTrue
<1>. QED  BY <1>3, <1>4, <1>5, <1>6, <1>7 DEF ByteInv


\* The poller that writes, and its operation.
LEMMA WriterFacts ==
  ASSUME KeyInv, ByteInv, NEW p \in Pollers, Writing(p)
  PROVE  LET k == job[p].key
             m == job[p].msg
         IN /\ k \in SendKeys /\ k \in OpKeys /\ m \in Msgs /\ Awaited(m) /\ KeyOf[m] = k
            /\ opkey[k].msg = m /\ IsSend(k) /\ Live(k) /\ ~Queued(k)
            /\ buffer[opkey[k].buf] = m /\ opkey[k].written \in {-1, Bytes(m)}
            /\ pc[p] = "writing" => opkey[k].written = Bytes(m)
            /\ \A j : Failed(j) => j = k /\ ~job[p].ok
            /\ \A q \in Pollers : q # p => ~Writing(q)
            /\ \A q \in Pollers : pc[q] = "writeCall" =>
                 q # p /\ job[q].msg # m /\ (Patient => job[q].key # k)
<1>. DEFINE k == job[p].key
            m == job[p].msg
<1>1. /\ Awaited(m) /\ k = KeyOf[m] /\ m \in Sent /\ m \in Msgs /\ m = opkey[k].msg
      /\ IsSend(k) /\ k \in SendKeys /\ k \in OpKeys
  BY UseFacts DEF KeyInv, Hands, SendJobs, Awaited
<1>2. Live(k) /\ \A q \in Pollers : q # p => ~Writing(q)
  BY OneWriter DEF Live, Held
<1>3. ~Queued(k)
  BY DEF KeyInv, Queueing, Queued
<1>4. /\ \A j : Failed(j) => j = k /\ ~job[p].ok
      /\ pc[p] = "writing" => ~Failed(k)
  BY <1>2 DEF Failed, Writing
<1>5. /\ buffer[opkey[k].buf] = m
      /\ opkey[k].written = Bytes(m) \/ (opkey[k].written = -1 /\ Failed(k))
  <2>1. /\ buffer[opkey[k].buf] = opkey[k].msg
        /\ opkey[k].written = Bytes(opkey[k].msg) \/ (opkey[k].written = -1 /\ Failed(k))
    BY <1>1, <1>2 DEF ByteInv, Stored
  <2>. QED  BY <1>1, <2>1
<1>6. ASSUME NEW q \in Pollers, pc[q] = "writeCall"
      PROVE  q # p /\ job[q].msg # m /\ (Patient => job[q].key # k)
  <2>1. q # p
    BY <1>6 DEF Writing
  <2>2. /\ job[q].msg \in Sent /\ Awaited(job[q].msg) /\ job[q].key = KeyOf[job[q].msg]
        /\ job[q].msg \in Msgs
    BY <1>6, UseFacts DEF KeyInv, Hands, SendJobs, Awaited
  <2>3. job[q].msg # m
    BY <1>6, <2>1 DEF KeyInv, Hands, SendJobs
  <2>4. ASSUME Patient, job[q].key = k
        PROVE  FALSE
    <3>. DEFINE n == job[q].msg
    <3>1. n \in Sent /\ n \in Msgs /\ KeyOf[n] = KeyOf[m] /\ m \in Sent /\ m \in Msgs
          /\ Awaited(n) /\ Awaited(m) /\ n # m
      BY <1>1, <2>2, <2>3, <2>4
    <3>. HIDE DEF n, m
    <3>2. n[1] = m[1]
      BY <3>1, UseFacts DEF KeyInv
    <3>3. n[2] = sending[n[1]] - 1 /\ m[2] = sending[m[1]] - 1
      BY <2>4, <3>1 DEF ByteInv, PatientLast
    <3>4. n[2] = m[2]
      BY <3>2, <3>3
    <3>. QED  BY <3>1, <3>2, <3>4 DEF Msgs
  <2>. QED  BY <2>1, <2>3, <2>4
<1>. QED  BY <1>1, <1>2, <1>3, <1>4, <1>5, <1>6

LEMMA WriteBeginBytes ==
  ASSUME KeyInv, ByteInv, WorkStep, NEW p \in Pollers, mutex = NoThread, WriteBegin(p)
  PROVE  ByteInv'
<1>. DEFINE k == next[WriteList]
<1>1. /\ UNCHANGED <<use, buffer, retry, sending, answer, wire, reports, opkey>>
      /\ \A s \in Senders : pc'[s] = pc[s]
  BY WorkFrame DEF WorkerFrame, WriteBegin, ops, net, results
<1>2. /\ Patient' = Patient /\ BufferOf' = BufferOf /\ SendKeys' = SendKeys
      /\ \A s \in Senders : Current(s)' = Current(s) /\ CurrentKey(s)' = CurrentKey(s)
      /\ \A m : Bytes(m)' = Bytes(m)
  BY <1>1, UseKept DEF Current, CurrentKey, Bytes
<1>3. OwnMemory(use)' /\ Unsent' /\ Filled' /\ PatientLast'
  BY <1>2, WorkSteady
<1>4. k \in ring
  BY NodeIds, FirstNode DEF WriteBegin, Empty
<1>5. /\ pc'[p] = "writing" /\ job'[p].key = k /\ App # p /\ App \in Workers
      /\ \A q \in Workers : q # p => pc'[q] = pc[q] /\ job'[q] = job[q]
      /\ \A q \in Pollers : q \in Workers
  <2>1. /\ pc' = [pc EXCEPT ![p] = "writing"] /\ p \in Workers /\ App # p /\ App \in Workers
        /\ job' = [job EXCEPT ![p] = [NoJob EXCEPT !.key = k, !.msg = opkey[k].msg]]
        /\ job \in [Workers -> Job]
    BY ThreadIds, WorkTyped DEF WriteBegin, Goto, Workers, KeyInv, Base, WorkTypes
  <2>. QED  BY <2>1, WorkerAt DEF NoJob, Workers
<1>6. SentOnce' /\ ReportedTrue' /\ Cancels'
  BY <1>1, <1>2, <1>5 DEF ByteInv, SentOnce, ReportedTrue, Cancels
<1>7. Stored'
  <2>1. ASSUME NEW j \in SendKeys, Live(j)'
        PROVE  Live(j) /\ ~Failed(j)
    <3>1. j \in ring' => j \in ring
      BY RingShrinks
    <3>2. Queued(j)' => Queued(j)
      BY <1>1, <1>2 DEF Queued
    <3>3. Held(j)' => j = k
      BY <1>5, NobodyWrites DEF Held, Writing
    <3>4. ~Failed(j)
      BY <1>5, NobodyWrites DEF Failed
    <3>. QED  BY <1>4, <2>1, <3>1, <3>2, <3>3, <3>4 DEF Live
  <2>. QED  BY <1>1, <1>2, <2>1 DEF ByteInv, Stored
<1>8. Reporting'
  <2>1. \A q \in Pollers : pc'[q] = "writeCall" => pc[q] = "writeCall" /\ job'[q] = job[q]
    BY <1>5
  <2>. QED  BY <1>1, <1>2, <2>1 DEF ByteInv, Reporting
<1>. QED  BY <1>3, <1>6, <1>7, <1>8 DEF ByteInv

LEMMA WriteFinishBytes ==
  ASSUME KeyInv, ByteInv, WorkStep, NEW p \in Pollers, WriteFinish(p)
  PROVE  ByteInv'
<1>. DEFINE k == job[p].key
<1>0. Writing(p) /\ p \in Workers /\ App # p /\ App \in Workers
      /\ \A q \in Pollers : q \in Workers
  BY ThreadIds DEF WriteFinish, Writing, Workers
<1>1. /\ UNCHANGED <<use, buffer, retry, sending, answer, wire, reports>>
      /\ \A s \in Senders : pc'[s] = pc[s]
  BY WorkFrame DEF WorkerFrame, WriteFinish, net, results
<1>2. /\ Patient' = Patient /\ BufferOf' = BufferOf /\ SendKeys' = SendKeys
      /\ \A s \in Senders : Current(s)' = Current(s) /\ CurrentKey(s)' = CurrentKey(s)
      /\ \A m : Bytes(m)' = Bytes(m)
  BY <1>1, UseKept DEF Current, CurrentKey, Bytes
<1>3. OwnMemory(use)' /\ Unsent' /\ Filled' /\ PatientLast'
  BY <1>2, WorkSteady
<1>4. /\ k \in SendKeys /\ k \in OpKeys /\ ~Queued(k)
      /\ opkey[k].written \in {-1, Bytes(job[p].msg)}
      /\ \A j : Failed(j) => j = k /\ ~job[p].ok
      /\ \A q \in Pollers : q # p => ~Writing(q)
  BY <1>0, WriterFacts
<1>5. opkey \in [OpKeys -> OpKeyType] /\ job \in [Workers -> Job]
  BY WorkTyped DEF KeyInv, Base, WorkTypes
<1>6. /\ \A j \in OpKeys : /\ opkey'[j].written = opkey[j].written
                           /\ opkey'[j].buf = opkey[j].buf /\ opkey'[j].msg = opkey[j].msg
      /\ \A q \in Workers : q # p => pc'[q] = pc[q] /\ job'[q] = job[q]
      /\ pc'[p] \in {"idle", "writeCall"}
      /\ pc'[p] = "writeCall" => job' = job /\ k \notin ring'
      /\ pc'[p] = "idle" => job[p].ok
  <2>1. CASE /\ opkey' = [opkey EXCEPT ![k].op = NONE]
             /\ IF Datagram THEN UNCHANGED lists ELSE Erase(k)
             /\ pc' = [pc EXCEPT ![p] = "writeCall"] /\ job' = job
    <3>1. k \notin ring'
      <4>1. CASE Datagram
        <5>1. k \notin ring
          BY <1>0, <4>1 DEF KeyInv, Hands
        <5>. QED  BY <5>1, RingShrinks
      <4>2. CASE ~Datagram
        <5>1. LinkTypes /\ Links /\ home' = home /\ k \in ring
          BY <1>0, <1>1, <4>2, UseKept DEF KeyInv, Base, TypeOK, LinkTypes, Hands
        <5>. QED  BY <1>4, <2>1, <4>2, <5>1, EraseLinks
      <4>. QED  BY <4>1, <4>2
    <3>2. pc'[p] = "writeCall" /\ \A q \in Workers : q # p => pc'[q] = pc[q]
      BY <1>0, <2>1, WorkerAt
    <3>. QED  BY <1>5, <2>1, <3>1, <3>2 DEF OpKeyType
  <2>2. CASE /\ opkey' = opkey /\ pc' = [pc EXCEPT ![p] = "idle"]
             /\ job' = [job EXCEPT ![p] = NoJob] /\ job[p].ok
    <3>1. pc'[p] = "idle" /\ \A q \in Workers : q # p => pc'[q] = pc[q]
      BY <1>0, <2>2, WorkerAt
    <3>. QED  BY <1>5, <2>2, <3>1
  <2>. QED  BY <2>1, <2>2 DEF WriteFinish, Goto
<1>. HIDE DEF k
<1>7. SentOnce' /\ ReportedTrue' /\ Cancels'
  BY <1>0, <1>1, <1>2, <1>6 DEF ByteInv, SentOnce, ReportedTrue, Cancels
<1>8. Stored'
  <2>1. ASSUME NEW j \in SendKeys, Live(j)'
        PROVE  Live(j) /\ ~Failed(j) /\ j \in OpKeys
    <3>1. j \in ring' => j \in ring
      BY RingShrinks
    <3>2. Queued(j)' => Queued(j)
      BY <1>1, <1>2 DEF Queued
    <3>3. ~Held(j)'
      BY <1>0, <1>4, <1>6 DEF Held, Writing
    <3>4. Failed(j) => pc'[p] = "writeCall" /\ j = k
      BY <1>4, <1>6
    <3>5. ~Failed(j)
      BY <1>4, <1>6, <2>1, <3>2, <3>3, <3>4 DEF Live
    <3>6. Live(j)
      BY <2>1, <3>1, <3>2, <3>3 DEF Live
    <3>. QED  BY <3>5, <3>6, LiveFacts
  <2>. QED  BY <1>1, <1>2, <1>6, <2>1 DEF ByteInv, Stored
<1>9. Reporting'
  <2>1. ASSUME Patient, NEW q \in Pollers, pc'[q] = "writeCall"
        PROVE  job'[q] = job[q] /\ opkey'[job[q].key].written \in {-1, Bytes(job[q].msg)}
    <3>1. CASE q = p
      BY <1>4, <1>6, <2>1, <3>1 DEF k
    <3>2. CASE q # p
      <4>1. pc[q] = "writeCall" /\ job'[q] = job[q]
        BY <1>0, <1>6, <2>1, <3>2
      <4>2. job[q].key \in OpKeys
        BY <4>1, UseFacts DEF KeyInv, Hands, SendJobs, Awaited
      <4>. QED  BY <1>6, <2>1, <4>1, <4>2 DEF ByteInv, Reporting
    <3>. QED  BY <3>1, <3>2
  <2>. QED  BY <1>2, <2>1 DEF Reporting
<1>. QED  BY <1>3, <1>7, <1>8, <1>9 DEF ByteInv


\* The poller's write: some of what is left of the message leaves, or its
\* socket has failed.
WriteEffects(p) ==
  LET k == job[p].key
      m == job[p].msg
  IN /\ pc'[p] = "written" /\ \A q \in Workers : q # p => pc'[q] = pc[q] /\ job'[q] = job[q]
     /\ job'[p].key = k /\ job'[p].msg = m /\ job'[p].value = job[p].value
     /\ UNCHANGED <<next, prev, reports>>
     /\ \A j \in OpKeys : j # k => opkey'[j] = opkey[j]
     /\ opkey'[k].buf = opkey[k].buf /\ opkey'[k].msg = opkey[k].msg
     /\ \/ \E n \in 1..(Size - Bytes(m)) :
             Emits(m, n) /\ opkey'[k].written = Bytes(m) + n
        \/ wire' = wire /\ opkey'[k].written = -1 /\ ~job'[p].ok

LEMMA WriteSendDoes ==
  ASSUME KeyInv, ByteInv, NEW p \in Pollers, WriteSend(p)
  PROVE  WriteEffects(p)
<1>. DEFINE k == job[p].key
            m == job[p].msg
<1>1. /\ Writing(p) /\ pc[p] = "writing" /\ p \in Workers
      /\ \A q \in Workers \cup Senders \cup Receivers : q \in Threads \ {NoThread}
  BY ThreadIds DEF WriteSend, Writing, Workers
<1>2. /\ k \in OpKeys /\ opkey[k].written = Bytes(m) /\ buffer[opkey[k].buf] = m
      /\ IsSend(k)
  BY <1>1, WriterFacts
<1>3. opkey \in [OpKeys -> OpKeyType] /\ job \in [Workers -> Job]
  BY WorkTyped DEF KeyInv, Base, WorkTypes
<1>4. pc'[p] = "written" /\ \A q \in Workers : q # p => pc'[q] = pc[q]
  BY <1>1, WorkerAt DEF WriteSend, Goto
<1>5. UNCHANGED <<next, prev, reports>>
  BY DEF WriteSend, lists, results
<1>6. \/ /\ job' = job
         /\ \E n \in 1..(Size - opkey[k].written) :
              /\ wire' = wire \o [i \in 1..n |-> buffer[opkey[k].buf]]
              /\ opkey' = [opkey EXCEPT ![k].written = @ + n]
      \/ /\ opkey' = [opkey EXCEPT ![k].written = -1,
                         ![k].op = IF @ \in {SEND, SEND_TO} THEN @ ELSE NONE]
         /\ job' = [job EXCEPT ![p].ok = FALSE] /\ wire' = wire
  BY DEF WriteSend
<1>7. /\ job'[p].key = k /\ job'[p].msg = m /\ job'[p].value = job[p].value
      /\ \A q \in Workers : q # p => job'[q] = job[q]
  BY <1>1, <1>3, <1>6 DEF Job
<1>. HIDE DEF m
<1>8. CASE \E n \in 1..(Size - opkey[k].written) :
              /\ wire' = wire \o [i \in 1..n |-> buffer[opkey[k].buf]]
              /\ opkey' = [opkey EXCEPT ![k].written = @ + n]
  <2>1. PICK n \in 1..(Size - Bytes(m)) :
              /\ wire' = wire \o [i \in 1..n |-> m]
              /\ opkey' = [opkey EXCEPT ![k].written = opkey[k].written + n]
    BY <1>2, <1>8
  <2>2. opkey'[k].written = Bytes(m) + n
    BY <1>2, <1>3, <2>1 DEF OpKeyType
  <2>3. /\ \A j \in OpKeys : j # k => opkey'[j] = opkey[j]
        /\ opkey'[k].buf = opkey[k].buf /\ opkey'[k].msg = opkey[k].msg
    BY <1>2, <1>3, <2>1 DEF OpKeyType
  <2>. QED  BY <1>4, <1>5, <1>7, <2>1, <2>2, <2>3 DEF WriteEffects, Emits, m
<1>9. CASE /\ opkey' = [opkey EXCEPT ![k].written = -1,
                         ![k].op = IF @ \in {SEND, SEND_TO} THEN @ ELSE NONE]
           /\ job' = [job EXCEPT ![p].ok = FALSE] /\ wire' = wire
  <2>1. /\ opkey'[k].written = -1 /\ ~job'[p].ok
        /\ \A j \in OpKeys : j # k => opkey'[j] = opkey[j]
        /\ opkey'[k].buf = opkey[k].buf /\ opkey'[k].msg = opkey[k].msg
    BY <1>1, <1>2, <1>3, <1>9 DEF OpKeyType, Job
  <2>. QED  BY <1>4, <1>5, <1>7, <1>9, <2>1 DEF WriteEffects, m
<1>. QED  BY <1>6, <1>8, <1>9

\* The count of the bytes that leave in a poller's write.
LEMMA WriteCounts ==
  ASSUME KeyInv, ByteInv, NEW p \in Pollers, WriteSend(p)
  PROVE  /\ Bytes(job[p].msg) \in 0..Size
         /\ \A x : x # job[p].msg => Bytes(x)' = Bytes(x)
         /\ \A x : x = job[p].msg =>
              \/ /\ Bytes(x)' \in 0..Size
                 /\ opkey'[job[p].key].written = Bytes(x)'
              \/ /\ Bytes(x)' = Bytes(x)
                 /\ opkey'[job[p].key].written = -1 /\ ~job'[p].ok
<1>. DEFINE c == job[p].msg
            k == job[p].key
<1>1. WriteEffects(p) /\ Writing(p)
  BY WriteSendDoes DEF WriteSend, Writing
<1>2. c \in Msgs /\ wire \in Seq(Msgs) /\ Size \in Nat
  BY <1>1, WriterFacts, KeyAssumption DEF KeyInv, Base, TypeOK
<1>3. Bytes(c) \in Nat /\ Bytes(c) <= Size
  BY <1>2, BytesNat DEF ByteInv, SentOnce
<1>4. CASE wire' = wire /\ opkey'[k].written = -1 /\ ~job'[p].ok
  <2>1. \A x : Bytes(x)' = Bytes(x)
    BY <1>4 DEF Bytes
  <2>. QED  BY <1>2, <1>3, <1>4, <2>1
<1>5. CASE \E n \in 1..(Size - Bytes(c)) :
             Emits(c, n) /\ opkey'[k].written = Bytes(c) + n
  <2>1. PICK n \in 1..(Size - Bytes(c)) :
             Emits(c, n) /\ opkey'[k].written = Bytes(c) + n
    BY <1>5
  <2>2. n \in Nat /\ Bytes(c) + n \in 0..Size
    BY <1>2, <1>3
  <2>3. ASSUME NEW d, d = c
        PROVE  Bytes(d)' = Bytes(c) + n /\ \A x : x # d => Bytes(x)' = Bytes(x)
    <3>1. d \in Msgs /\ Emits(d, n) /\ Bytes(d) = Bytes(c)
      BY <1>2, <2>1, <2>3 DEF Emits
    <3>. QED  BY <1>2, <2>2, <3>1, EmitBytes
  <2>4. \A x : x = c => Bytes(x)' = Bytes(c) + n
    BY <2>3
  <2>5. \A x : x # c => Bytes(x)' = Bytes(x)
    BY <2>3
  <2>. QED  BY <1>2, <1>3, <2>1, <2>2, <2>4, <2>5
<1>. QED  BY <1>1, <1>4, <1>5 DEF WriteEffects

LEMMA WriteSendBytes ==
  ASSUME KeyInv, ByteInv, WorkStep, NEW p \in Pollers, WriteSend(p)
  PROVE  ByteInv'
<1>. DEFINE k == job[p].key
            m == job[p].msg
<1>1. /\ UNCHANGED <<use, buffer, retry, sending, answer>>
      /\ \A s \in Senders : pc'[s] = pc[s]
  BY WorkFrame DEF WorkerFrame
<1>2. /\ Patient' = Patient /\ BufferOf' = BufferOf /\ SendKeys' = SendKeys
      /\ \A s \in Senders : Current(s)' = Current(s) /\ CurrentKey(s)' = CurrentKey(s)
  BY <1>1, UseKept DEF Current, CurrentKey
<1>3. WriteEffects(p) /\ Writing(p) /\ ring' = ring
  BY WriteSendDoes DEF WriteEffects, ring, WriteSend, Writing
<1>4. /\ k \in SendKeys /\ k \in OpKeys /\ m \in Msgs /\ Awaited(m) /\ Live(k)
      /\ opkey[k].msg = m /\ \A j : Failed(j) => j = k
      /\ \A q \in Pollers : q # p => ~Writing(q)
      /\ \A q \in Pollers : pc[q] = "writeCall" =>
           q # p /\ job[q].msg # m /\ (Patient => job[q].key # k)
  BY <1>3, WriterFacts
<1>5. OwnMemory(use)' /\ Unsent' /\ Filled' /\ PatientLast'
  BY <1>4, WorkSteady, WriteCounts
<1>6. \A x \in Msgs : Bytes(x)' = Bytes(x) \/ (x = m /\ Bytes(x)' <= Size)
  <2>1. Size \in Nat
    BY KeyAssumption
  <2>. QED  BY <2>1, WriteCounts
<1>7. SentOnce' /\ ReportedTrue'
  <2>1. reports' = reports /\ reports[m] = <<>>
    BY <1>3, <1>4 DEF WriteEffects, Awaited
  <2>2. ASSUME NEW x \in Msgs, NEW i \in DOMAIN reports[x], x = m
        PROVE  FALSE
    BY <2>1, <2>2
  <2>3. SentOnce'
    BY <1>6 DEF ByteInv, SentOnce
  <2>4. ReportedTrue'
    BY <1>2, <1>6, <2>1, <2>2 DEF ByteInv, ReportedTrue
  <2>. QED  BY <2>3, <2>4
<1>8. Cancels'
  <2>1. App # p /\ App \in Workers
    BY ThreadIds DEF Workers
  <2>. QED  BY <1>3, <2>1 DEF ByteInv, Cancels, WriteEffects
<1>9. Stored'
  <2>1. ASSUME NEW j \in SendKeys, Live(j)'
        PROVE  Live(j)
    <3>1. Queued(j)' => Queued(j)
      BY <1>1, <1>2 DEF Queued
    <3>2. Held(j)' => j = k
      BY <1>3, <1>4 DEF Held, Writing, WriteEffects, Workers
    <3>. QED  BY <1>3, <1>4, <2>1, <3>1, <3>2 DEF Live
  <2>2. ASSUME NEW j \in SendKeys, Live(j)'
        PROVE  /\ opkey'[j].buf = BufferOf[opkey'[j].msg]
               /\ buffer[opkey'[j].buf] = opkey'[j].msg
               /\ \/ \A x : x = opkey'[j].msg => opkey'[j].written = Bytes(x)'
                  \/ opkey'[j].written = -1 /\ Failed(j)'
    <3>1. /\ Live(j) /\ j \in OpKeys
          /\ opkey[j].buf = BufferOf[opkey[j].msg] /\ buffer[opkey[j].buf] = opkey[j].msg
          /\ \/ opkey[j].written = Bytes(opkey[j].msg)
             \/ opkey[j].written = -1 /\ Failed(j)
      BY <2>1, <2>2, LiveFacts DEF ByteInv, Stored
    <3>2. CASE j = k
      <4>1. opkey'[k].buf = opkey[k].buf /\ opkey'[k].msg = m
        BY <1>3, <1>4 DEF WriteEffects
      <4>2. ~job'[p].ok => Failed(j)'
        BY <1>3, <3>2 DEF WriteEffects, Failed
      <4>3. \/ \A x : x = m => opkey'[k].written = Bytes(x)'
            \/ opkey'[k].written = -1 /\ ~job'[p].ok
        BY WriteCounts
      <4>4. opkey[k].msg = m
        BY <1>4
      <4>. HIDE DEF k, m
      <4>. QED  BY <3>1, <3>2, <4>1, <4>2, <4>3, <4>4
    <3>3. CASE j # k
      <4>1. opkey'[j] = opkey[j] /\ ~Failed(j)
        BY <1>3, <1>4, <3>1, <3>3 DEF WriteEffects
      <4>2. opkey[j].msg # m
        BY <1>4, <3>1, <3>3, LiveApart
      <4>3. \A x : x = opkey[j].msg => Bytes(x)' = Bytes(x)
        BY <4>2, WriteCounts
      <4>. QED  BY <3>1, <4>1, <4>3
    <3>. QED  BY <3>2, <3>3
  <2>. QED  BY <1>1, <1>2, <2>2 DEF Stored
<1>10. Reporting'
  <2>1. ASSUME Patient, NEW q \in Pollers, pc'[q] = "writeCall"
        PROVE  /\ job'[q] = job[q]
               /\ \A x : x = job[q].msg => opkey'[job[q].key].written \in {-1, Bytes(x)'}
    <3>1. q # p /\ q \in Workers
      BY <1>3, <2>1 DEF WriteEffects, Workers
    <3>2. pc[q] = "writeCall" /\ job'[q] = job[q]
      BY <1>3, <2>1, <3>1 DEF WriteEffects
    <3>3. job[q].msg # m /\ job[q].key # k /\ job[q].key \in OpKeys
      BY <1>4, <2>1, <3>2, UseFacts DEF KeyInv, Hands, SendJobs, Awaited
    <3>4. opkey'[job[q].key] = opkey[job[q].key]
      BY <1>3, <3>3 DEF WriteEffects
    <3>5. \A x : x = job[q].msg => Bytes(x)' = Bytes(x)
      BY <3>3, WriteCounts
    <3>. QED  BY <2>1, <3>2, <3>4, <3>5 DEF ByteInv, Reporting
  <2>. QED  BY <1>2, <2>1 DEF Reporting
<1>. QED  BY <1>5, <1>7, <1>8, <1>9, <1>10 DEF ByteInv

-----------------------------------------------------------------------------
(* The theorems of the bytes. *)

LEMMA InitBytes ==
  ASSUME Init, ExclusiveUses, OwnMemoryUses
  PROVE  ByteInv
<1>1. /\ use \in Uses /\ wire = <<>> /\ \A k \in OpKeys : next[k] = k
      /\ \A t \in Senders \cup Workers : pc[t] = "idle"
      /\ reports = [m \in Msgs |-> <<>>] /\ answer = [m \in Msgs |-> "none"]
  BY ThreadIds, NodeIds DEF Init, Workers
<1>2. \A m : Bytes(m) = 0
  BY <1>1, FS_EmptySet DEF Bytes
<1>3. OwnMemory(use) /\ KeyInv
  BY <1>1, InitInv DEF OwnMemoryUses, IInv
<1>4. \A k \in SendKeys : ~Live(k)
  BY <1>1, <1>3, UseFacts, NodeIds DEF Live, Queued, Held, Writing, ring, Workers, KeyInv
<1>5. Unsent /\ Filled /\ Stored /\ PatientLast
  BY <1>1, <1>2, <1>4 DEF Unsent, Filled, Stored, PatientLast, Awaited
<1>6. Reporting /\ Cancels
  BY <1>1 DEF Reporting, Cancels, Workers
<1>7. SentOnce /\ ReportedTrue
  BY <1>1, <1>2, KeyAssumption DEF SentOnce, ReportedTrue
<1>. QED  BY <1>3, <1>5, <1>6, <1>7 DEF ByteInv

LEMMA NextBytes == IInv /\ ByteInv /\ [Next]_vars => ByteInv'
<1>. SUFFICES ASSUME IInv, ByteInv, [Next]_vars PROVE ByteInv'
  OBVIOUS
<1>1. KeyInv
  BY DEF IInv
<1>. QED
  BY <1>1, StepCases, SenderKeepsBytes, ReceiverKeepsBytes, CalmWork, CalmKeeps,
     WriteBeginBytes, WriteSendBytes, WriteFinishBytes

LEMMA BytesInvariant ==
  ASSUME ExclusiveUses, OwnMemoryUses
  PROVE  Spec => [](IInv /\ ByteInv)
<1>1. Init => IInv /\ ByteInv
  BY InitInv, InitBytes
<1>2. IInv /\ ByteInv /\ [Next]_vars => IInv' /\ ByteInv'
  BY NextInv, NextBytes
<1>. QED  BY <1>1, <1>2, PTL DEF Spec

(* No byte of a message leaves twice: what has left of it is counted in    *)
(* its operation key, a poller sends the rest, and the fast track is taken *)
(* before anything has left (topque_dispatch_write_event,                  *)
(* top_ioqueue_send), as long as no two threads share an operation key and *)
(* a message keeps its memory until its completion.                        *)
THEOREM AlwaysSentOnce ==
  ASSUME ExclusiveUses, OwnMemoryUses
  PROVE  Spec => []SentOnce
<1>1. ByteInv => SentOnce
  BY DEF ByteInv
<1>. QED  BY <1>1, BytesInvariant, PTL

(* The byte count that on_write_complete is given, read from the operation *)
(* key after the mutex was released, is what left of the message, as long  *)
(* as a sender waits for his completions (topque_dispatch_write_event).    *)
THEOREM AlwaysReportedTrue ==
  ASSUME ExclusiveUses, OwnMemoryUses
  PROVE  Spec => []ReportedTrue
<1>1. ByteInv => ReportedTrue
  BY DEF ByteInv
<1>. QED  BY <1>1, BytesInvariant, PTL


-----------------------------------------------------------------------------
(* The order of the messages. *)

\* The operations in the write list.
WriteRing == ring \cap SendKeys

\* Nothing has left of the later messages of the sender of m.
NoneAfter(m) == \A x \in Msgs : x[1] = m[1] /\ x[2] > m[2] => Bytes(x) = 0

Ordered ==
  \A i, j \in DOMAIN wire : i < j /\ wire[i][1] = wire[j][1] => wire[i][2] <= wire[j][2]

\* f ranks the operations of the write list: below b, growing along the list
\* and with the messages of a sender.
Ranks(f, b) ==
  /\ f \in [OpKeys -> Nat] /\ b \in Nat
  /\ \A k \in WriteRing :
       /\ f[k] < b
       /\ next[k] \in WriteRing => f[k] < f[next[k]]
       /\ \A j \in WriteRing :
            opkey[j].msg[1] = opkey[k].msg[1] /\ opkey[j].msg[2] < opkey[k].msg[2] =>
              f[j] < f[k]

Ranked == \E f, b : Ranks(f, b)

\* On a stream a poller writes the first operation of the list.
HoldsFirst == ~Datagram => \A p \in Pollers : Writing(p) => job[p].key = next[WriteList]

\* A sender on the fast track has no operation in the list.
DirectAlone ==
  \A s \in Senders : pc[s] = "direct" => \A k \in WriteRing : opkey[k].msg[1] # s

\* On a stream nothing has left that is later than what is in the list.
LaterUnsent == ~Datagram => \A k \in WriteRing : NoneAfter(opkey[k].msg)

OrderInv == Ranked /\ HoldsFirst /\ DirectAlone /\ LaterUnsent /\ InOrder

\* Bytes that leave keep the order when nothing later has left.
LEMMA WireOrder ==
  ASSUME wire \in Seq(Msgs), Ordered, NEW m \in Msgs, NEW n \in Nat, Emits(m, n),
         NoneAfter(m)
  PROVE  Ordered'
<1>. DEFINE l == Len(wire)
            v == [i \in 1..n |-> m]
<1>1. l \in Nat /\ DOMAIN wire = 1..l /\ v \in Seq(Msgs) /\ Len(v) = n
  OBVIOUS
<1>2. /\ DOMAIN wire' = 1..(l + n)
      /\ \A i \in 1..l : wire'[i] = wire[i] /\ wire[i] \in Msgs
      /\ \A i \in (l + 1)..(l + n) : wire'[i] = m
  BY <1>1 DEF Emits
<1>3. ASSUME NEW i \in 1..l, wire[i][1] = m[1]
      PROVE  wire[i][2] <= m[2]
  <2>1. wire[i] \in Msgs /\ m[2] \in Nat /\ wire[i][2] \in Nat
    BY <1>2 DEF Msgs
  <2>2. ASSUME Bytes(wire[i]) = 0
        PROVE  FALSE
    <3>1. IsFiniteSet({j \in DOMAIN wire : wire[j] = wire[i]})
      BY BytesNat
    <3>2. {j \in DOMAIN wire : wire[j] = wire[i]} = {}
      BY <2>2, <3>1, FS_EmptySet DEF Bytes
    <3>. QED  BY <1>1, <3>2
  <2>3. ~(wire[i][2] > m[2])
    BY <1>3, <2>1, <2>2 DEF NoneAfter
  <2>. QED  BY <2>1, <2>3
<1>4. \A i, j \in 1..l : i < j /\ wire[i][1] = wire[j][1] => wire[i][2] <= wire[j][2]
  BY <1>1 DEF Ordered
<1>5. ASSUME NEW i \in DOMAIN wire', NEW j \in DOMAIN wire', i < j,
             wire'[i][1] = wire'[j][1]
      PROVE  wire'[i][2] <= wire'[j][2]
  <2>1. CASE j \in 1..l
    <3>1. i \in 1..l
      BY <1>1, <1>2, <1>5, <2>1
    <3>. QED  BY <1>2, <1>4, <1>5, <2>1, <3>1
  <2>2. CASE j \in (l + 1)..(l + n) /\ i \in 1..l
    BY <1>2, <1>3, <1>5, <2>2
  <2>3. CASE j \in (l + 1)..(l + n) /\ i \in (l + 1)..(l + n)
    <3>1. wire'[i] = m /\ wire'[j] = m /\ m[2] \in Nat
      BY <1>2, <2>3 DEF Msgs
    <3>. QED  BY <3>1
  <2>. QED  BY <1>1, <1>2, <2>1, <2>2, <2>3
<1>. QED  BY <1>5 DEF Ordered

LEMMA WriteRingLinks ==
  ASSUME KeyInv, NEW k \in WriteRing
  PROVE  /\ k \in OpKeys /\ k \in ring /\ home[k] = WriteList
         /\ next[k] \in WriteRing \cup {WriteList} /\ prev[next[k]] = k
         /\ prev[k] \in WriteRing \cup {WriteList} /\ next[prev[k]] = k
         /\ Live(k) /\ Awaited(opkey[k].msg) /\ opkey[k].msg \in Msgs
         /\ opkey[k].msg[2] \in Nat /\ opkey[k].msg[2] < sending[opkey[k].msg[1]]
<1>1. k \in OpKeys /\ k \in ring /\ home[k] = WriteList /\ Live(k)
      /\ Awaited(opkey[k].msg) /\ opkey[k].msg \in Msgs
  BY UseFacts DEF WriteRing, Live, KeyInv, Filed, Awaited
<1>2. \A n \in ring : home[n] = WriteList => n \in WriteRing \cup {WriteList}
  <2>1. \A n \in ring : n \in Heads \/ n \in OpKeys
    BY NodeIds DEF ring
  <2>. QED  BY <2>1, UseFacts, KeysAtHome DEF WriteRing, KeyInv
<1>3. /\ next[k] \in ring /\ home[next[k]] = home[k] /\ prev[next[k]] = k
      /\ prev[k] \in ring /\ home[next[prev[k]]] = home[prev[k]] /\ next[prev[k]] = k
  BY <1>1 DEF KeyInv, Base, Links
<1>4. opkey[k].msg[2] \in Nat /\ sending[opkey[k].msg[1]] \in Nat
  BY <1>1 DEF Msgs, KeyInv, Base, TypeOK
<1>5. ~(opkey[k].msg[2] >= sending[opkey[k].msg[1]])
  BY <1>1 DEF KeyInv, Fresh, Awaited
<1>. QED  BY <1>1, <1>2, <1>3, <1>4, <1>5

\* The first operation of the list has the lowest rank.
LEMMA FirstRank ==
  ASSUME KeyInv, NEW f, NEW b, Ranks(f, b), NEW k \in WriteRing
  PROVE  next[WriteList] \in WriteRing /\ f[next[WriteList]] <= f[k]
<1>. DEFINE g == [j \in WriteRing |-> f[j]]
<1>1. g \in [WriteRing -> Nat] /\ \A j \in WriteRing : f[j] \in Nat
  BY WriteRingLinks DEF Ranks
<1>2. PICK j \in WriteRing : \A i \in WriteRing : g[j] <= g[i]
  <2>. HIDE DEF g
  <2>. QED  BY <1>1, LowestRank
<1>3. prev[j] \in WriteRing \cup {WriteList} /\ next[prev[j]] = j
  BY WriteRingLinks
<1>4. prev[j] \notin WriteRing
  <2>1. ASSUME NEW i \in WriteRing, next[i] = j
        PROVE  FALSE
    <3>1. f[i] < f[j] /\ f[j] <= f[i] /\ f[i] \in Nat /\ f[j] \in Nat
      BY <1>1, <1>2, <2>1 DEF Ranks
    <3>. QED  BY <3>1
  <2>. QED  BY <1>3, <2>1
<1>5. next[WriteList] = j /\ f[j] <= f[k]
  BY <1>2, <1>3, <1>4
<1>. QED  BY <1>5

LEMMA NoneAfterAwaited ==
  ASSUME KeyInv, ByteInv, Patient, NEW m, Awaited(m)
  PROVE  NoneAfter(m)
<1>1. m \in Msgs /\ m[2] = sending[m[1]] - 1
  BY UseFacts DEF ByteInv, PatientLast, Awaited, KeyInv
<1>2. ASSUME NEW x \in Msgs, x[1] = m[1], x[2] > m[2]
      PROVE  x[2] >= sending[x[1]]
  <2>1. x[2] \in Nat /\ m[2] \in Nat /\ sending[m[1]] \in Nat
    BY <1>1 DEF Msgs, KeyInv, Base, TypeOK
  <2>. QED  BY <1>1, <1>2, <2>1
<1>. QED  BY <1>2 DEF NoneAfter, ByteInv, Unsent


\* The list loses operations, or nothing happens to it.
Shrinks ==
  /\ WriteRing' \subseteq WriteRing
  /\ \A k \in WriteRing' :
       /\ opkey'[k].msg = opkey[k].msg
       /\ \/ next'[k] = next[k]
          \/ \E i \in WriteRing : next[k] = i /\ next'[k] = next[i]

LEMMA ShrinksRanks ==
  ASSUME KeyInv, Shrinks, NEW f, NEW b, Ranks(f, b)
  PROVE  Ranks(f, b)'
<1>1. ASSUME NEW k \in WriteRing', next'[k] \in WriteRing'
      PROVE  f[k] < f[next'[k]]
  <2>1. /\ k \in WriteRing /\ next'[k] \in WriteRing
        /\ \A j \in WriteRing : f[j] \in Nat
    BY <1>1, WriteRingLinks DEF Shrinks, Ranks
  <2>2. CASE next'[k] = next[k]
    BY <2>1, <2>2 DEF Ranks
  <2>3. CASE \E i \in WriteRing : next[k] = i /\ next'[k] = next[i]
    <3>1. PICK i \in WriteRing : next[k] = i /\ next'[k] = next[i]
      BY <2>3
    <3>2. f[k] < f[i] /\ f[i] < f[next'[k]]
      BY <2>1, <3>1 DEF Ranks
    <3>. QED  BY <2>1, <3>1, <3>2
  <2>. QED  BY <1>1, <2>2, <2>3 DEF Shrinks
<1>2. ASSUME NEW k \in WriteRing'
      PROVE  /\ f[k] < b
             /\ \A j \in WriteRing' :
                  opkey'[j].msg[1] = opkey'[k].msg[1]
                    /\ opkey'[j].msg[2] < opkey'[k].msg[2] => f[j] < f[k]
  BY DEF Shrinks, Ranks
<1>3. f \in [OpKeys -> Nat] /\ b \in Nat
  BY DEF Ranks
<1>. QED  BY <1>1, <1>2, <1>3 DEF Ranks

LEMMA ShrinksOrder ==
  ASSUME KeyInv, OrderInv, Shrinks, HoldsFirst', UNCHANGED <<use, wire>>,
         \A s \in Senders : pc'[s] = "direct" => pc[s] = "direct"
  PROVE  OrderInv'
<1>1. Datagram' = Datagram /\ Patient' = Patient /\ \A m : Bytes(m)' = Bytes(m)
  BY UseKept DEF Bytes
<1>2. Ranked'
  <2>1. PICK f, b : Ranks(f, b)
    BY DEF OrderInv, Ranked
  <2>2. Ranks(f, b)'
    BY <2>1, ShrinksRanks
  <2>. QED  BY <2>2 DEF Ranked
<1>3. DirectAlone'
  BY DEF OrderInv, DirectAlone, Shrinks
<1>4. LaterUnsent'
  BY <1>1 DEF OrderInv, LaterUnsent, NoneAfter, Shrinks
<1>5. InOrder'
  BY <1>1 DEF OrderInv, InOrder
<1>. QED  BY <1>2, <1>3, <1>4, <1>5 DEF OrderInv

\* What taking a key out of its list does to the write list.
LEMMA EraseShrinks ==
  ASSUME KeyInv, use' = use, NEW k \in OpKeys, k \in ring, Erase(k),
         \A j \in WriteRing : opkey'[j].msg = opkey[j].msg
  PROVE  Shrinks
<1>1. LinkTypes /\ Links /\ home' = home /\ SendKeys' = SendKeys
  BY UseKept DEF KeyInv, Base, TypeOK, LinkTypes
<1>2. ring' \subseteq ring \ {k}
  BY <1>1, EraseLinks
<1>3. /\ next' = [next EXCEPT ![prev[k]] = next[k], ![k] = k]
      /\ next[prev[k]] = k /\ next \in [Nodes -> Nodes \cup {Null}]
  BY <1>1 DEF Erase, Links, LinkTypes
<1>4. ASSUME NEW j \in WriteRing'
      PROVE  /\ j \in WriteRing
             /\ \/ next'[j] = next[j]
                \/ \E i \in WriteRing : next[j] = i /\ next'[j] = next[i]
  <2>1. j \in WriteRing /\ j # k /\ j \in Nodes
    BY <1>1, <1>2, <1>4, NodeIds DEF WriteRing, ring
  <2>2. CASE j # prev[k]
    BY <1>3, <2>1, <2>2
  <2>3. CASE j = prev[k]
    <3>1. next[j] = k /\ next'[j] = next[k]
      BY <1>3, <2>1, <2>3
    <3>2. k \in WriteRing
      <4>1. home[j] = WriteList /\ home[k] = home[j]
        BY <1>1, <2>1, <3>1, WriteRingLinks DEF Links
      <4>. QED  BY <4>1, KeysAtHome DEF WriteRing
    <3>. QED  BY <2>1, <3>1, <3>2
  <2>. QED  BY <2>1, <2>2, <2>3
<1>. QED  BY <1>4 DEF Shrinks

LEMMA ReceiverKeepsOrder ==
  ASSUME KeyInv, OrderInv, NEW r \in Receivers, ReceiverStep(r)
  PROVE  OrderInv'
<1>1. /\ UNCHANGED <<use, buffer, job, wire, sending, answer, reports>>
      /\ \A t \in Senders \cup Workers : pc'[t] = pc[t]
      /\ \A k \in SendKeys : opkey'[k] = opkey[k]
      /\ ring' \cap SendKeys = ring \cap SendKeys
      /\ \A k \in SendKeys \cap ring : next'[k] = next[k]
      /\ next'[WriteList] = next[WriteList]
  BY ReceiverDoes
<1>2. SendKeys' = SendKeys /\ Datagram' = Datagram
  BY <1>1, UseKept
<1>3. Shrinks
  BY <1>1, <1>2 DEF Shrinks, WriteRing
<1>4. HoldsFirst'
  BY <1>1, <1>2 DEF OrderInv, HoldsFirst, Writing, Workers
<1>. QED  BY <1>1, <1>3, <1>4, ShrinksOrder

-----------------------------------------------------------------------------
(* The order in the steps of pollers and application. *)

LEMMA WorkShrinks ==
  ASSUME KeyInv, WorkStep
  PROVE  Shrinks
<1>1. use' = use /\ SendKeys' = SendKeys /\ LinkTypes /\ Links /\ home' = home
  BY WorkFrame, UseKept DEF KeyInv, Base, TypeOK, LinkTypes, WorkerFrame
<1>2. \A j \in WriteRing : opkey'[j].msg = opkey[j].msg
  BY WriteRingLinks, WorkOps
<1>3. CASE UNCHANGED <<next, prev>>
  BY <1>1, <1>2, <1>3 DEF Shrinks, WriteRing, ring
<1>4. ASSUME NEW k \in OpKeys, Leaves(k)
      PROVE  Shrinks
  BY <1>1, <1>2, <1>4, EraseShrinks DEF Leaves
<1>5. ASSUME NEW k \in OpKeys, Cleared(k)
      PROVE  Shrinks
  <2>1. ring' = ring
    BY <1>1, <1>5, ClearLinks DEF Cleared
  <2>2. \A j \in WriteRing : next'[j] = next[j]
    BY <1>5 DEF Cleared, WriteRing, KeyInv, Base, TypeOK, ring
  <2>. QED  BY <1>1, <1>2, <2>1, <2>2 DEF Shrinks, WriteRing
<1>. QED  BY <1>3, <1>4, <1>5, WorkLinks

\* Who writes after a step has begun to, or went on.
LEMMA WritersKept ==
  ASSUME KeyInv, ByteInv, WorkStep, NEW p \in Pollers, Writing(p)'
  PROVE  \/ mutex = NoThread /\ WriteBegin(p)
         \/ Writing(p) /\ job'[p].key = job[p].key /\ ~WriteFinish(p)
<1>1. /\ p \in Workers /\ \A q \in Pollers : q \in Workers
      /\ \A q \in Workers : q \in Threads \ {NoThread}
      /\ pc \in [Threads \ {NoThread} -> Place] /\ job \in [Workers -> Job]
  BY ThreadIds, WorkTyped DEF Workers, KeyInv, Base, TypeOK, WorkTypes
<1>2. pc'[p] \in {"writing", "written"} /\ ~WriteFinish(p)
  BY <1>1 DEF Writing, WriteFinish, Goto
<1>3. CASE Calm
  BY <1>2, <1>3 DEF Calm, Writing
<1>4. ASSUME NEW q \in Pollers, WriteSend(q)
      PROVE  Writing(p) /\ job'[p].key = job[p].key
  <2>1. WriteEffects(q) /\ Writing(q)
    BY <1>4, WriteSendDoes DEF WriteSend, Writing
  <2>. QED  BY <1>1, <1>2, <2>1 DEF WriteEffects, Writing
<1>5. ASSUME NEW q \in Pollers, WriteFinish(q)
      PROVE  Writing(p) /\ job'[p].key = job[p].key
  <2>1. q # p
    BY <1>2, <1>5
  <2>2. pc'[p] = pc[p] /\ job'[p] = job[p]
    BY <1>1, <1>5, <2>1 DEF WriteFinish, Goto
  <2>. QED  BY <1>2, <2>2 DEF Writing
<1>6. ASSUME NEW q \in Pollers, mutex = NoThread, WriteBegin(q), q # p
      PROVE  Writing(p) /\ job'[p].key = job[p].key
  <2>1. pc'[p] = pc[p] /\ job'[p] = job[p]
    BY <1>1, <1>6 DEF WriteBegin, Goto
  <2>. QED  BY <1>2, <2>1 DEF Writing
<1>. QED  BY <1>2, <1>3, <1>4, <1>5, <1>6, CalmWork

LEMMA WorkHolds ==
  ASSUME KeyInv, ByteInv, HoldsFirst, WorkStep
  PROVE  HoldsFirst'
<1>1. Datagram' = Datagram /\ LinkTypes
  BY WorkFrame, UseKept DEF WorkerFrame, KeyInv, Base, TypeOK, LinkTypes
<1>2. ASSUME ~Datagram, NEW p \in Pollers, Writing(p)'
      PROVE  job'[p].key = next'[WriteList]
  <2>1. CASE WriteBegin(p)
    <3>1. /\ job' = [job EXCEPT ![p] = [NoJob EXCEPT !.key = next[WriteList],
                                          !.msg = opkey[next[WriteList]].msg]]
          /\ next' = next
      BY <1>2, <2>1 DEF WriteBegin, lists
    <3>2. job \in [Workers -> Job] /\ p \in Workers
      BY WorkTyped DEF KeyInv, Base, WorkTypes, Workers
    <3>. QED  BY <3>1, <3>2 DEF NoJob
  <2>2. CASE Writing(p) /\ job'[p].key = job[p].key /\ ~WriteFinish(p)
    <3>1. mutex # NoThread
      BY <2>2, NobodyWrites DEF Writing, Workers
    <3>2. \A k : ~Leaves(k)
      BY <2>2, <3>1, OneWriter DEF Leaves, WriteFinish, Writing
    <3>3. next'[WriteList] = next[WriteList]
      BY <1>1, <3>2, WorkLinks, NodeIds DEF Cleared, LinkTypes
    <3>. QED  BY <1>2, <2>2, <3>3 DEF HoldsFirst
  <2>. QED  BY <1>2, <2>1, <2>2, WritersKept
<1>. QED  BY <1>1, <1>2 DEF HoldsFirst


LEMMA WriteSendOrder ==
  ASSUME KeyInv, ByteInv, OrderInv, WorkStep, NEW p \in Pollers, WriteSend(p)
  PROVE  OrderInv'
<1>. DEFINE k == job[p].key
            m == job[p].msg
<1>1. /\ UNCHANGED <<use, sending>> /\ Datagram' = Datagram /\ Patient' = Patient
      /\ \A s \in Senders : pc'[s] = pc[s]
  BY WorkFrame, UseKept DEF WorkerFrame
<1>2. Shrinks /\ HoldsFirst'
  BY WorkShrinks, WorkHolds DEF OrderInv
<1>3. PICK f, b : Ranks(f, b)
  BY DEF OrderInv, Ranked
<1>4. Ranks(f, b)'
  BY <1>2, <1>3, ShrinksRanks
<1>5. DirectAlone'
  BY <1>1, <1>2 DEF OrderInv, DirectAlone, Shrinks
<1>6. WriteEffects(p) /\ Writing(p) /\ wire \in Seq(Msgs)
  BY WriteSendDoes DEF WriteSend, Writing, KeyInv, Base, TypeOK
<1>7. k \in SendKeys /\ m \in Msgs /\ Awaited(m) /\ opkey[k].msg = m
  BY <1>6, WriterFacts
<1>8. ~Datagram => k = next[WriteList] /\ k \in WriteRing
  BY <1>6, <1>7 DEF OrderInv, HoldsFirst, KeyInv, Hands, WriteRing
<1>9. ASSUME Patient \/ ~Datagram
      PROVE  NoneAfter(m)
  BY <1>7, <1>8, <1>9, NoneAfterAwaited DEF OrderInv, LaterUnsent
<1>10. LaterUnsent'
  <2>1. ASSUME ~Datagram, NEW j \in WriteRing, NEW x \in Msgs, x[1] = opkey[j].msg[1],
               x[2] > opkey[j].msg[2]
        PROVE  Bytes(x)' = 0
    <3>1. Bytes(x) = 0
      BY <2>1 DEF OrderInv, LaterUnsent, NoneAfter
    <3>2. x # m
      <4>1. ASSUME x = m
            PROVE  FALSE
        <5>1. opkey[j].msg[2] < opkey[k].msg[2] /\ opkey[j].msg[1] = opkey[k].msg[1]
              /\ k \in WriteRing
          <6>1. x[2] \in Nat /\ opkey[j].msg[2] \in Nat
            BY WriteRingLinks DEF Msgs
          <6>. QED  BY <1>7, <1>8, <2>1, <4>1, <6>1
        <5>2. f[j] < f[k]
          BY <1>3, <5>1 DEF Ranks
        <5>3. f[k] <= f[j] /\ f[k] \in Nat /\ f[j] \in Nat
          BY <1>3, <1>8, <2>1, <5>1, FirstRank, WriteRingLinks DEF Ranks
        <5>. QED  BY <5>2, <5>3
      <4>. QED  BY <4>1
    <3>. QED  BY <3>1, <3>2, WriteCounts
  <2>. QED  BY <1>1, <1>2, <2>1 DEF LaterUnsent, NoneAfter, Shrinks
<1>11. InOrder'
  <2>1. ASSUME Patient \/ ~Datagram
        PROVE  Ordered'
    <3>1. Ordered
      BY <2>1 DEF OrderInv, InOrder, Ordered
    <3>2. CASE wire' = wire
      BY <3>1, <3>2 DEF Ordered
    <3>3. CASE \E n \in 1..(Size - Bytes(m)) : Emits(m, n)
      <4>1. PICK n \in 1..(Size - Bytes(m)) : Emits(m, n)
        BY <3>3
      <4>2. n \in Nat
        BY <1>6, BytesNat, KeyAssumption
      <4>3. ASSUME NEW d, d = m
            PROVE  Ordered'
        <5>1. d \in Msgs /\ Emits(d, n) /\ NoneAfter(d)
          BY <1>7, <1>9, <2>1, <4>1, <4>3 DEF Emits
        <5>. QED  BY <1>6, <3>1, <4>2, <5>1, WireOrder
      <4>. QED  BY <4>3
    <3>. QED  BY <1>6, <3>2, <3>3 DEF WriteEffects
  <2>. QED  BY <1>1, <2>1 DEF InOrder, Ordered
<1>. QED  BY <1>2, <1>4, <1>5, <1>10, <1>11 DEF OrderInv, Ranked

LEMMA WorkKeepsOrder ==
  ASSUME KeyInv, ByteInv, OrderInv, WorkStep
  PROVE  OrderInv'
<1>1. CASE \E p \in Pollers : WriteSend(p)
  BY <1>1, WriteSendOrder
<1>2. CASE wire' = wire
  <2>1. use' = use /\ \A s \in Senders : pc'[s] = pc[s]
    BY WorkFrame DEF WorkerFrame
  <2>. QED  BY <1>2, <2>1, ShrinksOrder, WorkShrinks, WorkHolds DEF OrderInv
<1>3. \A p : WriteFinish(p) \/ WriteBegin(p) => wire' = wire
  BY DEF WriteFinish, WriteBegin, net
<1>. QED  BY <1>1, <1>2, <1>3, CalmWork DEF Calm

-----------------------------------------------------------------------------
(* The order in the steps of the senders. *)

\* A sender leaves what is in the list alone.
LEMMA SenderRing ==
  ASSUME KeyInv, NEW s \in Senders, NEW op \in {SEND, SEND_TO}, SendStep(s, op),
         NEW k \in WriteRing
  PROVE  opkey'[k] = opkey[k]
<1>1. SenderEffects(s, op) /\ k \in OpKeys /\ IsSend(k)
  BY SenderDoes, WriteRingLinks DEF WriteRing, KeyInv, Filed
<1>2. ~(SendFill(s, op) /\ k = CurrentKey(s))
  BY <1>1 DEF SendFill, KeyInv, Queueing, IsSend, NONE, SEND, SEND_TO
<1>. QED  BY <1>1, <1>2 DEF SenderEffects, SendFill, KeyInv, Base, TypeOK

\* The operation that a sender puts at the end of the list.
LEMMA QueueRanks ==
  ASSUME KeyInv, Ranked, NEW s \in Senders, NEW op \in {SEND, SEND_TO}, SendStep(s, op),
         Queues(s), ring' = ring \cup {CurrentKey(s)}
  PROVE  Ranked'
<1>. DEFINE k == CurrentKey(s)
            last == prev[WriteList]
<1>1. /\ k \in SendKeys /\ k \in OpKeys /\ k \notin ring /\ opkey[k].msg = Current(s)
      /\ Current(s)[1] = s /\ Current(s)[2] = sending[s] /\ sending[s] \in Nat
  <2>1. s \in use.active /\ pc[s] = "queue"
    BY DEF Queues, KeyInv, Base, Places
  <2>2. sending[s] \in Nat /\ sending[s] <= MaxMessages
    BY <2>1 DEF KeyInv, Base, Places, TypeOK
  <2>. QED  BY <2>1, <2>2, CurrentFacts DEF KeyInv, Queueing
<1>2. PICK f, b : Ranks(f, b)
  BY DEF Ranked
<1>3. opkey' = opkey /\ WriteRing' = WriteRing \cup {k}
  BY <1>1, UseKept DEF Queues, WriteRing
<1>4. /\ next[last] = WriteList /\ last \in ring /\ home[last] = WriteList /\ last \in Nodes
      /\ WriteList \in ring /\ home[WriteList] = WriteList /\ WriteList \notin OpKeys
  <2>1. WriteList \in ring /\ home[WriteList] = WriteList /\ WriteList \notin OpKeys
    BY NodeIds, UseFacts DEF ring, KeyInv
  <2>2. last \in ring /\ next[last] = WriteList
    BY <2>1 DEF KeyInv, Base, Links
  <2>3. home[next[last]] = home[last]
    BY <2>2 DEF KeyInv, Base, Links
  <2>. QED  BY <2>1, <2>2, <2>3 DEF ring
<1>5. /\ next'[k] = WriteList /\ next'[last] = k
      /\ \A n \in Nodes : n # k /\ n # last => next'[n] = next[n]
  <2>1. next' = [next EXCEPT ![k] = WriteList, ![last] = k]
    BY <1>4 DEF Queues, PushBack
  <2>. QED  BY <1>1, <1>4, <2>1, NodeIds DEF KeyInv, Base, TypeOK
<1>. HIDE DEF last
<1>. DEFINE g == [f EXCEPT ![k] = b]
<1>6. /\ f \in [OpKeys -> Nat] /\ b \in Nat /\ g \in [OpKeys -> Nat] /\ b + 1 \in Nat
      /\ g[k] = b /\ \A j \in WriteRing : g[j] = f[j] /\ f[j] < b /\ f[j] \in Nat
  BY <1>1, <1>2, WriteRingLinks DEF Ranks, WriteRing
<1>7. \A j \in WriteRing : j # k /\ j \in Nodes
  BY <1>1 DEF WriteRing, ring
<1>8. ASSUME NEW j \in WriteRing', next'[j] \in WriteRing'
      PROVE  g[j] < g[next'[j]]
  <2>1. j # k
    BY <1>4, <1>5, <1>8, WriteRingLinks, <1>3, <1>1
  <2>2. j \in WriteRing
    BY <1>3, <2>1
  <2>3. CASE j = last
    BY <1>5, <1>6, <2>2, <2>3
  <2>4. CASE j # last
    <3>1. next'[j] = next[j] /\ prev[next[j]] = j /\ next[j] \in WriteRing \cup {WriteList}
      BY <1>5, <1>7, <2>2, <2>4, WriteRingLinks
    <3>2. next[j] # k /\ next[j] # WriteList
      BY <1>1, <1>4, <2>4, <3>1 DEF WriteRing, last
    <3>. QED  BY <1>2, <1>3, <1>6, <1>8, <2>2, <3>1, <3>2 DEF Ranks
  <2>. QED  BY <2>3, <2>4
<1>9. ASSUME NEW j \in WriteRing', NEW i \in WriteRing',
             opkey[i].msg[1] = opkey[j].msg[1], opkey[i].msg[2] < opkey[j].msg[2]
      PROVE  g[i] < g[j]
  <2>1. \A n \in WriteRing : opkey[n].msg[1] = s => opkey[n].msg[2] \in Nat
                                                   /\ opkey[n].msg[2] < sending[s]
    BY WriteRingLinks
  <2>2. i \in WriteRing
    BY <1>1, <1>3, <1>9, <2>1
  <2>3. CASE j = k
    BY <1>6, <2>2, <2>3
  <2>4. CASE j # k
    <3>1. j \in WriteRing
      BY <1>3, <2>4
    <3>. QED  BY <1>2, <1>6, <1>9, <2>2, <3>1 DEF Ranks
  <2>. QED  BY <2>3, <2>4
<1>10. \A j \in WriteRing' : g[j] < b + 1
  BY <1>3, <1>6
<1>11. PICK h : h = g
  OBVIOUS
<1>12. /\ h \in [OpKeys -> Nat] /\ b + 1 \in Nat
       /\ \A j \in WriteRing' : /\ h[j] < b + 1
                                /\ next'[j] \in WriteRing' => h[j] < h[next'[j]]
       /\ \A i, j \in WriteRing' :
            opkey[i].msg[1] = opkey[j].msg[1] /\ opkey[i].msg[2] < opkey[j].msg[2] =>
              h[i] < h[j]
  <2>. HIDE DEF g
  <2>. QED  BY <1>6, <1>8, <1>9, <1>10, <1>11
<1>13. Ranks(h, b + 1)'
  BY <1>3, <1>12 DEF Ranks
<1>. QED  BY <1>13 DEF Ranked


\* The fast track is taken when the list is empty.
LEMMA SenderAlone ==
  ASSUME KeyInv, Ranked, DirectAlone, NEW s \in Senders, NEW op \in {SEND, SEND_TO},
         SendStep(s, op)
  PROVE  DirectAlone'
<1>1. SenderEffects(s, op) /\ SendKeys' = SendKeys
  <2>1. SenderEffects(s, op)
    BY SenderDoes
  <2>. QED  BY <2>1, UseKept DEF SenderEffects
<1>2. \A k \in WriteRing : opkey'[k] = opkey[k]
  BY SenderRing
<1>3. ASSUME NEW r \in Senders, pc'[r] = "direct", NEW k \in WriteRing'
      PROVE  opkey'[k].msg[1] # r
  <2>1. CASE r # s
    <3>1. pc[r] = "direct"
      BY <1>1, <1>3, <2>1 DEF SenderEffects
    <3>2. CASE k \in WriteRing
      BY <1>2, <3>1, <3>2 DEF DirectAlone
    <3>3. CASE k \notin WriteRing
      <4>1. Queues(s) /\ k = CurrentKey(s)
        BY <1>1, <1>3, <3>3 DEF SenderEffects, WriteRing
      <4>2. opkey[k].msg = Current(s) /\ Current(s)[1] = s
        BY <4>1, CurrentFacts DEF Queues, KeyInv, Base, Places, Queueing
      <4>3. opkey' = opkey
        BY <4>1 DEF Queues
      <4>. QED  BY <2>1, <4>2, <4>3
    <3>. QED  BY <3>2, <3>3
  <2>2. CASE r = s
    <3>1. SendSpeculate(s) /\ Empty(WriteList)
      BY <1>3, <2>2, ThreadIds DEF SendStep, SendCheck, SendSpeculate, SendDirect, SendSpin,
         SendSeesFree, SendFill, SendQueue, Return, Goto, KeyInv, Base, TypeOK
    <3>2. k \in WriteRing
      BY <1>1, <1>3, <3>1 DEF SenderEffects, WriteRing, SendSpeculate, Queues
    <3>3. WriteList \in WriteRing
      BY <3>1, <3>2, FirstRank DEF Ranked, Empty
    <3>. QED  BY <3>3, WriteRingLinks, NodeIds
  <2>. QED  BY <2>1, <2>2
<1>. QED  BY <1>3 DEF DirectAlone

LEMMA SenderKeepsOrder ==
  ASSUME KeyInv, ByteInv, OrderInv, NEW s \in Senders, NEW op \in {SEND, SEND_TO},
         SendStep(s, op)
  PROVE  OrderInv'
<1>. DEFINE c == Current(s)
<1>1. /\ SenderEffects(s, op) /\ SendKeys' = SendKeys /\ Datagram' = Datagram
      /\ Patient' = Patient /\ wire \in Seq(Msgs)
      /\ \A p \in Pollers : pc'[p] = pc[p] /\ job'[p] = job[p]
  <2>1. SenderEffects(s, op)
    BY SenderDoes
  <2>2. \A p \in Pollers : p \in Workers /\ p # s
    BY ThreadIds DEF Workers
  <2>. QED  BY <2>1, <2>2, UseKept DEF SenderEffects, KeyInv, Base, TypeOK
<1>2. \A k \in WriteRing : opkey'[k] = opkey[k]
  BY SenderRing
<1>3. c \in Msgs /\ c[1] = s /\ c[2] = sending[s] /\ sending[s] \in Nat
  BY <1>1, CurrentFacts DEF SenderEffects, KeyInv, Base, TypeOK
<1>4. NoneAfter(c)
  <2>1. ASSUME NEW x \in Msgs, x[1] = s, x[2] > sending[s]
        PROVE  x[2] >= sending[x[1]]
    <3>1. x[2] \in Nat
      BY DEF Msgs
    <3>. QED  BY <1>3, <2>1, <3>1
  <2>. QED  BY <1>3, <2>1 DEF NoneAfter, ByteInv, Unsent
<1>5. Ranked' /\ HoldsFirst'
  <2>1. UNCHANGED <<next, prev>> /\ ring' = ring => Ranked' /\ HoldsFirst'
    <3>1. SUFFICES ASSUME UNCHANGED <<next, prev>>, ring' = ring
                   PROVE  Ranked' /\ HoldsFirst'
      OBVIOUS
    <3>2. Shrinks
      BY <1>1, <1>2, <3>1 DEF Shrinks, WriteRing
    <3>3. Ranked'
      BY <3>2, ShrinksRanks DEF OrderInv, Ranked
    <3>4. HoldsFirst'
      BY <1>1, <3>1 DEF OrderInv, HoldsFirst, Writing
    <3>. QED  BY <3>3, <3>4
  <2>2. Queues(s) /\ ring' = ring \cup {CurrentKey(s)} => Ranked' /\ HoldsFirst'
    BY <1>1, QueueRanks, NobodyWrites DEF OrderInv, HoldsFirst, Writing, Queues, Workers
  <2>. QED  BY <1>1, <2>1, <2>2 DEF SenderEffects
<1>6. DirectAlone'
  BY SenderAlone DEF OrderInv
<1>7. LaterUnsent'
  <2>1. ASSUME ~Datagram, NEW k \in WriteRing, NEW x \in Msgs, x[1] = opkey[k].msg[1],
               x[2] > opkey[k].msg[2]
        PROVE  Bytes(x)' = 0
    <3>1. Bytes(x) = 0
      BY <2>1 DEF OrderInv, LaterUnsent, NoneAfter
    <3>2. ~(x = c /\ pc[s] = "direct")
      BY <1>3, <2>1 DEF OrderInv, DirectAlone
    <3>. QED  BY <3>1, <3>2, SenderBytes DEF ByteInv
  <2>2. ASSUME NEW k \in WriteRing', k \notin WriteRing
        PROVE  opkey'[k].msg = c /\ wire' = wire
    <3>1. Queues(s) /\ k = CurrentKey(s)
      BY <1>1, <2>2 DEF SenderEffects, WriteRing
    <3>2. opkey[k].msg = c /\ opkey' = opkey
      BY <3>1 DEF Queues, KeyInv, Queueing
    <3>3. wire' = wire
      BY <1>1, <3>1 DEF SenderEffects, Queues
    <3>. QED  BY <3>2, <3>3
  <2>3. wire' = wire => \A x : Bytes(x)' = Bytes(x)
    BY DEF Bytes
  <2>4. ASSUME ~Datagram, NEW k \in WriteRing', NEW x \in Msgs, x[1] = opkey'[k].msg[1],
               x[2] > opkey'[k].msg[2]
        PROVE  Bytes(x)' = 0
    BY <1>2, <1>4, <2>1, <2>2, <2>3, <2>4 DEF NoneAfter
  <2>. QED  BY <1>1, <2>4 DEF LaterUnsent, NoneAfter
<1>8. InOrder'
  <2>1. ASSUME Ordered, wire' # wire
        PROVE  Ordered'
    <3>1. PICK n \in 1..Size : Emits(c, n)
      BY <1>1, <2>1 DEF SenderEffects
    <3>2. n \in Nat
      OBVIOUS
    <3>3. ASSUME NEW d, d = c
          PROVE  Ordered'
      <4>1. d \in Msgs /\ Emits(d, n) /\ NoneAfter(d)
        BY <1>3, <1>4, <3>1, <3>3 DEF Emits
      <4>. QED  BY <1>1, <2>1, <3>2, <4>1, WireOrder
    <3>. QED  BY <3>3
  <2>2. wire' = wire /\ Ordered => Ordered'
    BY DEF Ordered
  <2>. QED  BY <1>1, <2>1, <2>2 DEF OrderInv, InOrder, Ordered
<1>. QED  BY <1>5, <1>6, <1>7, <1>8 DEF OrderInv

-----------------------------------------------------------------------------
(* The theorem of the order. *)

LEMMA InitOrder ==
  ASSUME Init, ExclusiveUses
  PROVE  OrderInv
<1>1. /\ wire = <<>> /\ \A k \in OpKeys : next[k] = k
      /\ \A t \in Senders \cup Workers : pc[t] = "idle"
  BY ThreadIds, NodeIds DEF Init, Workers
<1>2. WriteRing = {}
  BY <1>1, InitInv, UseFacts, NodeIds DEF WriteRing, ring, IInv, KeyInv
<1>3. Ranked
  <2>1. [k \in OpKeys |-> 0] \in [OpKeys -> Nat]
    OBVIOUS
  <2>2. Ranks([k \in OpKeys |-> 0], 0)
    BY <1>2, <2>1 DEF Ranks
  <2>. QED  BY <2>2 DEF Ranked
<1>4. HoldsFirst /\ DirectAlone /\ LaterUnsent
  BY <1>1, <1>2 DEF HoldsFirst, Writing, Workers, DirectAlone, LaterUnsent
<1>5. InOrder
  BY <1>1 DEF InOrder
<1>. QED  BY <1>3, <1>4, <1>5 DEF OrderInv

LEMMA NextOrder == IInv /\ ByteInv /\ OrderInv /\ [Next]_vars => OrderInv'
<1>. SUFFICES ASSUME IInv, ByteInv, OrderInv, [Next]_vars PROVE OrderInv'
  OBVIOUS
<1>1. KeyInv
  BY DEF IInv
<1>. QED
  BY <1>1, StepCases, SenderKeepsOrder, ReceiverKeepsOrder, WorkKeepsOrder

(* The messages of a sender leave in the order he sent them, on a datagram *)
(* socket if he waits for completions: a stream's operation stays at the   *)
(* front of the list until it is sent, and the fast track is taken only    *)
(* when the list is empty (top_ioqueue_send, topque_dispatch_write_event). *)
THEOREM AlwaysSentInOrder ==
  ASSUME ExclusiveUses, OwnMemoryUses
  PROVE  Spec => []InOrder
<1>1. Init => OrderInv
  BY InitOrder
<1>2. OrderInv => InOrder
  BY DEF OrderInv
<1>. QED  BY <1>1, <1>2, NextOrder, BytesInvariant, PTL DEF Spec


=============================================================================
