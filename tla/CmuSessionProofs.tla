-------------------------- MODULE CmuSessionProofs --------------------------
(***************************************************************************)
(* The session with the CMU: the sockets that the handlers use exist, the  *)
(* identity is the same wherever it is kept, and a keep-alive names an     *)
(* identity that the CMU has named.  For every number of identities, every *)
(* timing and every number of faults.                                      *)
(*                                                                         *)
(* The inductive invariant says how far the process is (Life), what the    *)
(* handler of a login answer has done so far (Identity), and what the      *)
(* datagrams on the way imply about MDU.conf (Answers, Conversation).      *)
(***************************************************************************)
EXTENDS CmuSession, FiniteSetTheorems, TLAPS

\* The identities that an answer of the CMU has named.
Named == 1..known \cup refused

\* An identity of a process that runs.
Valid == {Fresh} \cup Given

\* The process, its threads and what they have done.
Life ==
  /\ proc = "down" => created = 0
  /\ proc = "start" => created < 7
  /\ proc = "up" => created = 7
  /\ ka = "none" <=> created < 2
  /\ io # "idle" \/ heard \/ bRegister => created = 7

\* The identity in the file and in memory, at each place of the handler.
Identity ==
  /\ created >= 1 => conf \in Valid \cup {Lost}
  /\ created >= 1 /\ io # "write" => conf \in Valid
  /\ created >= 2 => mduId \in Valid /\ tagId \in Valid
  /\ created >= 2 /\ io \in {"idle", "blocked", "open"} => mduId = conf /\ tagId = conf
  /\ io = "update" => conf = answer
  /\ created = 7 /\ bRegister /\ io \in {"idle", "blocked"} => csgId = conf

\* Logins carry the identity of a process, answers one that the CMU has
\* named.
Answers ==
  /\ \A m \in net : m.type \in {"login", "accept", "refuse"} => m.id \in Valid
  /\ \A m \in net : m.type \in {"accept", "refuse"} => m.id \in Named
  /\ io \in {"open", "write", "update"} => answer \in Valid \cap Named

\* There are keep-alives, or answers to them, only when the file holds an
\* identity that the CMU has named, or is being written.
Conversation ==
  /\ \A m \in net : m.type \in {"alive", "ack"} => conf \in Named \cup {Lost}
  /\ heard => conf \in Named \cup {Lost} /\ mduId \in Named

IInv ==
  /\ TypeOK /\ IsFiniteSet(net)
  /\ Life /\ Identity /\ Answers /\ Conversation /\ AliveIdentity

-----------------------------------------------------------------------------
(* The constants, one by one. *)
LEMMA Constants ==
  /\ Shipped \in {Fresh, Zero}
  /\ MaxId \in Nat /\ MaxId > 0 /\ Sleep \in Nat /\ Sleep > 0
  /\ Limit \in Nat /\ Limit > 0 /\ Capacity \in Nat /\ Capacity > 0
  /\ MaxLag \in Nat /\ MaxFaults \in Nat
  /\ TimeRange \in Nat /\ TimeRange > Limit
BY SessionAssumption

(* What the main thread has created. *)

Parts == {"conf", "cmu", "csgdata", "csgmsg", "cu", "cas", "poll"}

LEMMA StartupOrder ==
  /\ Len(Startup) = 7
  /\ Startup \in Seq(Parts)
  /\ Startup[1] = "conf" /\ Startup[2] = "cmu" /\ Startup[3] = "csgdata"
  /\ Startup[4] = "csgmsg" /\ Startup[5] = "cu" /\ Startup[6] = "cas"
  /\ Startup[7] = "poll"
<1>1. Startup \in Seq(Parts)
  BY DEF Startup, Parts
<1>2. /\ Startup[1] = "conf" /\ Startup[2] = "cmu" /\ Startup[3] = "csgdata"
      /\ Startup[4] = "csgmsg" /\ Startup[5] = "cu" /\ Startup[6] = "cas"
      /\ Startup[7] = "poll" 
  BY DEF Startup
<1>3. Len(Startup) = 7
  BY DEF Startup
<1>. QED  BY <1>1, <1>2, <1>3

(* Part s of Startup exists when the main thread got that far. *)
LEMMA CreatedSoFar ==
  ASSUME created \in 0..7
  PROVE  /\ "cmu" \in Created <=> created >= 2
         /\ "poll" \in Created <=> created = 7
         /\ created = 7 => {"cmu", "csgdata", "csgmsg", "cu", "cas"} \subseteq Created
<1>1. Created = {Startup[i] : i \in 1..created}
  <2>1. created <= Len(Startup)
    BY StartupOrder
  <2>2. /\ DOMAIN SubSeq(Startup, 1, created) = 1..created
        /\ \A i \in 1..created : SubSeq(Startup, 1, created)[i] = Startup[i]
    BY <2>1, StartupOrder
  <2>. QED  BY <2>2 DEF Created, ToSet
<1>2. \A i \in 1..7 : /\ Startup[i] = "cmu" <=> i = 2
                      /\ Startup[i] = "poll" <=> i = 7
  BY StartupOrder
<1>. QED  BY <1>1, <1>2, StartupOrder

-----------------------------------------------------------------------------
(* The datagrams on the way. *)

NetOK(S) == IsFiniteSet(S) /\ S \subseteq ToCmu \cup ToMdu /\ Cardinality(S) <= Capacity

(* A datagram that is sent keeps the bound, and only it is new. *)
LEMMA SendKeeps ==
  ASSUME NetOK(net), NEW m \in ToCmu \cup ToMdu, Send(m)
  PROVE  NetOK(net') /\ net' \subseteq net \cup {m}
<1>1. CASE Cardinality(net) < Capacity
  <2>1. net' = net \cup {m}
    BY <1>1 DEF Send
  <2>2. IsFiniteSet(net \cup {m}) /\ Cardinality(net \cup {m}) <= Cardinality(net) + 1
    <3>1. /\ IsFiniteSet(net \cup {m})
          /\ Cardinality(net \cup {m}) =
                IF m \in net THEN Cardinality(net) ELSE Cardinality(net) + 1
      BY FS_AddElement DEF NetOK
    <3>. QED  BY <3>1, FS_CardinalityType DEF NetOK
  <2>3. Cardinality(net) \in Nat /\ Cardinality(net \cup {m}) \in Nat
    BY <2>2, FS_CardinalityType DEF NetOK
  <2>. QED  BY <1>1, <2>1, <2>2, <2>3, Constants DEF NetOK
<1>2. CASE ~(Cardinality(net) < Capacity)
  BY <1>2 DEF Send, NetOK
<1>. QED  BY <1>1, <1>2

(* A datagram that is taken makes room. *)
LEMMA RemoveKeeps ==
  ASSUME NetOK(net), NEW S \in SUBSET net
  PROVE  NetOK(S)
<1>1. IsFiniteSet(S) /\ Cardinality(S) <= Cardinality(net)
  BY FS_Subset DEF NetOK
<1>2. Cardinality(net) \in Nat /\ Cardinality(S) \in Nat
  BY <1>1, FS_CardinalityType DEF NetOK
<1>. QED  BY <1>1, <1>2, Constants DEF NetOK

LEMMA TakeKeeps ==
  ASSUME NetOK(net), faults \in 0..MaxFaults, NEW m, Take(m)
  PROVE  NetOK(net') /\ net' \subseteq net /\ faults' \in 0..MaxFaults
BY RemoveKeeps, Constants DEF Take, Fault

(* So does one that is answered with one datagram. *)
LEMMA AnswerKeeps ==
  ASSUME NetOK(net), NEW m \in net, NEW a \in ToCmu \cup ToMdu
  PROVE  NetOK((net \ {m}) \cup {a})
<1>. DEFINE rest == net \ {m}
<1>1. IsFiniteSet(rest) /\ Cardinality(rest) = Cardinality(net) - 1
  BY FS_RemoveElement DEF NetOK
<1>2. IsFiniteSet(rest \cup {a}) /\ Cardinality(rest \cup {a}) <= Cardinality(rest) + 1
  <2>1. /\ IsFiniteSet(rest \cup {a})
        /\ Cardinality(rest \cup {a}) =
              IF a \in rest THEN Cardinality(rest) ELSE Cardinality(rest) + 1
    BY <1>1, FS_AddElement
  <2>. QED  BY <1>1, <2>1, FS_CardinalityType
<1>3. Cardinality(net) \in Nat /\ Cardinality(rest \cup {a}) \in Nat
  BY <1>2, FS_CardinalityType DEF NetOK
<1>4. rest \cup {a} \subseteq ToCmu \cup ToMdu
  BY DEF NetOK
<1>. HIDE DEF rest
<1>5. Cardinality(rest \cup {a}) <= Capacity
  BY <1>1, <1>2, <1>3, Constants DEF NetOK
<1>6. NetOK(rest \cup {a})
  BY <1>2, <1>4, <1>5 DEF NetOK
<1>. QED  BY <1>6 DEF rest

-----------------------------------------------------------------------------
(* The inductive invariant. *)

LEMMA InitInv == Init => IInv
<1>. SUFFICES ASSUME Init PROVE IInv
  OBVIOUS
<1>1. IsFiniteSet(net) /\ Cardinality(net) = 0
  BY FS_EmptySet DEF Init
<1>2. TypeOK
  <2>1. heard \in BOOLEAN /\ kept \in BOOLEAN /\ bRegister \in BOOLEAN /\ viewed \in BOOLEAN
    BY DEF Init
  <2>2. net \subseteq ToCmu \cup ToMdu /\ refused \subseteq Id
    BY DEF Init
  <2>. QED
    BY <1>1, <2>1, <2>2, StartupOrder, Constants DEF Init, TypeOK, Id, Given, Zero
<1>3. Life /\ Identity /\ Answers /\ Conversation /\ AliveIdentity
  BY DEF Init, Life, Identity, Answers, Conversation, AliveIdentity
<1>. QED  BY <1>1, <1>2, <1>3 DEF IInv

(* The end of the process: only MDU.conf is left, and datagrams. *)
LEMMA EndedInv ==
  ASSUME IInv, Ended, UNCHANGED <<conf, cmu>>,
         net' \subseteq net, faults' \in 0..MaxFaults
  PROVE  IInv'
<1>1. NetOK(net')
  BY RemoveKeeps DEF IInv, TypeOK, NetOK
<1>2. TypeOK' /\ IsFiniteSet(net)'
  <2>1. net' \subseteq ToCmu \cup ToMdu /\ Cardinality(net') <= Capacity /\ IsFiniteSet(net')
    BY <1>1 DEF NetOK
  <2>2. created' \in 0..Len(Startup)
    BY StartupOrder DEF Ended
  <2>3. Zero \in Id
    BY DEF Id
  <2>4. /\ heard' \in BOOLEAN /\ kept' \in BOOLEAN
        /\ bRegister' \in BOOLEAN /\ viewed' \in BOOLEAN
    BY DEF Ended
  <2>. QED  BY <2>1, <2>2, <2>3, <2>4, Constants DEF IInv, TypeOK, Ended, cmu
<1>3. Life' /\ Identity' /\ Answers' /\ Conversation' /\ AliveIdentity'
  BY DEF IInv, Ended, cmu, Life, Identity, Answers, Conversation, AliveIdentity,
         Named
<1>. QED  BY <1>2, <1>3 DEF IInv

LEMMA CrashInv ==
  ASSUME IInv, Crash
  PROVE  IInv'
BY EndedInv, Constants DEF Crash, Fault, IInv, TypeOK

LEMMA MonitorInv ==
  ASSUME IInv, runmonitor
  PROVE  IInv'
<1>. USE DEF IInv, runmonitor, clock, identity, cmu
<1>1. TypeOK' /\ IsFiniteSet(net)'
  BY DEF TypeOK
<1>2. Life' /\ Identity' /\ Answers' /\ Conversation' /\ AliveIdentity'
  BY StartupOrder
     DEF TypeOK, Life, Identity, Answers, Conversation, AliveIdentity, Named
<1>. QED  BY <1>1, <1>2

LEMMA StartInv ==
  ASSUME IInv, mdusockfunc
  PROVE  IInv'
<1>. USE DEF clock, identity, cmu
<1>1. /\ created \in 0..6 /\ proc = "start"
      /\ UNCHANGED <<conf, net, known, online, refused, faults>>
  BY StartupOrder DEF IInv, TypeOK, Life, mdusockfunc
<1>2. CASE created = 0 /\ mduConfAnal
  <2>1. CASE conf \in {Lost, Zero}
    BY <1>1, <1>2, <2>1, EndedInv DEF mduConfAnal, IInv, TypeOK
  <2>2. CASE conf \notin {Lost, Zero}
    <3>1. /\ created' = 1 /\ conf \in Valid
          /\ UNCHANGED <<proc, ka, naps, clock, kept, bRegister, identity, viewed,
                         io, answer>>
      BY <1>2, <2>2 DEF mduConfAnal, IInv, TypeOK, Id, Valid
    <3>. QED  BY <1>1, <1>2, <3>1, StartupOrder
              DEF IInv, TypeOK, Life, Identity, Answers, Conversation,
                  AliveIdentity, Named
  <2>. QED  BY <2>1, <2>2
<1>3. CASE created = 1 /\ cmuSrvCreate
  <2>1. conf \in Valid /\ conf \in Id /\ created' = 2 /\ io = "idle" /\ ~heard
    BY <1>1, <1>3 DEF cmuSrvCreate, IInv, Life, Identity, Valid, Id
  <2>2. /\ mduId' = conf /\ tagId' = conf /\ ka' = "begin"
        /\ UNCHANGED <<proc, naps, clock, kept, bRegister, csgId, viewed, io, answer>>
    BY <1>3 DEF cmuSrvCreate
  <2>3. TypeOK' /\ IsFiniteSet(net)'
    BY <1>1, <1>3, <2>1, <2>2, StartupOrder DEF IInv, TypeOK
  <2>4. Life' /\ Identity' /\ Answers' /\ Conversation' /\ AliveIdentity'
    BY <1>1, <1>3, <2>1, <2>2
       DEF IInv, Life, Identity, Answers, Conversation, AliveIdentity, Named
  <2>. QED  BY <2>3, <2>4 DEF IInv
<1>4. CASE created \in 2..6 /\ SrvCreate
  <2>1. /\ created' = created + 1
        /\ proc' = IF created' = 7 THEN "up" ELSE proc
        /\ UNCHANGED <<ka, naps, clock, kept, bRegister, identity, viewed, io, answer>>
    BY <1>4, StartupOrder DEF SrvCreate
  <2>2. TypeOK' /\ IsFiniteSet(net)'
    BY <1>1, <1>4, <2>1, StartupOrder DEF IInv, TypeOK
  <2>3. Life' /\ Identity' /\ Answers' /\ Conversation' /\ AliveIdentity'
    BY <1>1, <1>4, <2>1
       DEF IInv, Life, Identity, Answers, Conversation, AliveIdentity, Named
  <2>. QED  BY <2>2, <2>3 DEF IInv
<1>5. /\ created = 0 => Startup[created + 1] = "conf"
      /\ created = 1 => Startup[created + 1] = "cmu"
      /\ created \in 2..6 => Startup[created + 1] \notin {"conf", "cmu"}
  BY StartupOrder
<1>. QED  BY <1>1, <1>2, <1>3, <1>4, <1>5 DEF mdusockfunc

-----------------------------------------------------------------------------
(* The keep-alive thread. *)

(* A login carries the identity of mduinfotag. *)
LEMMA SendRegInv ==
  ASSUME IInv, SendReg, created >= 2, UNCHANGED <<conf, cmu>>
  PROVE  IInv'
<1>. USE DEF clock, identity, cmu
<1>1. CASE Send(Login(tagId)) /\ ka' = "sleep" /\ naps' = Sleep
           /\ UNCHANGED <<proc, created, clock, kept, bRegister, identity, viewed,
                          io, answer, faults>>
  <2>1. tagId \in Id /\ tagId \in Valid
    BY DEF IInv, TypeOK, Identity
  <2>2. NetOK(net') /\ net' \subseteq net \cup {Login(tagId)}
    BY <1>1, <2>1, SendKeeps DEF IInv, TypeOK, NetOK, ToCmu, Login
  <2>3. TypeOK' /\ IsFiniteSet(net)'
    <3>1. /\ IsFiniteSet(net') /\ net' \subseteq ToCmu \cup ToMdu
          /\ Cardinality(net') <= Capacity
      BY <2>2 DEF NetOK
    <3>. QED  BY <1>1, <3>1, Constants DEF IInv, TypeOK
  <2>4. Life' /\ Identity' /\ Named' = Named
    BY <1>1 DEF IInv, TypeOK, Life, Identity, Named
  <2>5. Answers' /\ Conversation' /\ AliveIdentity'
    BY <1>1, <2>1, <2>2, <2>4
       DEF IInv, Answers, Conversation, AliveIdentity, Named, Login
  <2>. QED  BY <2>3, <2>4, <2>5 DEF IInv
<1>2. CASE Fault /\ Ended /\ UNCHANGED net
  BY <1>2, EndedInv, Constants DEF IInv, TypeOK, Fault
<1>. QED  BY <1>1, <1>2 DEF SendReg

(* A keep-alive carries mduId: it is sent only when the CMU was heard. *)
LEMMA SendKeepAliveInv ==
  ASSUME IInv, SendKeepAlive, heard, UNCHANGED <<conf, cmu>>
  PROVE  IInv'
<1>. USE DEF clock, identity, cmu
<1>1. CASE Send(Alive(mduId)) /\ ka' = "sleep" /\ naps' = Sleep /\ kept' = TRUE
           /\ UNCHANGED <<proc, created, clock, bRegister, identity, viewed, io,
                          answer, faults>>
  <2>1. mduId \in Id /\ mduId \in Named /\ created = 7 /\ conf \in Named \cup {Lost}
    BY DEF IInv, TypeOK, Conversation, Life
  <2>2. NetOK(net') /\ net' \subseteq net \cup {Alive(mduId)}
    BY <1>1, <2>1, SendKeeps DEF IInv, TypeOK, NetOK, ToCmu, Alive
  <2>3. TypeOK' /\ IsFiniteSet(net)'
    <3>1. kept' \in BOOLEAN
      BY <1>1
    <3>. QED  BY <1>1, <2>2, <3>1, Constants DEF IInv, TypeOK, NetOK
  <2>4. Life' /\ Identity' /\ Named' = Named
    BY <1>1, <2>1 DEF IInv, Life, Identity, Named
  <2>5. Answers' /\ Conversation' /\ AliveIdentity'
    BY <1>1, <2>1, <2>2, <2>4
       DEF IInv, Answers, Conversation, AliveIdentity, Named, Alive
  <2>. QED  BY <2>3, <2>4, <2>5 DEF IInv
<1>2. CASE Fault /\ ~kept /\ ka' = "sleep" /\ naps' = Sleep /\ kept' = TRUE
           /\ UNCHANGED <<proc, created, clock, bRegister, identity, viewed, io,
                          answer, net>>
  <2>1. created = 7 /\ faults' \in 0..MaxFaults
    BY <1>2, Constants DEF IInv, Life, TypeOK, Fault
  <2>2. TypeOK' /\ IsFiniteSet(net)'
    <3>1. kept' \in BOOLEAN
      BY <1>2
    <3>. QED  BY <1>2, <2>1, <3>1, Constants DEF IInv, TypeOK
  <2>3. Life' /\ Identity' /\ Answers' /\ Conversation' /\ AliveIdentity'
    BY <1>2, <2>1
       DEF IInv, Life, Identity, Answers, Conversation, AliveIdentity, Named
  <2>. QED  BY <2>2, <2>3 DEF IInv
<1>3. CASE Fault /\ kept /\ Ended /\ UNCHANGED net
  BY <1>3, EndedInv, Constants DEF IInv, TypeOK, Fault
<1>. QED  BY <1>1, <1>2, <1>3 DEF SendKeepAlive

(* Until the first answer the difference of the guints is above the limit. *)
LEMMA SilentUntilHeard == Silence < Limit => heard
BY Constants DEF Silence

LEMMA KeepAliveInv ==
  ASSUME IInv, KeepAlive
  PROVE  IInv'
<1>. USE DEF clock, identity, cmu
<1>1. CASE KeepAliveBegin
  <2>1. created >= 2 /\ ka = "begin" /\ UNCHANGED <<conf, cmu>>
    BY <1>1 DEF KeepAliveBegin, IInv, TypeOK, Life
  <2>2. CASE ~bRegister /\ SendReg
    BY <2>1, <2>2, SendRegInv
  <2>3. CASE ka' = "sleep" /\ naps' = 1
             /\ UNCHANGED <<proc, created, clock, kept, bRegister, identity, viewed,
                            io, answer, net, faults>>
    <3>1. TypeOK' /\ IsFiniteSet(net)'
      BY <2>1, <2>3, Constants DEF IInv, TypeOK
    <3>2. Life' /\ Identity' /\ Answers' /\ Conversation' /\ AliveIdentity'
      BY <2>1, <2>3
         DEF IInv, Life, Identity, Answers, Conversation, AliveIdentity, Named
    <3>. QED  BY <3>1, <3>2 DEF IInv
  <2>. QED  BY <1>1, <2>2, <2>3 DEF KeepAliveBegin
<1>2. CASE KeepAliveClock
  <2>1. TypeOK' /\ IsFiniteSet(net)'
    BY <1>2, Constants DEF KeepAliveClock, IInv, TypeOK
  <2>2. Life' /\ Identity' /\ Answers' /\ Conversation' /\ AliveIdentity'
    BY <1>2
       DEF KeepAliveClock, IInv, Life, Identity, Answers, Conversation,
           AliveIdentity, Named
  <2>. QED  BY <2>1, <2>2 DEF IInv
<1>3. CASE KeepAliveToCmu
  <2>1. created >= 2 /\ UNCHANGED <<conf, cmu>>
    BY <1>3 DEF KeepAliveToCmu, IInv, TypeOK, Life
  <2>2. CASE emputyList /\ UNCHANGED <<net, faults>>
    <3>1. CASE Ended
      BY <2>1, <2>2, <3>1, EndedInv DEF IInv, TypeOK
    <3>2. CASE ka' = "spin"
               /\ UNCHANGED <<proc, created, naps, clock, kept, bRegister, identity,
                              viewed, io, answer>>
      <4>1. TypeOK' /\ IsFiniteSet(net)'
        BY <2>1, <2>2, <3>2 DEF IInv, TypeOK
      <4>2. Life' /\ Identity' /\ Answers' /\ Conversation' /\ AliveIdentity'
        BY <2>1, <2>2, <3>2
           DEF IInv, TypeOK, Life, Identity, Answers, Conversation, AliveIdentity, Named
      <4>. QED  BY <4>1, <4>2 DEF IInv
    <3>. QED  BY <2>2, <3>1, <3>2 DEF emputyList
  <2>3. CASE SendReg
    BY <2>1, <2>3, SendRegInv
  <2>4. CASE Silence < Limit /\ SendKeepAlive
    BY <2>1, <2>4, SilentUntilHeard, SendKeepAliveInv
  <2>. QED  BY <1>3, <2>2, <2>3, <2>4 DEF KeepAliveToCmu
<1>. QED  BY <1>1, <1>2, <1>3 DEF KeepAlive

-----------------------------------------------------------------------------
(* The handlers. *)

LEMMA RecvAckInv ==
  ASSUME IInv, RecvAck
  PROVE  IInv'
<1>. USE DEF clock, identity, cmu
<1>1. /\ Ack \in net /\ io = "idle" /\ created = 7 /\ Take(Ack)
      /\ heard' = TRUE /\ silent' = 0
      /\ UNCHANGED <<conf, proc, created, ka, naps, lag, kept, bRegister, identity,
                     viewed, io, answer, cmu>>
  BY StartupOrder, CreatedSoFar DEF RecvAck, CanReceive, updateKeepAlive, IInv, TypeOK
<1>2. NetOK(net') /\ net' \subseteq net /\ faults' \in 0..MaxFaults
  BY <1>1, TakeKeeps DEF IInv, TypeOK, NetOK
<1>3. TypeOK' /\ IsFiniteSet(net)'
  <2>1. heard' \in BOOLEAN /\ 0 \in 0..(Limit + MaxLag)
    BY <1>1, Constants
  <2>2. /\ IsFiniteSet(net') /\ net' \subseteq ToCmu \cup ToMdu
        /\ Cardinality(net') <= Capacity
    BY <1>2 DEF NetOK
  <2>. QED  BY <1>1, <1>2, <2>1, <2>2 DEF IInv, TypeOK
<1>4. conf \in Named /\ mduId \in Named
  BY <1>1 DEF IInv, Conversation, Identity, Ack, Valid, Given, Lost, Fresh
<1>5. Life' /\ Identity' /\ Answers' /\ Conversation' /\ AliveIdentity'
  BY <1>1, <1>2, <1>4
     DEF IInv, Life, Identity, Answers, Conversation, AliveIdentity, Named
<1>. QED  BY <1>2, <1>3, <1>5 DEF IInv

LEMMA LoginAnswerInv ==
  ASSUME IInv, NEW m \in net, updateLoginInfo(m)
  PROVE  IInv'
<1>. USE DEF clock, identity, cmu
<1>1. /\ io = "idle" /\ created = 7 /\ Take(m) /\ m.type \in {"accept", "refuse"}
      /\ bRegister' = TRUE /\ answer' = m.id
      /\ io' = IF m.id # mduId THEN "open" ELSE "update"
      /\ UNCHANGED <<conf, proc, created, ka, naps, clock, kept, identity, viewed, cmu>>
  BY StartupOrder, CreatedSoFar DEF updateLoginInfo, CanReceive, IInv, TypeOK
<1>2. NetOK(net') /\ net' \subseteq net /\ faults' \in 0..MaxFaults
  BY <1>1, TakeKeeps DEF IInv, TypeOK, NetOK
<1>3. m.id \in Valid /\ m.id \in Named /\ m.id \in Id
  BY <1>1 DEF IInv, Answers, Valid, Id
<1>4. TypeOK' /\ IsFiniteSet(net)'
  <2>1. bRegister' \in BOOLEAN
    BY <1>1
  <2>2. /\ IsFiniteSet(net') /\ net' \subseteq ToCmu \cup ToMdu
        /\ Cardinality(net') <= Capacity
    BY <1>2 DEF NetOK
  <2>. QED  BY <1>1, <1>2, <1>3, <2>1, <2>2 DEF IInv, TypeOK
<1>5. Life' /\ Identity' /\ Answers' /\ Conversation' /\ AliveIdentity'
  BY <1>1, <1>2, <1>3
     DEF IInv, Life, Identity, Answers, Conversation, AliveIdentity, Named
<1>. QED  BY <1>4, <1>5 DEF IInv

(* The new identity reaches the file, then the memory. *)
LEMMA LoginStepInv ==
  ASSUME IInv, LoginStep
  PROVE  IInv'
<1>. USE DEF clock, identity, cmu
<1>1. io \in {"open", "write", "update"} => created = 7 /\ answer \in Valid \cap Named
  BY DEF IInv, Life, Answers
<1>2. CASE ConfOpen
  <2>1. TypeOK' /\ IsFiniteSet(net)'
    BY <1>2 DEF ConfOpen, IInv, TypeOK
  <2>2. Life' /\ Identity' /\ Answers' /\ Conversation' /\ AliveIdentity'
    BY <1>1, <1>2
       DEF ConfOpen, IInv, Life, Identity, Answers, Conversation, AliveIdentity, Named
  <2>. QED  BY <2>1, <2>2 DEF IInv
<1>3. CASE ConfWrite
  <2>1. TypeOK' /\ IsFiniteSet(net)'
    BY <1>3 DEF ConfWrite, IInv, TypeOK
  <2>2. Life' /\ Identity' /\ Answers' /\ Conversation' /\ AliveIdentity'
    BY <1>1, <1>3
       DEF ConfWrite, IInv, Life, Identity, Answers, Conversation, AliveIdentity, Named
  <2>. QED  BY <2>1, <2>2 DEF IInv
<1>4. CASE LoginUpdate
  <2>1. TypeOK' /\ IsFiniteSet(net)'
    <3>1. heard' \in BOOLEAN /\ 0 \in 0..(Limit + MaxLag) /\ Zero \in Id
      BY <1>4, Constants DEF LoginUpdate, updateKeepAlive, Id
    <3>. QED  BY <1>1, <1>4, <3>1 DEF LoginUpdate, updateKeepAlive, IInv, TypeOK
  <2>2. Life' /\ Identity' /\ Answers' /\ Conversation' /\ AliveIdentity'
    BY <1>1, <1>4
       DEF LoginUpdate, updateKeepAlive, IInv, Life, Identity, Answers, Conversation,
           AliveIdentity, Named
  <2>. QED  BY <2>1, <2>2 DEF IInv
<1>. QED  BY <1>2, <1>3, <1>4 DEF LoginStep

LEMMA RecvCommandInv ==
  ASSUME IInv, RecvCommand
  PROVE  IInv'
<1>. USE DEF clock, identity, cmu
<1>1. Command \in net /\ io = "idle" /\ created = 7 /\ UNCHANGED <<conf, cmu>>
  BY StartupOrder, CreatedSoFar DEF RecvCommand, CanReceive, IInv, TypeOK
<1>2. CASE Take(Command) /\ viewed' \in BOOLEAN /\ io' \in {"idle", "blocked"}
           /\ UNCHANGED <<proc, created, ka, naps, clock, kept, bRegister, identity,
                          answer>>
  <2>1. NetOK(net') /\ net' \subseteq net /\ faults' \in 0..MaxFaults
    BY <1>2, TakeKeeps DEF IInv, TypeOK, NetOK
  <2>2. /\ IsFiniteSet(net') /\ net' \subseteq ToCmu \cup ToMdu
        /\ Cardinality(net') <= Capacity
    BY <2>1 DEF NetOK
  <2>3. TypeOK' /\ IsFiniteSet(net)'
    BY <1>1, <1>2, <2>1, <2>2 DEF IInv, TypeOK
  <2>4. Life' /\ Identity' /\ Answers' /\ Conversation' /\ AliveIdentity'
    BY <1>1, <1>2, <2>1
       DEF IInv, Life, Identity, Answers, Conversation, AliveIdentity, Named
  <2>. QED  BY <2>3, <2>4 DEF IInv
<1>3. CASE Fault /\ Ended /\ net' = net \ {Command}
  BY <1>1, <1>3, EndedInv, Constants DEF IInv, TypeOK, Fault
<1>4. viewed \in BOOLEAN
  BY DEF IInv, TypeOK
<1>. QED  BY <1>1, <1>2, <1>3, <1>4 DEF RecvCommand

-----------------------------------------------------------------------------
(* The CMU, the network and the clock. *)

LEMMA Datagrams ==
  /\ \A id \in Id : {Accept(id), Refuse(id)} \subseteq ToMdu
  /\ Ack \in ToMdu /\ Command \in ToMdu
  /\ \A id \in Id : /\ Accept(id).type = "accept" /\ Accept(id).id = id
                    /\ Refuse(id).type = "refuse" /\ Refuse(id).id = id
  /\ Ack.type = "ack" /\ Command.type = "command"
BY DEF ToMdu, Accept, Refuse, Ack, Command

LEMMA NetOfInv == IInv => NetOK(net) /\ faults \in 0..MaxFaults
BY DEF IInv, TypeOK, NetOK

(* A step of the environment leaves the MDU alone.  What it may put on the *)
(* way decides whether the invariant stays.                                *)
LEMMA EnvironmentInv ==
  ASSUME IInv, UNCHANGED mdu, NetOK(net'), faults' \in 0..MaxFaults,
         known' \in 0..MaxId, known' >= known, online' \in 0..known',
         refused' \subseteq Id, refused \subseteq refused',
         NEW a, net' \subseteq net \cup {a},
         a.type \in {"accept", "refuse"} => a.id \in Valid /\ a.id \in Named',
         a.type = "ack" => conf \in Named \cup {Lost},
         a.type \notin {"login", "alive"}
  PROVE  IInv'
<1>. USE DEF mdu, clock, identity
<1>1. /\ IsFiniteSet(net') /\ net' \subseteq ToCmu \cup ToMdu
      /\ Cardinality(net') <= Capacity
  BY DEF NetOK
<1>2. TypeOK' /\ IsFiniteSet(net)'
  BY <1>1 DEF IInv, TypeOK
<1>3. Named \subseteq Named'
  BY DEF IInv, TypeOK, Named
<1>4. Life' /\ Identity'
  BY DEF IInv, Life, Identity
<1>5. Answers' /\ Conversation' /\ AliveIdentity'
  <2>1. AliveIdentity = \A m \in net : m.type = "alive" => m.id \in Named
    BY DEF AliveIdentity, Named
  <2>2. AliveIdentity' = \A m \in net' : m.type = "alive" => m.id \in Named'
    BY DEF AliveIdentity, Named
  <2>. QED  BY <1>3, <2>1, <2>2 DEF IInv, Answers, Conversation
<1>. QED  BY <1>2, <1>4, <1>5 DEF IInv

LEMMA CmuLoginInv ==
  ASSUME IInv, NEW id \in Id, CmuLogin(id)
  PROVE  IInv'
<1>1. PICK new : /\ new = CASE id \in 1..known -> id
                            [] known < MaxId   -> known + 1
                            [] OTHER           -> MaxId
                 /\ known' = IF new > known THEN new ELSE known
                 /\ online' = new
                 /\ net' = (net \ {Login(id)}) \cup {Accept(new)}
                 /\ Login(id) \in net
                 /\ UNCHANGED <<mdu, refused, faults>>
  BY DEF CmuLogin
<1>2. known \in 0..MaxId
  BY DEF IInv, TypeOK
<1>3. /\ new \in Given /\ known' \in 0..MaxId /\ known' >= known
      /\ online' \in 0..known' /\ new \in 1..known'
  BY <1>1, <1>2, Constants DEF Given
<1>4. NetOK(net')
  BY <1>1, <1>3, AnswerKeeps, NetOfInv, Datagrams DEF Id
<1>5. Accept(new).type = "accept" /\ Accept(new).id = new
  BY <1>3, Datagrams DEF Id
<1>6. new \in Valid /\ new \in Named'
  BY <1>3 DEF Valid, Named
<1>7. /\ UNCHANGED mdu /\ faults' \in 0..MaxFaults /\ refused' \subseteq Id
      /\ refused \subseteq refused' /\ net' \subseteq net \cup {Accept(new)}
  BY <1>1 DEF IInv, TypeOK
<1>. QED  BY <1>3, <1>4, <1>5, <1>6, <1>7, EnvironmentInv

LEMMA CmuRefuseInv ==
  ASSUME IInv, NEW id \in Id, CmuRefuse(id)
  PROVE  IInv'
<1>1. /\ Login(id) \in net /\ refused' = refused \cup {id}
      /\ net' = (net \ {Login(id)}) \cup {Refuse(id)}
      /\ UNCHANGED <<mdu, known, online>>
  BY DEF CmuRefuse
<1>2. faults' \in 0..MaxFaults
  BY Constants DEF CmuRefuse, Fault, IInv, TypeOK
<1>3. NetOK(net')
  BY <1>1, AnswerKeeps, NetOfInv, Datagrams
<1>4. id \in Valid
  BY <1>1 DEF IInv, Answers, Login
<1>5. Refuse(id).type = "refuse" /\ Refuse(id).id = id
  BY Datagrams
<1>6. id \in Named'
  BY <1>1 DEF Named
<1>7. /\ UNCHANGED mdu /\ known' \in 0..MaxId /\ known' >= known
      /\ online' \in 0..known' /\ refused' \subseteq Id
      /\ refused \subseteq refused' /\ net' \subseteq net \cup {Refuse(id)}
  BY <1>1 DEF IInv, TypeOK
<1>. QED  BY <1>2, <1>3, <1>4, <1>5, <1>6, <1>7, EnvironmentInv

LEMMA CmuAliveInv ==
  ASSUME IInv, NEW id \in Id, CmuAlive(id)
  PROVE  IInv'
<1>1. /\ Alive(id) \in net /\ UNCHANGED <<mdu, cmu, faults>>
      /\ \/ net' = (net \ {Alive(id)}) \cup {Ack}
         \/ net' = net \ {Alive(id)}
  BY DEF CmuAlive
<1>2. NetOK(net')
  BY <1>1, AnswerKeeps, RemoveKeeps, NetOfInv, Datagrams
<1>3. conf \in Named \cup {Lost}
  BY <1>1 DEF IInv, Conversation, Alive
<1>. QED
  BY <1>1, <1>2, <1>3, Datagrams, EnvironmentInv DEF IInv, TypeOK, cmu

LEMMA OtherEnvironmentInv ==
  ASSUME IInv, CmuCommand \/ CmuRestart \/ \E m \in net : Lose(m)
  PROVE  IInv'
<1>1. Command.type = "command" /\ Command \in ToMdu
  BY Datagrams
<1>2. CASE CmuCommand
  <2>1. NetOK(net') /\ net' \subseteq net \cup {Command}
    BY <1>1, <1>2, SendKeeps DEF CmuCommand, IInv, TypeOK, NetOK
  <2>. QED
    BY <1>1, <1>2, <2>1, EnvironmentInv DEF CmuCommand, IInv, TypeOK, cmu
<1>3. CASE CmuRestart
  <2>1. /\ UNCHANGED <<mdu, known, refused, net>> /\ faults' \in 0..MaxFaults
        /\ online' \in 0..known
    BY <1>3, Constants DEF CmuRestart, Fault, IInv, TypeOK, Zero
  <2>. QED  BY <1>1, <2>1, EnvironmentInv DEF IInv, TypeOK, NetOK
<1>4. CASE \E m \in net : Lose(m)
  <2>1. PICK m \in net : Lose(m)
    BY <1>4
  <2>2. NetOK(net') /\ net' \subseteq net \cup {Command}
    BY <2>1, RemoveKeeps, NetOfInv DEF Lose
  <2>3. UNCHANGED <<mdu, known, online, refused, faults>>
    BY <2>1 DEF Lose, cmu
  <2>. QED  BY <1>1, <2>2, <2>3, EnvironmentInv DEF IInv, TypeOK
<1>. QED  BY <1>2, <1>3, <1>4

LEMMA TickInv ==
  ASSUME IInv, Tick
  PROVE  IInv'
<1>. USE DEF clock, identity, cmu
<1>1. /\ naps' \in 0..Sleep /\ silent' \in 0..(Limit + MaxLag) /\ lag' \in 0..MaxLag
  BY Constants DEF Tick, IInv, TypeOK
<1>2. TypeOK' /\ IsFiniteSet(net)'
  BY <1>1 DEF Tick, IInv, TypeOK
<1>3. Life' /\ Identity' /\ Answers' /\ Conversation' /\ AliveIdentity'
  BY DEF Tick, IInv, Life, Identity, Answers, Conversation, AliveIdentity, Named
<1>. QED  BY <1>2, <1>3 DEF IInv

LEMMA StutterInv ==
  ASSUME IInv, UNCHANGED vars
  PROVE  IInv'
BY DEF vars, clock, identity, cmu, IInv, TypeOK, Life, Identity, Answers,
       Conversation, AliveIdentity, Named

(* Every step keeps the inductive invariant. *)
LEMMA NextInv == IInv /\ [Next]_vars => IInv'
<1>. SUFFICES ASSUME IInv, [Next]_vars PROVE IInv'
  OBVIOUS
<1>1. CASE Crash
  BY <1>1, CrashInv
<1>2. CASE runmonitor
  BY <1>2, MonitorInv
<1>3. CASE mdusockfunc
  BY <1>3, StartInv
<1>4. CASE KeepAlive
  BY <1>4, KeepAliveInv
<1>5. CASE Receive
  BY <1>5, RecvAckInv, RecvCommandInv, LoginAnswerInv DEF Receive
<1>6. CASE LoginStep
  BY <1>6, LoginStepInv
<1>7. CASE Environment
  BY <1>7, CmuLoginInv, CmuRefuseInv, CmuAliveInv, OtherEnvironmentInv
     DEF Environment
<1>8. CASE Tick
  BY <1>8, TickInv
<1>9. CASE UNCHANGED vars
  BY <1>9, StutterInv
<1>. QED
  BY <1>1, <1>2, <1>3, <1>4, <1>5, <1>6, <1>7, <1>8, <1>9 DEF Next

(* The session never leaves its inductive invariant. *)
THEOREM SessionInvariant == Spec => []IInv
BY InitInv, NextInv, PTL DEF Spec

-----------------------------------------------------------------------------
(* The variables have their types, and no more datagrams are on the way    *)
(* than find room.                                                         *)
THEOREM SessionTypes == Spec => []TypeOK
<1>1. IInv => TypeOK
  BY DEF IInv
<1>. QED  BY <1>1, SessionInvariant, PTL

(* Handlers run only when mdusockfunc has created every socket they use.   *)
THEOREM HandlersHaveSockets == Spec => []SocketsReady
<1>1. IInv => SocketsReady
  BY CreatedSoFar, StartupOrder DEF IInv, TypeOK, Life, SocketsReady
<1>. QED  BY <1>1, SessionInvariant, PTL

(* Between two login answers the identity is the same in MDU.conf, in the  *)
(* logins and in the keep-alives, and the CSGs are told the same.          *)
THEOREM OneIdentity == Spec => []IdentityAgrees
<1>1. IInv => IdentityAgrees
  BY CreatedSoFar, StartupOrder DEF IInv, TypeOK, Life, Identity, IdentityAgrees
<1>. QED  BY <1>1, SessionInvariant, PTL

(* A keep-alive names an identity that an answer of the CMU has named,     *)
(* wherever the handler of an answer is when the other thread sends it.    *)
THEOREM AliveNamed == Spec => []AliveIdentity
<1>1. IInv => AliveIdentity
  BY DEF IInv
<1>. QED  BY <1>1, SessionInvariant, PTL

=============================================================================
