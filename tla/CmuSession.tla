----------------------------- MODULE CmuSession -----------------------------
(***************************************************************************)
(* The session of the MDU with its CMU: start of the process, login,       *)
(* keep-alives, the exit when the CMU is silent, and the restart by        *)
(* runmonitor.sh.                                                          *)
(*                                                                         *)
(* The main thread reads MDU.conf, creates the sockets one by one and      *)
(* starts the polling thread last; the keep-alive thread runs from the     *)
(* moment the socket to the CMU exists.  Handlers run in the polling       *)
(* thread.  Between MDU and CMU are datagrams, which are lost, reordered   *)
(* and duplicated; the CMU is external: it gives a new MDU the next        *)
(* identity and answers the keep-alives of an MDU that is logged in.       *)
(*                                                                         *)
(* Time is counted in seconds: silent is how long ago LastActiveTime was   *)
(* set (or the process was started, while it is 0), lag how long ago the   *)
(* keep-alive thread read its clock.                                       *)
(*                                                                         *)
(* Abstracted: of the streams only whether emputyList will meet a CU.      *)
(***************************************************************************)
EXTENDS Integers, Sequences, FiniteSets, SequencesExt

CONSTANTS
  Shipped,    \* localid in MDU.conf when the MDU is installed
  MaxId,      \* bound: identities that the CMU gives away
  Sleep,      \* seconds between two keep-alives (10)
  Limit,      \* seconds of silence of the CMU that are tolerated (60)
  MaxLag,     \* bound: seconds between reading the clock and using it
  TimeRange,  \* values of a guint (2^32)
  Capacity,   \* bound: datagrams on the way, more are lost
  MaxFaults,  \* bound: crashes, failed sends, refusals, repeated datagrams,
              \* restarts of the CMU
  Refusals,   \* whether the CMU refuses logins
  Commands    \* whether the CMU sends commands

Fresh == -1            \* localid of an MDU that never logged in
Zero == 0              \* PRASE_FALSE, and an MDUINFO cleared by g_malloc0
Lost == -2             \* MDU.conf is empty
Given == 1..MaxId      \* identities given by the CMU
Id == {Fresh, Zero} \cup Given

ASSUME SessionAssumption ==
  /\ Shipped \in {Fresh, Zero}
  /\ {MaxId, Sleep, Limit, Capacity} \subseteq Nat \ {0}
  /\ {MaxLag, MaxFaults, TimeRange} \subseteq Nat
  /\ TimeRange > Limit + 2 * MaxLag
  /\ Refusals \in BOOLEAN /\ Commands \in BOOLEAN

VARIABLES
  conf,       \* localid in MDU.conf
  proc,       \* the process: "down", "start" or "up"
  created,    \* how far the main thread got in Startup
  ka,         \* the keep-alive thread
  naps,       \* seconds it still sleeps
  heard,      \* m_stGlobe.LastActiveTime is not 0
  silent,     \* seconds since LastActiveTime
  lag,        \* seconds since tnow of the keep-alive thread
  kept,       \* m_stGlobe.pKeepAlivePkt is not NULL
  bRegister,  \* m_stGlobe.bRegister
  mduId,      \* m_CmuSockSrv->mduId
  tagId,      \* m_CmuSockSrv->mduinfotag.uid
  csgId,      \* m_CsgSockSrv->mduinfotag.uid
  viewed,     \* the first stream of m_pTransferList has a CU
  io,         \* the polling thread
  answer,     \* identity in the login answer it works on
  net,        \* datagrams on the way
  known,      \* external: how many identities the CMU has given away
  online,     \* external: the identity it takes for logged in, or Zero
  refused,    \* external: the identities of refused logins
  faults      \* faults so far

identity == <<mduId, tagId, csgId>>
clock == <<heard, silent, lag>>
cmu == <<known, online, refused>>
vars == <<conf, proc, created, ka, naps, clock, kept, bRegister, identity,
          viewed, io, answer, net, cmu, faults>>

Init ==
  /\ conf = Shipped
  /\ proc = "down" /\ created = 0
  /\ ka = "none" /\ naps = 0
  /\ heard = FALSE /\ silent = 0 /\ lag = 0
  /\ kept = FALSE /\ bRegister = FALSE
  /\ mduId = Zero /\ tagId = Zero /\ csgId = Zero
  /\ viewed = FALSE
  /\ io = "idle" /\ answer = Zero
  /\ net = {} /\ faults = 0
  /\ known = 0 /\ online = Zero /\ refused = {}

-----------------------------------------------------------------------------
(* Datagrams.                                                              *)

Login(id)  == [type |-> "login", id |-> id]       \* MDU_LOGIN
Alive(id)  == [type |-> "alive", id |-> id]       \* MDU_KEEPALIVE
Accept(id) == [type |-> "accept", id |-> id]      \* answer to a login
Refuse(id) == [type |-> "refuse", id |-> id]      \* the same, OPRESULT not 0
Ack        == [type |-> "ack", id |-> Zero]       \* answer to a keep-alive
Command    == [type |-> "command", id |-> Zero]   \* OPEN, CLOSE, ...

ToCmu == [type : {"login", "alive"}, id : Id]
ToMdu == [type : {"accept", "refuse"}, id : Id] \cup {Ack, Command}

\* m is put on the way; what finds no room is lost.
Send(m) == net' = IF Cardinality(net) < Capacity THEN net \cup {m} ELSE net

-----------------------------------------------------------------------------
(* The process.                                                            *)

\* The process ends: all that is left is MDU.conf.
Ended ==
  /\ proc' = "down" /\ created' = 0
  /\ ka' = "none" /\ naps' = 0
  /\ heard' = FALSE /\ silent' = 0 /\ lag' = 0
  /\ kept' = FALSE /\ bRegister' = FALSE
  /\ mduId' = Zero /\ tagId' = Zero /\ csgId' = Zero
  /\ viewed' = FALSE /\ io' = "idle" /\ answer' = Zero

\* A fault: a signal, a failed send, a repeated datagram, ...
Fault == faults < MaxFaults /\ faults' = faults + 1

\* A datagram is taken, and may come again.
Take(m) ==
  \/ net' = net \ {m} /\ UNCHANGED faults
  \/ Fault /\ UNCHANGED net

Crash ==
  /\ proc # "down" /\ Fault /\ Ended
  /\ UNCHANGED <<conf, net, cmu>>

\* runmonitor.sh starts a process that ps does not show.
runmonitor ==
  /\ proc = "down"
  /\ proc' = "start"
  /\ UNCHANGED <<conf, created, ka, naps, clock, kept, bRegister, identity,
                 viewed, io, answer, net, cmu, faults>>

(* Mutant: the sockets are polled before all of them exist.                *)
StartupPolled == <<"conf", "cmu", "poll", "csgdata", "csgmsg", "cu", "cas">>

\* mdusockfunc: what the main thread does, in this order.
Startup == <<"conf", "cmu", "csgdata", "csgmsg", "cu", "cas", "poll">>

\* What exists.
Created == ToSet(SubSeq(Startup, 1, created))

\* mduConfAnal: a file without localid, or with 0, ends the process.
mduConfAnal ==
  IF conf \in {Lost, Zero}
  THEN Ended
  ELSE /\ created' = created + 1
       /\ UNCHANGED <<proc, ka, naps, clock, kept, bRegister, identity, viewed, io,
                      answer>>

\* cmuSrvCreate: the identity comes from the file; the keep-alive thread
\* starts.
cmuSrvCreate ==
  /\ mduId' = conf /\ tagId' = conf
  /\ ka' = "begin"
  /\ created' = created + 1
  /\ UNCHANGED <<proc, naps, clock, kept, bRegister, csgId, viewed, io, answer>>

\* The other sockets, and the polling thread after the last of them.
SrvCreate ==
  /\ created' = created + 1
  /\ proc' = IF created' = Len(Startup) THEN "up" ELSE proc
  /\ UNCHANGED <<ka, naps, clock, kept, bRegister, identity, viewed, io, answer>>

mdusockfunc ==
  /\ proc = "start"
  /\ \/ Startup[created + 1] = "conf" /\ mduConfAnal
     \/ Startup[created + 1] = "cmu" /\ cmuSrvCreate
     \/ Startup[created + 1] \notin {"conf", "cmu"} /\ SrvCreate
  /\ UNCHANGED <<conf, net, cmu, faults>>

-----------------------------------------------------------------------------
(* The keep-alive thread.                                                  *)

\* SendReg: a login with the identity of mduinfotag; a failed send is fatal.
SendReg ==
  \/ /\ Send(Login(tagId))
     /\ ka' = "sleep" /\ naps' = Sleep
     /\ UNCHANGED <<proc, created, clock, kept, bRegister, identity, viewed, io,
                    answer, faults>>
  \/ Fault /\ Ended /\ UNCHANGED net

(* Mutant: only the failure of the first send is noticed, and the thread   *)
(* ends.                                                                   *)
SendKeepAliveEnds ==
  \/ /\ Send(Alive(mduId))
     /\ ka' = "sleep" /\ naps' = Sleep
     /\ kept' = TRUE
     /\ UNCHANGED <<proc, created, clock, bRegister, identity, viewed, io, answer,
                    faults>>
  \/ /\ Fault /\ ~kept
     /\ ka' = "ended"
     /\ UNCHANGED <<proc, created, clock, kept, naps, bRegister, identity, viewed,
                    io, answer, net>>

\* SendKeepAlive: only a failure of the first send is ignored.
SendKeepAlive ==
  \/ /\ Send(Alive(mduId))
     /\ ka' = "sleep" /\ naps' = Sleep
     /\ kept' = TRUE
     /\ UNCHANGED <<proc, created, clock, bRegister, identity, viewed, io, answer,
                    faults>>
  \/ /\ Fault /\ ~kept
     /\ ka' = "sleep" /\ naps' = Sleep
     /\ kept' = TRUE
     /\ UNCHANGED <<proc, created, clock, bRegister, identity, viewed, io, answer,
                    net>>
  \/ Fault /\ kept /\ Ended /\ UNCHANGED net

\* The thread starts: it logs in, unless an answer to an earlier process has
\* registered this one.
KeepAliveBegin ==
  /\ ka = "begin"
  /\ \/ ~bRegister /\ SendReg
     \/ /\ bRegister
        /\ ka' = "sleep" /\ naps' = 1
        /\ UNCHANGED <<proc, created, clock, kept, bRegister, identity, viewed, io,
                       answer, net, faults>>
  /\ UNCHANGED <<conf, cmu>>

\* It wakes up and reads the clock.
KeepAliveClock ==
  /\ ka = "sleep" /\ naps = 0
  /\ ka' = "check"
  /\ lag' = 0
  /\ UNCHANGED <<conf, proc, created, naps, heard, silent, kept, bRegister, identity,
                 viewed, io, answer, net, cmu, faults>>

(* Mutant: LastActiveTime starts with the process, in a signed difference  *)
(* that never reaches the limit.                                           *)
SilenceSigned == IF heard THEN 0 ELSE silent - lag

\* tnow.tv_sec - m_stGlobe.LastActiveTime, a guint that is 0 until the first
\* answer: unsigned where the glong of tv_sec has 32 bits, as here.
Silence == IF heard THEN (silent - lag) % TimeRange ELSE TimeRange - 1

\* emputyList: with a CU in the first stream its loop works on a node that it
\* has freed, and dies of it or never ends; otherwise exit follows.
emputyList ==
  \/ Ended
  \/ /\ viewed
     /\ ka' = "spin"
     /\ UNCHANGED <<proc, created, naps, clock, kept, bRegister, identity, viewed, io,
                    answer>>

\* Silent for too long; otherwise the next login or keep-alive.
KeepAliveToCmu ==
  /\ ka = "check"
  /\ \/ Silence >= Limit /\ emputyList /\ UNCHANGED <<net, faults>>
     \/ Silence < Limit /\ ~bRegister /\ SendReg
     \/ Silence < Limit /\ bRegister /\ SendKeepAlive
  /\ UNCHANGED <<conf, cmu>>

-----------------------------------------------------------------------------
(* The handlers, in the polling thread.                                    *)

CanReceive(m) == "poll" \in Created /\ io = "idle" /\ m \in net

\* updateKeepAlive.
updateKeepAlive == heard' = TRUE /\ silent' = 0

\* An answer to a keep-alive.
RecvAck ==
  /\ CanReceive(Ack) /\ Take(Ack)
  /\ updateKeepAlive
  /\ UNCHANGED <<conf, proc, created, ka, naps, lag, kept, bRegister, identity, viewed,
                 io, answer, cmu>>

\* updateLoginInfo: the MDU counts as registered, whatever the OPRESULT; a
\* new identity is written to MDU.conf first.
updateLoginInfo(m) ==
  /\ CanReceive(m) /\ Take(m)
  /\ m.type \in {"accept", "refuse"}
  /\ bRegister' = TRUE
  /\ answer' = m.id
  /\ io' = IF m.id # mduId THEN "open" ELSE "update"
  /\ UNCHANGED <<conf, proc, created, ka, naps, clock, kept, identity, viewed, cmu>>

\* fopen with "w+" empties the file ...
ConfOpen ==
  /\ io = "open"
  /\ conf' = Lost
  /\ io' = "write"
  /\ UNCHANGED <<proc, created, ka, naps, clock, kept, bRegister, identity, viewed,
                 answer, net, cmu, faults>>

\* ... and fwrite fills it again.
ConfWrite ==
  /\ io = "write"
  /\ conf' = answer
  /\ io' = "update"
  /\ UNCHANGED <<proc, created, ka, naps, clock, kept, bRegister, identity, viewed,
                 answer, net, cmu, faults>>

(* Mutant: mduId keeps its value.                                          *)
LoginUpdateTag ==
  /\ io = "update"
  /\ tagId' = answer /\ csgId' = answer
  /\ updateKeepAlive
  /\ io' = "idle" /\ answer' = Zero
  /\ UNCHANGED <<conf, proc, created, ka, naps, lag, kept, bRegister, mduId, viewed, net,
                 cmu, faults>>

\* The identity in memory, for the CMU and for the CSGs.
LoginUpdate ==
  /\ io = "update"
  /\ mduId' = answer /\ tagId' = answer /\ csgId' = answer
  /\ updateKeepAlive
  /\ io' = "idle" /\ answer' = Zero
  /\ UNCHANGED <<conf, proc, created, ka, naps, lag, kept, bRegister, viewed, net,
                 cmu, faults>>

\* A command is confirmed and carried out, which changes the streams; a
\* failed confirmation is fatal.  A handler that needs the lists waits for
\* ever when emputyList spins.
RecvCommand ==
  /\ CanReceive(Command)
  /\ \/ /\ ka # "spin"
        /\ Take(Command)
        /\ viewed' \in BOOLEAN
        /\ UNCHANGED <<proc, created, ka, naps, clock, kept, bRegister, identity, io,
                       answer>>
     \/ /\ ka = "spin"
        /\ Take(Command)
        /\ io' = "blocked"
        /\ UNCHANGED <<proc, created, ka, naps, clock, kept, bRegister, identity,
                       viewed, answer>>
     \/ Fault /\ Ended /\ net' = net \ {Command}
  /\ UNCHANGED <<conf, cmu>>

\* The rest of a login answer.
LoginStep == ConfOpen \/ ConfWrite \/ LoginUpdate

-----------------------------------------------------------------------------
(* External: the CMU, the network and the clock.                           *)

mdu == <<conf, proc, created, ka, naps, clock, kept, bRegister, identity, viewed,
         io, answer>>

\* The CMU answers a login: an MDU that it does not know gets the next
\* identity (the last one, when there is none left).
CmuLogin(id) ==
  /\ Login(id) \in net
  /\ LET new == CASE id \in 1..known -> id
                 [] known < MaxId   -> known + 1
                 [] OTHER           -> MaxId
     IN /\ known' = IF new > known THEN new ELSE known
        /\ online' = new
        /\ net' = (net \ {Login(id)}) \cup {Accept(new)}
  /\ UNCHANGED <<mdu, refused, faults>>

\* It refuses a login.
CmuRefuse(id) ==
  /\ Refusals /\ Login(id) \in net /\ Fault
  /\ net' = (net \ {Login(id)}) \cup {Refuse(id)}
  /\ refused' = refused \cup {id}
  /\ UNCHANGED <<mdu, known, online>>

\* It answers the keep-alive of an MDU that is logged in.
CmuAlive(id) ==
  /\ Alive(id) \in net
  /\ net' = (net \ {Alive(id)}) \cup IF id = online THEN {Ack} ELSE {}
  /\ UNCHANGED <<mdu, cmu, faults>>

\* It sends a command to an MDU that is logged in, and leaves room for other
\* datagrams.
CmuCommand ==
  /\ Commands /\ online # Zero
  /\ Command \notin net /\ Cardinality(net) + 1 < Capacity
  /\ Send(Command)
  /\ UNCHANGED <<mdu, cmu, faults>>

\* It forgets who is logged in.
CmuRestart ==
  /\ online # Zero /\ Fault
  /\ online' = Zero
  /\ UNCHANGED <<mdu, known, refused, net>>

\* A datagram is lost, which takes longer than the start of the process.
Lose(m) ==
  /\ m \in net
  /\ proc # "start"
  /\ net' = net \ {m}
  /\ UNCHANGED <<mdu, cmu, faults>>

\* A second passes; the start of the process takes less than that.
Tick ==
  /\ proc = "up"
  /\ ka = "check" => lag < MaxLag
  /\ naps' = IF naps > 0 THEN naps - 1 ELSE 0
  /\ silent' = IF silent < Limit + MaxLag THEN silent + 1 ELSE silent
  /\ lag' = IF ka = "check" THEN lag + 1 ELSE lag
  /\ UNCHANGED <<conf, proc, created, ka, heard, kept, bRegister, identity, viewed,
                 io, answer, net, cmu, faults>>

Receive ==
  \/ RecvAck \/ RecvCommand
  \/ \E m \in net : updateLoginInfo(m)

KeepAlive == KeepAliveBegin \/ KeepAliveClock \/ KeepAliveToCmu

Environment ==
  \/ \E id \in Id : CmuLogin(id) \/ CmuRefuse(id) \/ CmuAlive(id)
  \/ CmuCommand \/ CmuRestart
  \/ \E m \in net : Lose(m)

Next ==
  \/ Crash \/ runmonitor \/ mdusockfunc
  \/ KeepAlive
  \/ Receive \/ LoginStep
  \/ Environment
  \/ Tick

Spec == Init /\ [][Next]_vars

(***************************************************************************)
(* Fairness: the monitor and the scheduler run what can run and time goes  *)
(* on.  A login that is sent again and again arrives in the end while the  *)
(* process that sent it still runs, and so does its answer; nothing        *)
(* stays on the way for ever.  An exit does not hit the handler of a login *)
(* answer at the same place in every life of the process.  Keep-alives and *)
(* their answers may all be lost.                                          *)
(***************************************************************************)
FairSpec ==
  /\ Spec
  /\ WF_vars(runmonitor) /\ WF_vars(mdusockfunc) /\ WF_vars(KeepAlive)
  /\ WF_vars(Tick)
  /\ SF_vars(LoginStep)
  /\ SF_vars(\E id \in Given : updateLoginInfo(Accept(id)))
  /\ SF_vars(proc = "up" /\ \E id \in Id : CmuLogin(id))
  /\ SF_vars(\E m \in net : m.type # "login" /\ Lose(m))

-----------------------------------------------------------------------------
(* Properties.                                                             *)

\* The types of the variables.
TypeOK ==
  /\ conf \in Id \cup {Lost}
  /\ proc \in {"down", "start", "up"} /\ created \in 0..Len(Startup)
  /\ ka \in {"none", "begin", "sleep", "check", "spin"} /\ naps \in 0..Sleep
  /\ heard \in BOOLEAN /\ silent \in 0..(Limit + MaxLag) /\ lag \in 0..MaxLag
  /\ kept \in BOOLEAN /\ bRegister \in BOOLEAN /\ viewed \in BOOLEAN
  /\ mduId \in Id /\ tagId \in Id /\ csgId \in Id /\ answer \in Id
  /\ io \in {"idle", "open", "write", "update", "blocked"}
  /\ net \subseteq ToCmu \cup ToMdu /\ Cardinality(net) <= Capacity
  /\ known \in 0..MaxId /\ online \in 0..known /\ refused \subseteq Id
  /\ faults \in 0..MaxFaults

\* Handlers run when every socket they use exists, although the threads and
\* the first socket are started before the others (mdusockfunc).
SocketsReady ==
  /\ io # "idle" \/ heard => {"cmu", "csgdata", "csgmsg", "cu", "cas"} \subseteq Created
  /\ ka # "none" => "cmu" \in Created

\* Between two login answers the identity in the keep-alives, in the logins
\* and in MDU.conf is the same, so that a restarted MDU is the MDU the CMU
\* knows; once the CMU has answered it is also the one the CSGs are told
\* (updateLoginInfo).
IdentityAgrees ==
  "cmu" \in Created /\ io \in {"idle", "blocked"} =>
    /\ mduId = conf /\ tagId = conf
    /\ heard /\ bRegister => csgId = conf

\* The process cannot go on or cannot start again.
Stuck ==
  \/ ka = "spin"
  \/ io = "blocked"
  \/ proc = "down" /\ conf \in {Lost, Zero}

\* The MDU is registered again and again, with the identity under which the
\* CMU has it logged in, through lost answers, exits and restarts of either
\* side (KeepAliveToCmu).
Registered ==
  []~Stuck => []<>(bRegister /\ online \in Given /\ mduId = online)

\* A CMU that has been silent for too long is noticed: it answers at last, or
\* the process is started again (KeepAliveToCmu).
SilenceNoticed ==
  []~Stuck => (proc = "up" /\ silent >= Limit ~> silent < Limit)

\* When the CMU is given up the lists are destroyed and the process ends, to
\* be started again (emputyList: timeout, destory the List).
GivenUpEnds ==
  proc = "up" /\ ka = "check" /\ Silence >= Limit ~> proc = "down"

\* A keep-alive tells the CMU an identity that an answer of the CMU has
\* named, although the thread reads mduId without a lock and bRegister is set
\* before mduId (SendKeepAlive, updateLoginInfo).
AliveIdentity ==
  \A m \in net : m.type = "alive" => m.id \in 1..known \cup refused

=============================================================================
