----------------------------- MODULE MduStreams -----------------------------
(***************************************************************************)
(* The stream tables of the Media Distribution Unit and the handlers that  *)
(* change them.                                                            *)
(*                                                                         *)
(* A transfer entry (m_TransferTable) stands for one media stream and      *)
(* holds the list of client units (CUs) that watch it.  A CU is recorded   *)
(* once, in a CULINK (m_cuLinkArray), shared by all the entries that list  *)
(* it and counted by CURefCnt.  Both arrays are recycled: an entry is free *)
(* when its CU list is empty, a CULINK when its count is zero.  Two linked *)
(* lists, m_pTransferList and m_pCUList, name the slots in use.            *)
(*                                                                         *)
(* The control unit (CMU) opens and closes streams for CUs, directly or    *)
(* through a neighbour MDU (the cascade); the source gateway (CSG) answers *)
(* the commands of the MDU and sends the media; a CU announces its address;*)
(* the watchdog puExistTime drops a silent stream.  Every action is one    *)
(* whole callback, or one iteration of the watchdog, with all the calls it *)
(* makes.  The network is UDP: what was ever sent to the CSG may be        *)
(* answered late, twice, out of order or never.                            *)
(*                                                                         *)
(* Abstracted: a puid/channel pair is a member of PU; time (the watchdog   *)
(* may find any watched stream silent); wire formats, logging, and the     *)
(* confirmation of every CMU command.  The lists are sets: which CU is at  *)
(* the head of a list is left open.                                        *)
(***************************************************************************)
EXTENDS Integers, FiniteSets

CONSTANTS
    CU,          \* client units
    PU,          \* device channels: puid and channelid of STREAMKEY
    SubStream,   \* values of mstreamtype; 0 is the main stream
    Request,     \* the streams the CMU asks for
    Port,        \* the ports a CU may announce
    MaxCalls,    \* number of transfer entries   (MAX_CALLS)
    MaxLinks,    \* number of CULINKs            (MAX_CALLS)
    Front,       \* who relays commands: FirstNode (the CMU) and OtherNode (an MDU)
    Routed,      \* may a command carry a route to a next MDU?
    FreedNext,   \* what g_list_next finds in a freed node: see Walk
    MaxRefs,     \* bound of the model on CURefCnt
    MaxNodes,    \* bound of the model on the list nodes of one entry
    NoStream,    \* key of an entry cleared by memset
    NoCU         \* mCUId of a CULINK cleared by memset

Media  == {"vod", "aod"}
FirstNode == "first"
OtherNode == "other"
Stream == [pu : PU, sub : SubStream, media : Media]
Entry  == 1..MaxCalls
Link   == 1..MaxLinks
Addr   == CU \X Port
NoAddr == <<NoCU, 0>>

ASSUME StreamsAssumption ==
    /\ MaxCalls \in Nat \ {0}
    /\ MaxLinks \in Nat \ {0}
    /\ MaxRefs  \in Nat \ {0}
    /\ MaxNodes \in Nat \ {0}
    /\ 0 \in SubStream
    /\ Front \subseteq {FirstNode, OtherNode}
    /\ Routed \subseteq BOOLEAN
    /\ FreedNext \subseteq {"null", "stale"}
    /\ FreedNext # {}
    /\ NoStream \notin Stream
    /\ NoCU \notin CU
    (* An audio OPEN carries no stream id: odDataOpen leaves it 0. *)
    /\ Request \subseteq {k \in Stream : k.media = "aod" => k.sub = 0}

VARIABLES
    key,      \* key[t]    : mStreamKey of entry t
    first,    \* first[t]  : firstcuid of entry t
    node,     \* node[t]   : mduNode of entry t
    cus,      \* cus[t]    : the CULINKs in mCUList of entry t
    nodes,    \* nodes[t]  : how often entry t is in m_pTransferList
    id,       \* id[c]     : mCUId of CULINK c
    addr,     \* addr[c]   : transAddr of CULINK c
    refs,     \* refs[c]   : CURefCnt of CULINK c
    cuList,   \* the CULINKs in m_pCUList
    cmd,      \* cmd[k]    : last command sent to the source about stream k
    asked,    \* the commands ever sent to the CSG: the network
    said,     \* said[u]   : history, the port CU u named last: in a keep-alive
              \*             or in an OPEN that found u in no CULINK
    out       \* the messages the last handler sent

entryVars == <<key, first, node, nodes>>
linkVars  == <<id, addr, refs, cuList>>
tables    == <<key, first, node, cus, nodes, id, addr, refs, cuList>>
vars      == <<key, first, node, cus, nodes, id, addr, refs, cuList,
               cmd, asked, said, out>>

-----------------------------------------------------------------------------
(* Messages.  Feedback to the CMU says who decided it: the MDU itself      *)
(* (avFBMsg) or the CSG, whose answer is passed on (sendodFBToCmu).        *)

Hop     == {"csg", "mdu"}
Result  == {"ok", "fail"}
Command == [to : Hop, op : {"open", "close", "unknown"}, key : Stream]
Answer  == [to : {"cmu"}, by : {"mdu", "csg"}, op : {"open", "close", "unknown"},
            res : Result, cu : CU \cup {NoCU}, key : Stream]
Break   == [to : {"cmu"}, op : {"break"}, key : Stream \cup {NoStream}]
Packet  == [to : {"cu"}, via : Entry \X Link, addr : Addr \cup {NoAddr},
            key : Stream]
Message == Command \cup Answer \cup Break \cup Packet

CommandTo(hop, op, k) == [to |-> hop, op |-> op, key |-> k]

Feedback(by, op, res, u, k) ==
    [to |-> "cmu", by |-> by, op |-> op, res |-> res, cu |-> u, key |-> k]

(* streamStopToCmu names the stream only. *)
StreamBreak(k) == [to |-> "cmu", op |-> "break", key |-> k]

Opened == {"csg_open", "mdu_open"}
CmdState == Opened \cup {"none", "csg_close", "csg_unknown"}

-----------------------------------------------------------------------------
(* The searches of the handlers.                                           *)

(* Mutant: a listed entry whose CU list is empty is not found.             *)
EntriesOfWatched(k) == {t \in Entry : nodes[t] > 0 /\ cus[t] # {} /\ key[t] = k}

(* The entry in m_pTransferList with key k (at most one, see OneEntry).    *)
EntriesOf(k) == {t \in Entry : nodes[t] > 0 /\ key[t] = k}

(* The first entry whose CU list is empty: the scan does not look at       *)
(* m_pTransferList.                                                        *)
FirstFreeEntry(t) ==
    /\ cus[t] = {}
    /\ \A s \in Entry : s < t => cus[s] # {}

(* Mutant: a CULINK with one reference is taken for free.                  *)
FirstFreeLinkOffByOne(c) ==
    /\ refs[c] <= 1
    /\ \A d \in Link : d < c => refs[d] > 1

FirstFreeLink(c) ==
    /\ refs[c] = 0
    /\ \A d \in Link : d < c => refs[d] # 0

LinksOf(u) == {c \in cuList : id[c] = u}

(* Which of the links S a loop removes that takes g_list_next of the node  *)
(* it has just freed.  The slice allocator of glib clears the next pointer *)
(* of a freed node and the loop ends after one link; with the system       *)
(* allocator the old pointer may survive and the loop takes them all.      *)
Walk(S, gone) ==
    \/ "stale" \in FreedNext /\ gone = S
    \/ "null" \in FreedNext /\ \E c \in S : gone = {c}
    \/ S = {} /\ gone = {}

-----------------------------------------------------------------------------
(* Steps on the tables.                                                    *)

Init ==
    /\ key    = [t \in Entry |-> NoStream]
    /\ first  = [t \in Entry |-> NoCU]
    /\ node   = [t \in Entry |-> OtherNode]
    /\ cus    = [t \in Entry |-> {}]
    /\ nodes  = [t \in Entry |-> 0]
    /\ id     = [c \in Link |-> NoCU]
    /\ addr   = [c \in Link |-> NoAddr]
    /\ refs   = [c \in Link |-> 0]
    /\ cuList = {}
    /\ cmd    = [k \in Stream |-> "none"]
    /\ asked  = {}
    /\ said   = [u \in CU |-> 0]
    /\ out    = {}

(* Append link c to the CU list of entry t. *)
Join(t, c) ==
    /\ cus'  = [cus EXCEPT ![t] = @ \cup {c}]
    /\ refs' = [refs EXCEPT ![c] = @ + 1]

(* Mutant: any CU of the entry is taken for u.                             *)
AlreadyInAny(u, t) ==
    /\ cus[t] # {}
    /\ UNCHANGED <<cus, linkVars>>

(* Mutant: a repeated OPEN is counted again. *)
AlreadyInCounted(u, t) ==
    /\ \E c \in cus[t] :
          /\ id[c] = u
          /\ refs[c] < MaxRefs
          /\ refs' = [refs EXCEPT ![c] = @ + 1]
    /\ UNCHANGED <<cus, id, addr, cuList>>

(* The second half of avInsertList: record CU u in entry t.  A CU that is  *)
(* in some CULINK keeps the address it has there.                          *)
AlreadyIn(u, t) ==
    /\ \E c \in cus[t] : id[c] = u
    /\ UNCHANGED <<cus, linkVars>>

JoinKnown(u, t) ==
    /\ \A c \in cus[t] : id[c] # u
    /\ \E c \in LinksOf(u) :
          /\ refs[c] < MaxRefs
          /\ Join(t, c)
    /\ UNCHANGED <<id, addr, cuList>>

JoinNew(u, p, t) ==
    /\ \A c \in cus[t] : id[c] # u
    /\ LinksOf(u) = {}
    /\ \E c \in Link :
          /\ FirstFreeLink(c)
          /\ Join(t, c)
          /\ id'     = [id EXCEPT ![c] = u]
          /\ addr'   = [addr EXCEPT ![c] = <<u, p>>]
          /\ cuList' = cuList \cup {c}

NoRoom(u, t) ==
    /\ \A c \in cus[t] : id[c] # u
    /\ LinksOf(u) = {}
    /\ \A c \in Link : refs[c] # 0
    /\ UNCHANGED <<cus, linkVars>>

Record(u, p, t) ==
    AlreadyIn(u, t) \/ JoinKnown(u, t) \/ JoinNew(u, p, t) \/ NoRoom(u, t)

(* The stream is listed: avInsertList returns 0. *)
InsertListed(u, k, p) ==
    /\ \E t \in EntriesOf(k) : Record(u, p, t)
    /\ UNCHANGED entryVars

(* The stream is not listed: avInsertList returns 1, with or without room. *)
InsertFresh(u, k, p, front) ==
    /\ EntriesOf(k) = {}
    /\ \E t \in Entry :
          /\ FirstFreeEntry(t)
          /\ nodes[t] < MaxNodes
          /\ key'   = [key EXCEPT ![t] = k]
          /\ first' = [first EXCEPT ![t] = u]
          /\ node'  = [node EXCEPT ![t] = front]
          /\ nodes' = [nodes EXCEPT ![t] = @ + 1]
          /\ Record(u, p, t)

InsertNowhere(k) ==
    /\ EntriesOf(k) = {}
    /\ \A t \in Entry : cus[t] # {}
    /\ UNCHANGED tables

(* The links of gone lose one reference each; the unreferenced are cleared.*)
Unref(gone) ==
    LET freed == {c \in gone : refs[c] = 1}
    IN  /\ refs'   = [c \in Link |-> IF c \in gone THEN refs[c] - 1
                                                   ELSE refs[c]]
        /\ id'     = [c \in Link |-> IF c \in freed THEN NoCU ELSE id[c]]
        /\ addr'   = [c \in Link |-> IF c \in freed THEN NoAddr ELSE addr[c]]
        /\ cuList' = cuList \ freed

(* Mutant: the CU list of the entry survives. *)
ClearEntryKeepCUs(t) ==
    /\ nodes' = [nodes EXCEPT ![t] = @ - 1]
    /\ key'   = [key EXCEPT ![t] = NoStream]
    /\ first' = [first EXCEPT ![t] = NoCU]
    /\ node'  = [node EXCEPT ![t] = OtherNode]
    /\ UNCHANGED cus

(* g_list_remove from m_pTransferList takes one node, memset clears t. *)
ClearEntry(t) ==
    /\ nodes' = [nodes EXCEPT ![t] = @ - 1]
    /\ key'   = [key EXCEPT ![t] = NoStream]
    /\ first' = [first EXCEPT ![t] = NoCU]
    /\ node'  = [node EXCEPT ![t] = OtherNode]
    /\ cus'   = [cus EXCEPT ![t] = {}]

(* Mutant: the CUs are removed, the entry stays listed. *)
DestroyEntryListed(t) ==
    /\ cus' = [cus EXCEPT ![t] = {}]
    /\ \E gone \in SUBSET cus[t] : Walk(cus[t], gone) /\ Unref(gone)
    /\ UNCHANGED entryVars

(* destoryPUList on the entry it found, and the watchdog's copy of it. *)
DestroyEntry(t) ==
    /\ ClearEntry(t)
    /\ \E gone \in SUBSET cus[t] : Walk(cus[t], gone) /\ Unref(gone)

-----------------------------------------------------------------------------
(* The handlers.                                                           *)

(* odDataOpen: a new stream is asked for at the CSG or, with a route, at   *)
(* the next MDU; a listed one is answered at once.                         *)
OpenListed(u, k, p) ==
    /\ InsertListed(u, k, p)
    /\ out' = {Feedback("mdu", "open", "ok", u, k)}
    /\ UNCHANGED <<cmd, asked>>

OpenNew(u, k, p, front, routed) ==
    /\ InsertFresh(u, k, p, front) \/ InsertNowhere(k)
    /\ IF routed
       THEN /\ cmd' = [cmd EXCEPT ![k] = "mdu_open"]
            /\ out' = {CommandTo("mdu", "open", k)}
            /\ UNCHANGED asked
       ELSE /\ cmd' = [cmd EXCEPT ![k] = "csg_open"]
            /\ out' = {CommandTo("csg", "open", k)}
            /\ asked' = asked \cup {<<"open", k>>}

Open(u, k, p, front, routed) ==
    /\ OpenListed(u, k, p) \/ OpenNew(u, k, p, front, routed)
    /\ said' = IF LinksOf(u) = {} THEN [said EXCEPT ![u] = p] ELSE said

(* The key odDataClose searches for.  An audio CLOSE leaves mstreamtype    *)
(* uninitialised; relayed by an MDU it also leaves the media type so, since *)
(* judgeOrderMsgTpye passes a message type odDataClose does not know.      *)
(* NoStream stands for every value that matches no stream.                 *)
CloseKey(k, front) ==
    CASE k.media = "vod" -> {k}
      [] k.media = "aod" /\ front = FirstNode ->
            [pu : {k.pu}, sub : SubStream, media : {"aod"}] \cup {NoStream}
      [] k.media = "aod" /\ front # FirstNode ->
            [pu : {k.pu}, sub : SubStream, media : Media] \cup {NoStream}

(* The type of the message odDataClose sends. *)
CloseOp(k, front) ==
    IF k.media = "aod" /\ front = OtherNode THEN "unknown" ELSE "close"

(* Mutant: the count of the CULINK decides whether the stream is released. *)
LeaveLastByCount(u, k, op) ==
    \E t \in EntriesOf(k) : \E c \in cus[t] :
        /\ id[c] = u
        /\ refs[c] = 1
        /\ ClearEntry(t)
        /\ Unref({c})
        /\ out' = {CommandTo("csg", op, k)}
        /\ cmd' = [cmd EXCEPT ![k] = "csg_close"]
        /\ asked' = asked \cup {<<"close", k>>}

LeaveLast(u, k, op) ==
    \E t \in EntriesOf(k) : \E c \in cus[t] :
        /\ id[c] = u
        /\ cus[t] = {c}
        /\ ClearEntry(t)
        /\ Unref({c})
        /\ out' = {CommandTo("csg", op, k)}
        /\ IF op = "close"
           THEN /\ cmd' = [cmd EXCEPT ![k] = "csg_close"]
                /\ asked' = asked \cup {<<"close", k>>}
           ELSE /\ cmd' = [cmd EXCEPT ![k] = "csg_unknown"]
                /\ UNCHANGED asked

(* Mutant: the CULINK is released but stays in the CU list. *)
LeaveOthersListed(u, k, op) ==
    \E t \in EntriesOf(k) : \E c \in cus[t] :
        /\ id[c] = u
        /\ cus[t] # {c}
        /\ Unref({c})
        /\ out' = {Feedback("mdu", op, "ok", u, k)}
        /\ UNCHANGED <<entryVars, cus, cmd, asked>>

LeaveOthers(u, k, op) ==
    \E t \in EntriesOf(k) : \E c \in cus[t] :
        /\ id[c] = u
        /\ cus[t] # {c}
        /\ cus' = [cus EXCEPT ![t] = @ \ {c}]
        /\ Unref({c})
        /\ out' = {Feedback("mdu", op, "ok", u, k)}
        /\ UNCHANGED <<entryVars, cmd, asked>>

LeaveNothing(u, k) ==
    /\ \A t \in EntriesOf(k) : \A c \in cus[t] : id[c] # u
    /\ out' = {}
    /\ UNCHANGED <<tables, cmd, asked>>

Close(u, k, front) ==
    /\ \E kk \in CloseKey(k, front) :
          \/ LeaveLast(u, kk, CloseOp(k, front))
          \/ LeaveOthers(u, kk, CloseOp(k, front))
          \/ LeaveNothing(u, kk)
    /\ UNCHANGED said

(* Mutant: the media type of an entry is not compared. *)
AnsweredKeyAnyMedia(k) ==
    LET like(m) == [pu |-> k.pu, sub |-> k.sub, media |-> m]
    IN  IF EntriesOf(like("vod")) # {} THEN like("vod") ELSE like("aod")

(* sendodFBToCmu always looks for a video stream; an audio answer has no   *)
(* stream id and is looked up as main stream 0.                            *)
AnsweredKey(k) ==
    [pu |-> k.pu, sub |-> IF k.media = "vod" THEN k.sub ELSE 0,
     media |-> "vod"]

(* The CSG answers a command it was sent, possibly an old one. *)
CsgAnswer(op, res, k) ==
    /\ <<op, k>> \in asked
    /\ LET found == EntriesOf(AnsweredKey(k))
       IN  \/ /\ found = {}
              /\ out' = {}
              /\ UNCHANGED tables
           \/ \E t \in found :
                 /\ out' = {Feedback("csg", op, res, first[t], k)}
                 /\ IF op = "open" /\ res = "fail"
                    THEN DestroyEntry(t)
                    ELSE UNCHANGED tables
    /\ UNCHANGED <<cmd, asked, said>>

(* Media from the CSG goes to every CU of the stream (mdu_datafrom_csg). *)
Forward(k) ==
    /\ <<"open", k>> \in asked
    /\ out' = UNION {{[to |-> "cu", via |-> <<t, c>>, addr |-> addr[c], key |-> k]
                          : c \in cus[t]} : t \in EntriesOf(k)}
    /\ UNCHANGED <<tables, cmd, asked, said>>

(* Mutant: the address of a CU stays the one of its OPEN. *)
CuKeepAliveIgnored(u, p) ==
    /\ said' = [said EXCEPT ![u] = p]
    /\ out' = {}
    /\ UNCHANGED <<tables, cmd, asked>>

(* A CU announces its address (mdu_msgfrom_cu). *)
CuKeepAlive(u, p) ==
    /\ addr' = [c \in Link |-> IF c \in LinksOf(u) THEN <<u, p>> ELSE addr[c]]
    /\ said' = [said EXCEPT ![u] = p]
    /\ out' = {}
    /\ UNCHANGED <<key, first, node, cus, nodes, id, refs, cuList, cmd, asked>>

(* puExistTime finds a stream silent; only entries the CMU opened directly *)
(* are watched.                                                            *)
PuTimeout(t) ==
    /\ nodes[t] > 0
    /\ node[t] = FirstNode
    /\ out' = {StreamBreak(key[t])}
    /\ DestroyEntry(t)
    /\ UNCHANGED <<cmd, asked, said>>

(* The process exits when the CMU is silent (KeepAliveToCmu), or dies, and *)
(* runmonitor.sh starts it again.                                          *)
Restart ==
    /\ key'    = [t \in Entry |-> NoStream]
    /\ first'  = [t \in Entry |-> NoCU]
    /\ node'   = [t \in Entry |-> OtherNode]
    /\ cus'    = [t \in Entry |-> {}]
    /\ nodes'  = [t \in Entry |-> 0]
    /\ id'     = [c \in Link |-> NoCU]
    /\ addr'   = [c \in Link |-> NoAddr]
    /\ refs'   = [c \in Link |-> 0]
    /\ cuList' = {}
    /\ said'   = [u \in CU |-> 0]
    /\ out'    = {}
    /\ UNCHANGED <<cmd, asked>>

Next ==
    \/ \E u \in CU, k \in Request, p \in Port, f \in Front, r \in Routed :
          Open(u, k, p, f, r)
    \/ \E u \in CU, k \in Request, f \in Front : Close(u, k, f)
    \/ \E op \in {"open", "close"}, res \in Result, k \in Stream :
          CsgAnswer(op, res, k)
    \/ \E k \in Stream : Forward(k)
    \/ \E u \in CU, p \in Port : CuKeepAlive(u, p)
    \/ \E t \in Entry : PuTimeout(t)
    \/ Restart

Spec == Init /\ [][Next]_vars

-----------------------------------------------------------------------------
(* Derived notions.                                                        *)

(* The entries whose CU list holds link c. *)
Holders(c) == {t \in Entry : c \in cus[t]}

(* The CUs that watch stream k according to the tables. *)
Viewers(k) == {id[c] : c \in UNION {cus[t] : t \in EntriesOf(k)}}

(* The subscriptions the tables stand for. *)
Subs == {s \in CU \X Stream : s[1] \in Viewers(s[2])}

-----------------------------------------------------------------------------
(* The values the variables take. *)
TypeOK ==
    /\ key    \in [Entry -> Stream \cup {NoStream}]
    /\ first  \in [Entry -> CU \cup {NoCU}]
    /\ node   \in [Entry -> {FirstNode, OtherNode}]
    /\ cus    \in [Entry -> SUBSET Link]
    /\ nodes  \in [Entry -> 0..MaxNodes]
    /\ id     \in [Link -> CU \cup {NoCU}]
    /\ addr   \in [Link -> Addr \cup {NoAddr}]
    /\ refs   \in [Link -> 0..MaxRefs]
    /\ cuList \in SUBSET Link
    /\ cmd    \in [Stream -> CmdState]
    /\ asked  \in SUBSET ({"open", "close"} \X Stream)
    /\ said   \in [CU -> Port \cup {0}]
    /\ out    \in SUBSET Message

(* A CULINK is counted at least once for every entry that lists it: the    *)
(* scan for a free CULINK (mdulist.c:156) cannot take one a stream uses.   *)
RefsCover == \A c \in Link : Cardinality(Holders(c)) <= refs[c]

(* References a CULINK has beyond the streams that list it: one that is    *)
(* leaked is never free again.                                             *)
Surplus(c) == refs[c] - Cardinality(Holders(c))

(* The counts and the CU lists change together.  A reference leaks only    *)
(* when a stream with several CUs is destroyed (by a silent source or a    *)
(* failed OPEN), one for each CU the loop over freed nodes misses, and     *)
(* never those of all its CUs: with either allocator the loop gives back   *)
(* the reference of one CU at least.                                       *)
Missed(c) ==
    \E t \in Entry :
        /\ c \in cus[t]
        /\ nodes'[t] < nodes[t]
        /\ \E d \in cus[t] \ {c} : Surplus(d)' = Surplus(d)
LeaksOnlyAtLoss ==
    [][Restart \/ \A c \in Link :
          \/ Surplus(c)' = Surplus(c)
          \/ /\ Surplus(c)' = Surplus(c) + 1
             /\ Missed(c)]_vars

(* m_pCUList names exactly the CULINKs in use, and every one of them holds *)
(* an address its own CU announced.                                        *)
ListIsRefs == cuList = {c \in Link : refs[c] > 0}
LinksOwned == \A c \in cuList : id[c] \in CU /\ addr[c] \in Addr
                                              /\ addr[c][1] = id[c]

(* Every CULINK a stream lists is live: it is counted, it is in m_pCUList, *)
(* and its address is one that its own CU announced, so media cannot go to *)
(* a CU the slot belonged to before or will belong to later.               *)
NoDangling ==
    \A t \in Entry : \A c \in cus[t] :
        /\ refs[c] > 0
        /\ c \in cuList
        /\ id[c] \in CU
        /\ addr[c][1] = id[c]

(* The searches have at most one answer: a stream has one entry in         *)
(* m_pTransferList and a CU one CULINK in m_pCUList.                       *)
OneEntry ==
    \A s, t \in Entry :
        nodes[s] > 0 /\ nodes[t] > 0 /\ key[s] = key[t] /\ key[s] # NoStream
            => s = t
OneLink == \A c, d \in cuList : id[c] = id[d] => c = d
Unique == OneEntry /\ OneLink

(* A stream with viewers is in m_pTransferList, where media and CLOSE find *)
(* it, and the last command sent upstream about it was its OPEN: the MDU   *)
(* never releases a stream somebody watches nor records one unasked.       *)
Sourced ==
    /\ \A t \in Entry : cus[t] # {} => nodes[t] > 0 /\ key[t] \in Stream
    /\ \A t \in Entry : nodes[t] > 0 /\ key[t] # NoStream
                            => cmd[key[t]] \in Opened

(* An entry the scan for free space may take (mdulist.c:69-95) is not in   *)
(* m_pTransferList, and an entry is never in that list twice.              *)
FreeUnlisted ==
    \A t \in Entry : nodes[t] <= 1 /\ (cus[t] = {} => nodes[t] = 0)

(* What the MDU answers by itself is true when it is sent: an OPEN is      *)
(* granted only if the CU now watches the stream, a CLOSE is confirmed     *)
(* here only if the CU no longer does and somebody else still does.        *)
OwnAnswersTrue ==
    \A m \in out :
        m \in Answer /\ m.by = "mdu" =>
            /\ m.op = "open"  => m.cu \in Viewers(m.key)
            /\ m.op = "close" => m.cu \notin Viewers(m.key)
                                 /\ Viewers(m.key) # {}

(* The address of every CULINK in use is the one its CU named last.        *)
AddrSaid == \A c \in cuList : addr[c] = <<id[c], said[id[c]]>>

(* The packets of one media datagram go to every viewer of the stream, at  *)
(* the address it named last, one packet each, and to nobody else.  (An    *)
(* OPEN of a CU that is recorded already does not count as naming one:     *)
(* avInsertList drops its address, mdulist.c:129.)                         *)
EveryViewer ==
    \A m \in out : m.to = "cu" =>
        /\ {n.addr : n \in out} = {<<u, said[u]>> : u \in Viewers(m.key)}
        /\ Cardinality(out) = Cardinality(Viewers(m.key))

(* When the MDU has passed on that the CSG could not open a video stream,  *)
(* it has forgotten the stream ("if the recived information from csg is    *)
(* open_failure,then remove pu_cuinfo", mdusock.c:804), whatever sound     *)
(* streams it carries.  A failed sound stream it does not forget: line 786.*)
Relays(m) == m \in Answer /\ m.by = "csg"
FailedOpenRemoved ==
    \A m \in out :
        Relays(m) /\ m.op = "open" /\ m.res = "fail" /\ m.key.media = "vod"
            => EntriesOf(m.key) = {}

(* How far an answer of the CSG reaches: it takes viewers from the stream  *)
(* it names and, when it names a sound stream, from the main video stream  *)
(* of the same device, for which sendodFBToCmu takes it (mdusock.c:786).   *)
MainVideo(k) == [pu |-> k.pu, sub |-> 0, media |-> "vod"]
AnswerIsLocal ==
    [][\A m \in out' : Relays(m) =>
          \A s \in Subs \ Subs' :
              \/ s[2] = m.key
              \/ m.key.media = "aod" /\ s[2] = MainVideo(m.key)]_vars

(* Every answer of the CSG reaches the CMU ("receive message from csg and  *)
(* parse data packet, then send feedback to cmu", mdusock.c:1231).         *)
AnswerRelayed ==
    [][\A op \in {"open", "close"}, res \in Result, k \in Stream :
          CsgAnswer(op, res, k) => \E m \in out' : m \in Answer]_vars

(* The tables implement the abstract subscriptions.                        *)
Abstract == INSTANCE Subscriptions
                WITH subs <- Subs,
                     upstream <- {k \in Stream : cmd[k] \in Opened}
Subscribed == Abstract!Spec
=============================================================================
