--------------------------- MODULE MduStreamsProofs ---------------------------
(***************************************************************************)
(* The safety of the stream tables, for every number of CUs, streams,      *)
(* entries and CULINKs and for every behaviour of the freed list nodes.    *)
(*                                                                         *)
(* The inductive invariant has two halves.  LinkInv speaks of the CULINKs  *)
(* and of the CU lists that point to them; EntryInv of the entries and of  *)
(* the commands sent upstream.  Every handler changes the CULINKs through  *)
(* Record or Unref, so LinkInv needs one lemma for each.                   *)
(*                                                                         *)
(* On top of it: where media goes (SaidInv), the refinement of             *)
(* Subscriptions, how far an answer reaches, how references leak, and what *)
(* follows when there is a CULINK for every CU.                            *)
(***************************************************************************)
EXTENDS MduStreams, FiniteSetTheorems, TLAPS

LinkType ==
    /\ cus    \in [Entry -> SUBSET Link]
    /\ id     \in [Link -> CU \cup {NoCU}]
    /\ addr   \in [Link -> Addr \cup {NoAddr}]
    /\ refs   \in [Link -> 0..MaxRefs]
    /\ cuList \in SUBSET Link

LinkInv == LinkType /\ RefsCover /\ ListIsRefs /\ LinksOwned /\ OneLink

EntryType ==
    /\ key    \in [Entry -> Stream \cup {NoStream}]
    /\ first  \in [Entry -> CU \cup {NoCU}]
    /\ node   \in [Entry -> {FirstNode, OtherNode}]
    /\ nodes  \in [Entry -> 0..MaxNodes]
    /\ cmd    \in [Stream -> CmdState]
    /\ asked  \in SUBSET ({"open", "close"} \X Stream)

EntryInv == EntryType /\ OneEntry /\ Sourced

IInv == LinkInv /\ EntryInv /\ out \in SUBSET Message

-----------------------------------------------------------------------------
(* Counting holders. *)

Bit(b) == IF b THEN 1 ELSE 0

LEMMA HoldersFinite ==
    ASSUME NEW c
    PROVE  IsFiniteSet(Holders(c)) /\ Cardinality(Holders(c)) \in Nat
<1>1. IsFiniteSet(Entry)
  BY StreamsAssumption, FS_Interval DEF Entry
<1>2. Holders(c) \subseteq Entry
  BY DEF Holders
<1>. QED  BY <1>1, <1>2, FS_Subset, FS_CardinalityType

(* Replacing the CU list of one entry changes the number of holders of a   *)
(* link by whether the link is in the new list and was in the old one.     *)
LEMMA HoldersStep ==
    ASSUME cus \in [Entry -> SUBSET Link], NEW t \in Entry,
           NEW S \in SUBSET Link, cus' = [cus EXCEPT ![t] = S], NEW c \in Link
    PROVE  Cardinality(Holders(c)') =
              Cardinality(Holders(c)) + Bit(c \in S) - Bit(c \in cus[t])
<1>. DEFINE rest == Holders(c) \ {t}
<1>1. IsFiniteSet(rest) /\ t \notin rest
  BY HoldersFinite, FS_Subset
<1>2. /\ Cardinality(rest) \in Nat
      /\ Cardinality(rest \cup {t}) = Cardinality(rest) + 1
  BY <1>1, FS_AddElement, FS_CardinalityType
<1>3. Holders(c) = IF c \in cus[t] THEN rest \cup {t} ELSE rest
  BY DEF Holders
<1>4. Holders(c)' = IF c \in S THEN rest \cup {t} ELSE rest
  BY DEF Holders
<1>. HIDE DEF rest
<1>5. Cardinality(Holders(c)) = Cardinality(rest) + Bit(c \in cus[t])
  BY <1>2, <1>3 DEF Bit
<1>6. Cardinality(Holders(c)') = Cardinality(rest) + Bit(c \in S)
  BY <1>2, <1>4 DEF Bit
<1>. QED  BY <1>2, <1>5, <1>6 DEF Bit

-----------------------------------------------------------------------------
(* The two ways of changing the CULINKs.                                   *)

(* Record keeps LinkInv and only adds to the CU list of its entry. *)
LEMMA RecordLinks ==
    ASSUME LinkInv, NEW u \in CU, NEW p \in Port, NEW t \in Entry,
           Record(u, p, t)
    PROVE  /\ LinkInv'
           /\ cus' \in [Entry -> SUBSET Link]
           /\ \A s \in Entry \ {t} : cus'[s] = cus[s]
           /\ cus[t] \subseteq cus'[t]
<1>. USE DEF LinkInv, LinkType
<1>1. CASE AlreadyIn(u, t) \/ NoRoom(u, t)
  <2>1. UNCHANGED <<cus, id, addr, refs, cuList>>
    BY <1>1 DEF AlreadyIn, NoRoom, linkVars
  <2>. QED  BY <2>1 DEF RefsCover, Holders, ListIsRefs, LinksOwned, OneLink
<1>2. ASSUME NEW c \in Link, c \notin cus[t], refs[c] < MaxRefs, Join(t, c)
      PROVE  /\ cus' \in [Entry -> SUBSET Link]
             /\ \A s \in Entry \ {t} : cus'[s] = cus[s]
             /\ cus[t] \subseteq cus'[t]
             /\ refs' \in [Link -> 0..MaxRefs]
             /\ RefsCover'
  <2>1. /\ cus' = [cus EXCEPT ![t] = cus[t] \cup {c}]
        /\ refs' = [refs EXCEPT ![c] = refs[c] + 1]
    BY <1>2 DEF Join
  <2>2. refs' \in [Link -> 0..MaxRefs]
    BY <1>2, <2>1, StreamsAssumption
  <2>3. ASSUME NEW d \in Link PROVE Cardinality(Holders(d))' <= refs'[d]
    <3>1. Cardinality(Holders(d)') = Cardinality(Holders(d))
              + Bit(d \in cus[t] \cup {c}) - Bit(d \in cus[t])
      BY <2>1, HoldersStep
    <3>2. Cardinality(Holders(d)) \in Nat /\ Cardinality(Holders(d)) <= refs[d]
      BY HoldersFinite DEF RefsCover
    <3>. QED  BY <1>2, <2>1, <3>1, <3>2 DEF Bit
  <2>. QED  BY <2>1, <2>2, <2>3 DEF RefsCover
<1>3. CASE JoinKnown(u, t)
  <2>1. PICK c \in LinksOf(u) : refs[c] < MaxRefs /\ Join(t, c)
    BY <1>3 DEF JoinKnown
  <2>2. c \in Link /\ c \in cuList /\ id[c] = u /\ c \notin cus[t]
        /\ UNCHANGED <<id, addr, cuList>>
    BY <1>3, <2>1 DEF JoinKnown, LinksOf
  <2>3. cuList' = {d \in Link : refs'[d] > 0}
    BY <2>1, <2>2 DEF ListIsRefs, Join
  <2>. QED  BY <1>2, <2>1, <2>2, <2>3 DEF ListIsRefs, LinksOwned, OneLink
<1>4. CASE JoinNew(u, p, t)
  <2>1. PICK c \in Link :
              /\ FirstFreeLink(c)
              /\ Join(t, c)
              /\ id'     = [id EXCEPT ![c] = u]
              /\ addr'   = [addr EXCEPT ![c] = <<u, p>>]
              /\ cuList' = cuList \cup {c}
    BY <1>4 DEF JoinNew
  <2>2. refs[c] = 0 /\ refs[c] < MaxRefs /\ c \notin cuList
    BY <2>1, StreamsAssumption DEF FirstFreeLink, ListIsRefs
  <2>3. c \notin cus[t]
    <3>1. Holders(c) = {}
      BY <2>2, HoldersFinite, FS_EmptySet DEF RefsCover
    <3>. QED  BY <3>1 DEF Holders
  <2>4. \A d \in cuList : id[d] # u
    BY <1>4 DEF JoinNew, LinksOf
  <2>5. cuList' = {d \in Link : refs'[d] > 0}
    BY <2>1, <2>2 DEF ListIsRefs, Join
  <2>6. LinksOwned'
    BY <2>1 DEF LinksOwned, Addr
  <2>7. OneLink'
    BY <2>1, <2>2, <2>4 DEF OneLink
  <2>. QED  BY <1>2, <2>1, <2>2, <2>3, <2>5, <2>6, <2>7 DEF ListIsRefs, Addr
<1>. QED  BY <1>1, <1>3, <1>4 DEF Record

(* A link some entry lists is counted. *)
LEMMA HeldCounted ==
    ASSUME LinkInv, NEW t \in Entry, NEW c \in cus[t]
    PROVE  c \in Link /\ refs[c] > 0
<1>1. c \in Link /\ Holders(c) # {} /\ refs[c] \in Nat
  BY DEF LinkInv, LinkType, Holders
<1>2. Cardinality(Holders(c)) # 0 /\ Cardinality(Holders(c)) \in Nat
  BY <1>1, HoldersFinite, FS_EmptySet
<1>3. Cardinality(Holders(c)) <= refs[c]
  BY <1>1 DEF LinkInv, RefsCover
<1>. QED  BY <1>1, <1>2, <1>3

(* Taking some links out of the CU list of an entry and dropping one       *)
(* reference of each keeps LinkInv, whatever else leaves that list.        *)
LEMMA UnrefLinks ==
    ASSUME LinkInv, NEW t \in Entry, NEW gone \in SUBSET cus[t],
           NEW S \in SUBSET (cus[t] \ gone),
           cus' = [cus EXCEPT ![t] = S], Unref(gone)
    PROVE  LinkInv'
<1>. USE DEF LinkInv, LinkType
<1>. DEFINE freed == {c \in gone : refs[c] = 1}
<1>1. /\ refs' = [c \in Link |-> IF c \in gone THEN refs[c] - 1 ELSE refs[c]]
      /\ id'   = [c \in Link |-> IF c \in freed THEN NoCU ELSE id[c]]
      /\ addr' = [c \in Link |-> IF c \in freed THEN NoAddr ELSE addr[c]]
      /\ cuList' = cuList \ freed
  BY DEF Unref
<1>2. ASSUME NEW c \in Link
      PROVE  /\ c \in gone => refs[c] > 0
             /\ Cardinality(Holders(c))' <= refs'[c]
  <2>1. Cardinality(Holders(c)') =
            Cardinality(Holders(c)) + Bit(c \in S) - Bit(c \in cus[t])
    BY HoldersStep
  <2>2. Cardinality(Holders(c)) \in Nat /\ Cardinality(Holders(c)) <= refs[c]
    BY HoldersFinite DEF RefsCover
  <2>3. c \in gone => refs[c] > 0
    BY HeldCounted
  <2>. QED  BY <1>1, <2>1, <2>2, <2>3 DEF Bit
<1>3. refs' \in [Link -> 0..MaxRefs] /\ RefsCover'
  BY <1>1, <1>2, StreamsAssumption DEF RefsCover
<1>4. ListIsRefs'
  BY <1>1, <1>2 DEF ListIsRefs
<1>5. LinksOwned' /\ OneLink'
  BY <1>1 DEF LinksOwned, OneLink
<1>. QED  BY <1>1, <1>3, <1>4, <1>5

-----------------------------------------------------------------------------
(* The handlers, one lemma each.                                           *)

LEMMA InitInv == Init => IInv
<1>. SUFFICES ASSUME Init PROVE IInv
  OBVIOUS
<1>. USE DEF Init
<1>1. LinkType /\ EntryType /\ out \in SUBSET Message
  BY StreamsAssumption DEF LinkType, EntryType, CmdState, FirstNode, OtherNode
<1>2. ASSUME NEW c \in Link PROVE Cardinality(Holders(c)) <= refs[c]
  <2>1. Holders(c) = {}
    BY DEF Holders
  <2>. QED  BY <2>1, FS_EmptySet
<1>3. ListIsRefs /\ LinksOwned /\ OneLink /\ OneEntry /\ Sourced
  BY DEF ListIsRefs, LinksOwned, OneLink, OneEntry, Sourced
<1>. QED  BY <1>1, <1>2, <1>3 DEF IInv, LinkInv, EntryInv, RefsCover

LEMMA OpenListedInv ==
    ASSUME IInv, NEW u \in CU, NEW k \in Request, NEW p \in Port,
           OpenListed(u, k, p)
    PROVE  IInv'
<1>. USE DEF IInv
<1>1. PICK t \in EntriesOf(k) : Record(u, p, t)
  BY DEF OpenListed, InsertListed
<1>2. t \in Entry /\ nodes[t] > 0 /\ key[t] = k /\ k \in Stream
  BY <1>1, StreamsAssumption DEF EntriesOf
<1>3. /\ LinkInv'
      /\ cus' \in [Entry -> SUBSET Link]
      /\ \A s \in Entry \ {t} : cus'[s] = cus[s]
  BY <1>1, <1>2, RecordLinks
<1>4. UNCHANGED <<key, first, node, nodes, cmd, asked>>
  BY DEF OpenListed, InsertListed, entryVars
<1>5. EntryInv'
  BY <1>2, <1>3, <1>4 DEF EntryInv, EntryType, OneEntry, Sourced
<1>6. out' \in SUBSET Message
  BY <1>2 DEF OpenListed, Feedback, Message, Answer, Result
<1>. QED  BY <1>3, <1>5, <1>6

LEMMA OpenNewInv ==
    ASSUME IInv, NEW u \in CU, NEW k \in Request, NEW p \in Port,
           NEW f \in Front, NEW r \in Routed, OpenNew(u, k, p, f, r)
    PROVE  IInv'
<1>. USE DEF IInv
<1>1. k \in Stream /\ EntriesOf(k) = {}
  BY StreamsAssumption DEF OpenNew, InsertFresh, InsertNowhere
<1>2. /\ \E h \in Opened : cmd' = [cmd EXCEPT ![k] = h]
      /\ asked' \in SUBSET ({"open", "close"} \X Stream)
      /\ out' \in SUBSET Message
  BY <1>1 DEF OpenNew, EntryInv, EntryType, Opened, CommandTo, Message,
              Command, Hop
<1>3. /\ cmd' \in [Stream -> CmdState]
      /\ cmd'[k] \in Opened
      /\ \A j \in Stream \ {k} : cmd'[j] = cmd[j]
  BY <1>1, <1>2 DEF EntryInv, EntryType, CmdState
<1>4. CASE InsertFresh(u, k, p, f)
  <2>1. PICK t \in Entry :
              /\ FirstFreeEntry(t)
              /\ nodes[t] < MaxNodes
              /\ key'   = [key EXCEPT ![t] = k]
              /\ first' = [first EXCEPT ![t] = u]
              /\ node'  = [node EXCEPT ![t] = f]
              /\ nodes' = [nodes EXCEPT ![t] = nodes[t] + 1]
              /\ Record(u, p, t)
    BY <1>4 DEF InsertFresh
  <2>2. /\ LinkInv'
        /\ cus' \in [Entry -> SUBSET Link]
        /\ \A s \in Entry \ {t} : cus'[s] = cus[s]
    BY <2>1, RecordLinks
  <2>3. EntryType'
    BY <1>1, <1>2, <1>3, <2>1, StreamsAssumption DEF EntryInv, EntryType
  <2>4. nodes'[t] > 0 /\ key'[t] = k
        /\ \A s \in Entry \ {t} : nodes'[s] = nodes[s] /\ key'[s] = key[s]
    BY <2>1 DEF EntryInv, EntryType
  <2>5. \A s \in Entry \ {t} : nodes[s] > 0 => key[s] # k
    BY <1>1 DEF EntriesOf
  <2>6. OneEntry'
    BY <2>4, <2>5 DEF EntryInv, OneEntry
  <2>7. Sourced'
    BY <1>1, <1>3, <2>2, <2>4, <2>5 DEF EntryInv, EntryType, Sourced
  <2>. QED  BY <1>2, <2>2, <2>3, <2>6, <2>7 DEF EntryInv
<1>5. CASE InsertNowhere(k)
  <2>1. UNCHANGED tables
    BY <1>5 DEF InsertNowhere
  <2>2. LinkInv'
    BY <2>1 DEF tables, LinkInv, LinkType, RefsCover, Holders, ListIsRefs,
                LinksOwned, OneLink
  <2>3. EntryInv'
    BY <1>1, <1>2, <1>3, <2>1
       DEF tables, EntryInv, EntryType, OneEntry, Sourced, EntriesOf
  <2>. QED  BY <1>2, <2>2, <2>3
<1>. QED  BY <1>4, <1>5 DEF OpenNew

(* The entry t leaves the list, its links lose the references of gone. *)
LEMMA ClearInv ==
    ASSUME LinkInv, EntryInv, NEW t \in Entry, nodes[t] > 0, ClearEntry(t),
           NEW gone \in SUBSET cus[t], Unref(gone),
           cmd' \in [Stream -> CmdState],
           \A j \in Stream \ {key[t]} : cmd'[j] = cmd[j],
           asked' \in SUBSET ({"open", "close"} \X Stream)
    PROVE  LinkInv' /\ EntryInv'
<1>1. LinkInv'
  BY UnrefLinks DEF ClearEntry
<1>2. EntryType'
  BY StreamsAssumption DEF EntryInv, EntryType, ClearEntry
<1>3. /\ key'[t] = NoStream /\ cus'[t] = {}
      /\ \A s \in Entry \ {t} : /\ nodes'[s] = nodes[s]
                                /\ key'[s] = key[s]
                                /\ cus'[s] = cus[s]
  BY DEF ClearEntry, EntryInv, EntryType, LinkInv, LinkType
<1>4. OneEntry'
  BY <1>3 DEF EntryInv, OneEntry
<1>5. Sourced'
  BY <1>3 DEF EntryInv, EntryType, OneEntry, Sourced
<1>. QED  BY <1>1, <1>2, <1>4, <1>5 DEF EntryInv

(* Nothing in the tables or sent upstream changes. *)
LEMMA StutterInv ==
    ASSUME LinkInv, EntryInv, UNCHANGED <<tables, cmd, asked>>
    PROVE  LinkInv' /\ EntryInv'
BY DEF tables, LinkInv, LinkType, RefsCover, Holders, ListIsRefs, LinksOwned,
       OneLink, EntryInv, EntryType, OneEntry, Sourced

LEMMA CloseInv ==
    ASSUME IInv, NEW u \in CU, NEW k \in Stream \cup {NoStream},
           NEW op \in {"close", "unknown"},
           \/ LeaveLast(u, k, op)
           \/ LeaveOthers(u, k, op)
           \/ LeaveNothing(u, k)
    PROVE  IInv'
<1>. USE DEF IInv
<1>1. CASE LeaveLast(u, k, op)
  <2>1. PICK t \in EntriesOf(k) : \E c \in cus[t] : ClearEntry(t) /\ Unref({c})
    BY <1>1 DEF LeaveLast
  <2>2. PICK c \in cus[t] : ClearEntry(t) /\ Unref({c})
    BY <2>1
  <2>3. t \in Entry /\ nodes[t] > 0 /\ key[t] = k /\ cus[t] # {}
    BY <2>1 DEF EntriesOf
  <2>4. k \in Stream
    BY <2>3 DEF EntryInv, Sourced
  <2>5. /\ cmd' \in [Stream -> CmdState]
        /\ \A j \in Stream \ {k} : cmd'[j] = cmd[j]
        /\ asked' \in SUBSET ({"open", "close"} \X Stream)
        /\ out' \in SUBSET Message
    BY <1>1, <2>4 DEF LeaveLast, EntryInv, EntryType, CmdState, CommandTo,
                      Message, Command, Hop
  <2>. QED  BY <2>2, <2>3, <2>5, ClearInv
<1>2. CASE LeaveOthers(u, k, op)
  <2>0. PICK t \in EntriesOf(k) : \E c \in cus[t] :
              /\ cus' = [cus EXCEPT ![t] = cus[t] \ {c}]
              /\ Unref({c})
    BY <1>2 DEF LeaveOthers
  <2>1. PICK c \in cus[t] : /\ cus' = [cus EXCEPT ![t] = cus[t] \ {c}]
                            /\ Unref({c})
    BY <2>0
  <2>2. t \in Entry /\ nodes[t] > 0 /\ key[t] = k /\ cus[t] # {}
    BY <2>1 DEF EntriesOf
  <2>3. k \in Stream
    BY <2>2 DEF EntryInv, Sourced
  <2>4. LinkInv'
    BY <2>1, <2>2, UnrefLinks
  <2>5. UNCHANGED <<key, first, node, nodes, cmd, asked>>
    BY <1>2 DEF LeaveOthers, entryVars
  <2>6. EntryInv'
    BY <2>1, <2>2, <2>5
       DEF EntryInv, EntryType, OneEntry, Sourced, LinkInv, LinkType
  <2>7. out' \in SUBSET Message
    BY <1>2, <2>3 DEF LeaveOthers, Feedback, Message, Answer, Result
  <2>. QED  BY <2>4, <2>6, <2>7
<1>3. CASE LeaveNothing(u, k)
  BY <1>3, StutterInv DEF LeaveNothing
<1>. QED  BY <1>1, <1>2, <1>3

(* What destoryPUList and the watchdog do to an entry. *)
LEMMA DestroyInv ==
    ASSUME LinkInv, EntryInv, NEW t \in Entry, nodes[t] > 0, DestroyEntry(t),
           UNCHANGED <<cmd, asked>>
    PROVE  LinkInv' /\ EntryInv'
BY ClearInv DEF DestroyEntry, EntryInv, EntryType

LEMMA CsgAnswerInv ==
    ASSUME IInv, NEW op \in {"open", "close"}, NEW res \in Result,
           NEW k \in Stream, CsgAnswer(op, res, k)
    PROVE  IInv'
<1>. USE DEF IInv
<1>. DEFINE found == EntriesOf(AnsweredKey(k))
<1>1. CASE out' = {} /\ UNCHANGED tables
  BY <1>1, StutterInv DEF CsgAnswer
<1>2. ASSUME NEW t \in found,
             out' = {Feedback("csg", op, res, first[t], k)},
             DestroyEntry(t) \/ UNCHANGED tables
      PROVE  IInv'
  <2>1. t \in Entry /\ nodes[t] > 0
    BY DEF EntriesOf
  <2>2. LinkInv' /\ EntryInv'
    BY <1>2, <2>1, DestroyInv, StutterInv DEF CsgAnswer
  <2>3. out' \in SUBSET Message
    BY <1>2, <2>1 DEF Feedback, Message, Answer, EntryInv, EntryType
  <2>. QED  BY <2>2, <2>3
<1>. QED  BY <1>1, <1>2 DEF CsgAnswer

LEMMA ForwardInv ==
    ASSUME IInv, NEW k \in Stream, Forward(k)
    PROVE  IInv'
<1>1. LinkInv' /\ EntryInv'
  BY StutterInv DEF Forward, IInv
<1>2. ASSUME NEW m \in out' PROVE m \in Message
  <2>0. PICK t \in EntriesOf(k) : \E c \in cus[t] :
              m = [to |-> "cu", via |-> <<t, c>>, addr |-> addr[c], key |-> k]
    BY DEF Forward
  <2>1. PICK c \in cus[t] :
              m = [to |-> "cu", via |-> <<t, c>>, addr |-> addr[c], key |-> k]
    BY <2>0
  <2>2. addr[c] \in Addr \cup {NoAddr} /\ <<t, c>> \in Entry \X Link
    BY <2>1 DEF IInv, LinkInv, LinkType, EntriesOf
  <2>. QED  BY <2>1, <2>2 DEF Message, Packet
<1>. QED  BY <1>1, <1>2 DEF IInv

LEMMA CuKeepAliveInv ==
    ASSUME IInv, NEW u \in CU, NEW p \in Port, CuKeepAlive(u, p)
    PROVE  IInv'
<1>. USE DEF IInv, CuKeepAlive
<1>1. LinkInv'
  <2>1. addr' \in [Link -> Addr \cup {NoAddr}] /\ LinksOwned'
    BY DEF LinkInv, LinkType, LinksOwned, LinksOf, Addr
  <2>. QED  BY <2>1 DEF LinkInv, LinkType, RefsCover, Holders, ListIsRefs,
                        OneLink
<1>2. EntryInv'
  BY DEF EntryInv, EntryType, OneEntry, Sourced
<1>. QED  BY <1>1, <1>2

LEMMA PuTimeoutInv ==
    ASSUME IInv, NEW t \in Entry, PuTimeout(t)
    PROVE  IInv'
<1>1. LinkInv' /\ EntryInv'
  BY DestroyInv DEF IInv, PuTimeout
<1>2. out' \in SUBSET Message
  BY DEF PuTimeout, StreamBreak, Message, Break, IInv, EntryInv, EntryType
<1>. QED  BY <1>1, <1>2 DEF IInv

LEMMA RestartInv ==
    ASSUME IInv, Restart
    PROVE  IInv'
<1>. USE DEF Restart, IInv
<1>1. /\ LinkType'
      /\ EntryType'
      /\ out' \in SUBSET Message
  BY StreamsAssumption
     DEF LinkType, EntryInv, EntryType, FirstNode, OtherNode
<1>2. ASSUME NEW c \in Link PROVE Cardinality(Holders(c))' <= refs'[c]
  <2>1. Holders(c)' = {}
    BY DEF Holders
  <2>. QED  BY <2>1, FS_EmptySet
<1>3. /\ ListIsRefs' /\ LinksOwned' /\ OneLink' /\ OneEntry' /\ Sourced'
  BY DEF ListIsRefs, LinksOwned, OneLink, OneEntry, Sourced
<1>. QED  BY <1>1, <1>2, <1>3 DEF LinkInv, EntryInv, RefsCover

LEMMA CloseKeyType ==
    ASSUME NEW k \in Request, NEW f \in Front
    PROVE  /\ CloseKey(k, f) \subseteq Stream \cup {NoStream}
           /\ CloseOp(k, f) \in {"close", "unknown"}
BY StreamsAssumption DEF CloseKey, CloseOp, Stream, Media

LEMMA StepInv == IInv /\ [Next]_vars => IInv'
<1>. SUFFICES ASSUME IInv, [Next]_vars PROVE IInv'
  OBVIOUS
<1>1. ASSUME NEW u \in CU, NEW k \in Request, NEW p \in Port, NEW f \in Front,
             NEW r \in Routed, Open(u, k, p, f, r)
      PROVE  IInv'
  BY <1>1, OpenListedInv, OpenNewInv DEF Open
<1>2. ASSUME NEW u \in CU, NEW k \in Request, NEW f \in Front, Close(u, k, f)
      PROVE  IInv'
  BY <1>2, CloseInv, CloseKeyType DEF Close
<1>3. ASSUME NEW op \in {"open", "close"}, NEW res \in Result, NEW k \in Stream,
             CsgAnswer(op, res, k)
      PROVE  IInv'
  BY <1>3, CsgAnswerInv
<1>4. ASSUME NEW k \in Stream, Forward(k) PROVE IInv'
  BY <1>4, ForwardInv
<1>5. ASSUME NEW u \in CU, NEW p \in Port, CuKeepAlive(u, p) PROVE IInv'
  BY <1>5, CuKeepAliveInv
<1>6. ASSUME NEW t \in Entry, PuTimeout(t) PROVE IInv'
  BY <1>6, PuTimeoutInv
<1>7. CASE Restart
  BY <1>7, RestartInv
<1>8. CASE UNCHANGED vars
  BY <1>8, StutterInv DEF vars, tables, IInv
<1>. QED  BY <1>1, <1>2, <1>3, <1>4, <1>5, <1>6, <1>7, <1>8 DEF Next

-----------------------------------------------------------------------------
(* The theorems.                                                           *)

(* The inductive invariant holds in every reachable state. *)
THEOREM Invariance == Spec => []IInv
BY InitInv, StepInv, PTL DEF Spec

(* A CULINK is never counted less often than it is listed, whatever the    *)
(* allocator leaves in freed list nodes and however full the tables are.   *)
THEOREM RefsNeverShort == Spec => []RefsCover
<1>1. IInv => RefsCover
  BY DEF IInv, LinkInv
<1>. QED  BY <1>1, Invariance, PTL

(* The CU list of a stream never holds a CULINK that was reclaimed or that *)
(* carries the address of another CU.                                      *)
THEOREM NeverDangling == Spec => []NoDangling
<1>1. ASSUME IInv, NEW t \in Entry, NEW c \in cus[t]
      PROVE  /\ refs[c] > 0
             /\ c \in cuList
             /\ id[c] \in CU
             /\ addr[c][1] = id[c]
  <2>1. c \in Link /\ refs[c] > 0
    BY <1>1, HeldCounted DEF IInv
  <2>. QED  BY <1>1, <2>1 DEF IInv, LinkInv, ListIsRefs, LinksOwned
<1>2. IInv => NoDangling
  BY <1>1 DEF NoDangling
<1>. QED  BY <1>2, Invariance, PTL

(* A stream has one entry and a CU one CULINK in the lists.                *)
THEOREM AlwaysUnique == Spec => []Unique
<1>1. IInv => Unique
  BY DEF IInv, LinkInv, EntryInv, Unique
<1>. QED  BY <1>1, Invariance, PTL

(* Every watched stream is listed and was asked for upstream.              *)
THEOREM AlwaysSourced == Spec => []Sourced
<1>1. IInv => Sourced
  BY DEF IInv, EntryInv
<1>. QED  BY <1>1, Invariance, PTL

-----------------------------------------------------------------------------
(* What the CUs said last is in their CULINKs.                             *)

SaidInv == said \in [CU -> Port \cup {0}] /\ AddrSaid

(* CULINKs that are not recorded anew keep their CU and address. *)
LEMMA SaidKept ==
    ASSUME SaidInv, said' = said,
           \A c \in cuList' : c \in cuList /\ id'[c] = id[c] /\ addr'[c] = addr[c]
    PROVE  SaidInv'
BY DEF SaidInv, AddrSaid

LEMMA UnrefSaid ==
    ASSUME IInv, SaidInv, NEW gone, Unref(gone), said' = said
    PROVE  SaidInv'
<1>1. \A c \in cuList' : c \in cuList /\ id'[c] = id[c] /\ addr'[c] = addr[c]
  BY DEF Unref, IInv, LinkInv, LinkType
<1>. QED  BY <1>1, SaidKept

(* An OPEN names the address of its CU if no CULINK has it. *)
LEMMA OpenSaid ==
    ASSUME IInv, SaidInv, NEW u \in CU, NEW k \in Request, NEW p \in Port,
           NEW f \in Front, NEW r \in Routed, Open(u, k, p, f, r)
    PROVE  SaidInv'
<1>. USE DEF SaidInv, AddrSaid, LinksOf
<1>1. said' = IF LinksOf(u) = {} THEN [said EXCEPT ![u] = p] ELSE said
  BY DEF Open
<1>2. said' \in [CU -> Port \cup {0}]
  BY <1>1
<1>3. CASE UNCHANGED linkVars
  BY <1>1, <1>2, <1>3 DEF linkVars
<1>4. ASSUME NEW t \in Entry, JoinKnown(u, t) PROVE SaidInv'
  <2>1. LinksOf(u) # {} /\ UNCHANGED <<id, addr, cuList>>
    BY <1>4 DEF JoinKnown
  <2>. QED  BY <1>1, <2>1
<1>5. ASSUME NEW t \in Entry, JoinNew(u, p, t) PROVE SaidInv'
  <2>1. PICK c \in Link : /\ id'     = [id EXCEPT ![c] = u]
                          /\ addr'   = [addr EXCEPT ![c] = <<u, p>>]
                          /\ cuList' = cuList \cup {c}
    BY <1>5 DEF JoinNew
  <2>2. said' = [said EXCEPT ![u] = p] /\ \A d \in cuList : id[d] # u
    BY <1>1, <1>5 DEF JoinNew
  <2>3. id'[c] = u /\ addr'[c] = <<u, p>> /\ said'[u] = p
    BY <2>1, <2>2 DEF IInv, LinkInv, LinkType
  <2>4. ASSUME NEW d \in cuList, d # c
        PROVE  addr'[d] = <<id'[d], said'[id'[d]]>>
    <3>1. addr'[d] = addr[d] /\ id'[d] = id[d] /\ said'[id[d]] = said[id[d]]
      BY <2>1, <2>2, <2>4 DEF IInv, LinkInv, LinkType, LinksOwned
    <3>. QED  BY <3>1
  <2>. QED  BY <1>2, <2>1, <2>3, <2>4
<1>6. ASSUME NEW t \in Entry, Record(u, p, t) PROVE SaidInv'
  BY <1>3, <1>4, <1>5, <1>6 DEF Record, AlreadyIn, NoRoom
<1>. QED
  BY <1>3, <1>6 DEF Open, OpenListed, OpenNew, InsertListed, InsertFresh,
                    InsertNowhere, EntriesOf, tables, linkVars

LEMMA CuKeepAliveSaid ==
    ASSUME IInv, SaidInv, NEW u \in CU, NEW p \in Port, CuKeepAlive(u, p)
    PROVE  SaidInv'
<1>1. /\ addr' = [c \in Link |-> IF c \in LinksOf(u) THEN <<u, p>> ELSE addr[c]]
      /\ said' = [said EXCEPT ![u] = p]
      /\ id' = id /\ cuList' = cuList
  BY DEF CuKeepAlive
<1>2. ASSUME NEW c \in cuList PROVE addr'[c] = <<id[c], said'[id[c]]>>
  <2>1. c \in Link /\ id[c] \in CU
    BY DEF IInv, LinkInv, LinkType, LinksOwned
  <2>. QED  BY <1>1, <2>1 DEF LinksOf, SaidInv, AddrSaid
<1>. QED  BY <1>1, <1>2 DEF SaidInv, AddrSaid

LEMMA StepSaid == IInv /\ SaidInv /\ [Next]_vars => SaidInv'
<1>. SUFFICES ASSUME IInv, SaidInv, [Next]_vars PROVE SaidInv'
  OBVIOUS
<1>1. ASSUME UNCHANGED linkVars, said' = said PROVE SaidInv'
  BY <1>1, SaidKept DEF linkVars
<1>2. ASSUME NEW u \in CU, NEW k \in Request, NEW p \in Port, NEW f \in Front,
             NEW r \in Routed, Open(u, k, p, f, r)
      PROVE  SaidInv'
  BY <1>2, OpenSaid
<1>3. ASSUME NEW u \in CU, NEW k \in Request, NEW f \in Front, Close(u, k, f)
      PROVE  SaidInv'
  <2>1. said' = said /\ \/ \E c : Unref({c})
                        \/ UNCHANGED linkVars
    BY <1>3 DEF Close, LeaveLast, LeaveOthers, LeaveNothing, tables, linkVars
  <2>. QED  BY <1>1, <2>1, UnrefSaid
<1>4. ASSUME NEW t, DestroyEntry(t), said' = said PROVE SaidInv'
  BY <1>4, UnrefSaid DEF DestroyEntry
<1>5. ASSUME NEW op \in {"open", "close"}, NEW res \in Result, NEW k \in Stream,
             CsgAnswer(op, res, k)
      PROVE  SaidInv'
  BY <1>1, <1>4, <1>5 DEF CsgAnswer, tables, linkVars
<1>6. ASSUME NEW k \in Stream, Forward(k) PROVE SaidInv'
  BY <1>1, <1>6 DEF Forward, tables, linkVars
<1>7. ASSUME NEW u \in CU, NEW p \in Port, CuKeepAlive(u, p) PROVE SaidInv'
  BY <1>7, CuKeepAliveSaid
<1>8. ASSUME NEW t \in Entry, PuTimeout(t) PROVE SaidInv'
  BY <1>4, <1>8 DEF PuTimeout
<1>9. CASE Restart
  BY <1>9 DEF Restart, SaidInv, AddrSaid
<1>10. CASE UNCHANGED vars
  BY <1>1, <1>10 DEF vars, linkVars
<1>. QED
  BY <1>2, <1>3, <1>5, <1>6, <1>7, <1>8, <1>9, <1>10 DEF Next

LEMMA SaidAlways == Spec => []SaidInv
<1>1. Init => SaidInv
  BY DEF Init, SaidInv, AddrSaid
<1>. QED  BY <1>1, StepSaid, Invariance, PTL DEF Spec

(* Type correctness of the tables, of the commands and of the messages.    *)
THEOREM TypeCorrect == Spec => []TypeOK
<1>1. IInv /\ SaidInv => TypeOK
  BY DEF IInv, SaidInv, LinkInv, LinkType, EntryInv, EntryType, TypeOK
<1>. QED  BY <1>1, Invariance, SaidAlways, PTL

-----------------------------------------------------------------------------
(* Media.  The CUs of an entry, its CULINKs and the packets of one         *)
(* datagram are equally many.                                              *)

LEMMA FiniteLists ==
    ASSUME LinkInv, NEW t \in Entry
    PROVE  IsFiniteSet(cus[t])
<1>1. IsFiniteSet(Link)
  BY StreamsAssumption, FS_Interval DEF Link
<1>. QED  BY <1>1, FS_Subset DEF LinkInv, LinkType

(* The CULINKs of one entry are live and belong to different CUs.          *)
LEMMA ListOwned ==
    ASSUME LinkInv, NEW t \in Entry
    PROVE  /\ \A c \in cus[t] : c \in cuList /\ addr[c][1] = id[c]
           /\ \A c, d \in cus[t] : id[c] = id[d] => c = d
<1>1. \A c \in cus[t] : c \in cuList
  BY HeldCounted DEF LinkInv, ListIsRefs
<1>. QED  BY <1>1 DEF LinkInv, LinksOwned, OneLink

LEMMA ForwardViewers ==
    ASSUME IInv, SaidInv, NEW k \in Stream, Forward(k)
    PROVE  EveryViewer'
<1>1. UNCHANGED tables /\ said' = said
  BY DEF Forward
<1>2. Viewers(k)' = Viewers(k)
  BY <1>1 DEF tables, Viewers, EntriesOf
<1>3. CASE EntriesOf(k) = {}
  BY <1>3 DEF Forward, EveryViewer
<1>4. ASSUME NEW t \in EntriesOf(k) PROVE EveryViewer'
  <2>. DEFINE Pack(c) == [to |-> "cu", via |-> <<t, c>>, addr |-> addr[c],
                          key |-> k]
  <2>1. t \in Entry /\ EntriesOf(k) = {t}
    BY StreamsAssumption DEF EntriesOf, IInv, EntryInv, OneEntry
  <2>2. out' = {Pack(c) : c \in cus[t]}
    BY <2>1 DEF Forward
  <2>3. Viewers(k) = {id[c] : c \in cus[t]}
    BY <2>1 DEF Viewers
  <2>4. /\ \A c \in cus[t] : addr[c] = <<id[c], said[id[c]]>>
        /\ \A c, d \in cus[t] : id[c] = id[d] => c = d
    BY <2>1, ListOwned DEF IInv, SaidInv, AddrSaid
  <2>5. {n.addr : n \in out'} = {<<u, said[u]>> : u \in Viewers(k)}
    <3>1. \A c \in cus[t] : Pack(c).addr = <<id[c], said[id[c]]>>
      BY <2>4
    <3>. HIDE DEF Pack
    <3>2. {n.addr : n \in out'} = {Pack(c).addr : c \in cus[t]}
      BY <2>2
    <3>3. {<<u, said[u]>> : u \in Viewers(k)}
              = {<<id[c], said[id[c]]>> : c \in cus[t]}
      BY <2>3
    <3>. QED  BY <3>1, <3>2, <3>3
  <2>6. Cardinality(out') = Cardinality(cus[t])
    <3>. DEFINE f == [c \in cus[t] |-> Pack(c)]
    <3>1. f \in [cus[t] -> out'] /\ \A c \in cus[t] : f[c].via = <<t, c>>
      BY <2>2
    <3>2. \A c, d \in cus[t] : f[c] = f[d] => c = d
      BY <3>1
    <3>3. f \in Bijection(cus[t], out')
      BY <2>2, <3>1, <3>2 DEF Bijection, Injection, Surjection, IsInjective
    <3>. HIDE DEF f
    <3>4. ExistsBijection(cus[t], out')
      BY <3>3 DEF ExistsBijection
    <3>. QED  BY <2>1, <3>4, FiniteLists, FS_Bijection DEF IInv
  <2>7. Cardinality(Viewers(k)) = Cardinality(cus[t])
    <3>. DEFINE f == [c \in cus[t] |-> id[c]]
    <3>1. f \in Bijection(cus[t], Viewers(k))
      BY <2>3, <2>4 DEF Bijection, Injection, Surjection, IsInjective
    <3>. HIDE DEF f
    <3>2. ExistsBijection(cus[t], Viewers(k))
      BY <3>1 DEF ExistsBijection
    <3>. QED  BY <2>1, <3>2, FiniteLists, FS_Bijection DEF IInv
  <2>8. \A m \in out' : m.key = k
    BY <2>2
  <2>. QED  BY <1>1, <1>2, <2>5, <2>6, <2>7, <2>8 DEF EveryViewer
<1>. QED  BY <1>3, <1>4

(* Only media is sent to CUs. *)
LEMMA NotMedia ==
    /\ \A by, op, res, u, k : Feedback(by, op, res, u, k).to # "cu"
    /\ \A h \in Hop : \A op, k : CommandTo(h, op, k).to # "cu"
    /\ \A k : StreamBreak(k).to # "cu"
BY DEF Feedback, CommandTo, Hop, StreamBreak

LEMMA StepViewers ==
    ASSUME IInv, SaidInv, EveryViewer, [Next]_vars
    PROVE  EveryViewer'
<1>1. CASE \A m \in out' : m.to # "cu"
  BY <1>1 DEF EveryViewer
<1>2. ASSUME NEW u \in CU, NEW k \in Request, NEW p \in Port, NEW f \in Front,
             NEW r \in Routed, Open(u, k, p, f, r)
      PROVE  EveryViewer'
  BY <1>1, <1>2, NotMedia DEF Open, OpenListed, OpenNew, Hop
<1>3. ASSUME NEW u \in CU, NEW k \in Request, NEW f \in Front, Close(u, k, f)
      PROVE  EveryViewer'
  <2>1. PICK kk, op : \/ LeaveLast(u, kk, op)
                      \/ LeaveOthers(u, kk, op)
                      \/ LeaveNothing(u, kk)
    BY <1>3 DEF Close
  <2>2. \/ out' = {CommandTo("csg", op, kk)}
        \/ out' = {Feedback("mdu", op, "ok", u, kk)}
        \/ out' = {}
    BY <2>1 DEF LeaveLast, LeaveOthers, LeaveNothing
  <2>. QED  BY <1>1, <2>2, NotMedia DEF Hop
<1>4. ASSUME NEW op \in {"open", "close"}, NEW res \in Result, NEW k \in Stream,
             CsgAnswer(op, res, k)
      PROVE  EveryViewer'
  BY <1>1, <1>4, NotMedia DEF CsgAnswer
<1>5. ASSUME NEW k \in Stream, Forward(k) PROVE EveryViewer'
  BY <1>5, ForwardViewers
<1>6. ASSUME NEW u \in CU, NEW p \in Port, CuKeepAlive(u, p) PROVE EveryViewer'
  BY <1>1, <1>6 DEF CuKeepAlive
<1>7. ASSUME NEW t \in Entry, PuTimeout(t) PROVE EveryViewer'
  BY <1>1, <1>7, NotMedia DEF PuTimeout
<1>8. CASE Restart
  BY <1>1, <1>8 DEF Restart
<1>9. CASE UNCHANGED vars
  <2>1. out' = out /\ said' = said /\ \A k : Viewers(k)' = Viewers(k)
    BY <1>9 DEF vars, Viewers, EntriesOf
  <2>. QED  BY <2>1 DEF EveryViewer
<1>. QED  BY <1>2, <1>3, <1>4, <1>5, <1>6, <1>7, <1>8, <1>9 DEF Next

(* One datagram of media goes to every viewer of its stream, one packet to *)
(* each, at the address it named last, and to nobody else.                 *)
THEOREM MediaToViewers == Spec => []EveryViewer
<1>1. Init => EveryViewer
  BY DEF Init, EveryViewer
<1>2. IInv /\ SaidInv /\ EveryViewer /\ [Next]_vars => EveryViewer'
  BY StepViewers
<1>. QED  BY <1>1, <1>2, Invariance, SaidAlways, PTL DEF Spec

-----------------------------------------------------------------------------
(***************************************************************************)
(* The stream tables implement the abstract subscriptions: each handler    *)
(* maps to one step of Subscriptions or changes no subscription.           *)
(*                                                                         *)
(* Held(v, j) says that CU v is in the CU list of an entry of stream j.    *)
(* Because watched entries are listed (Sourced), it describes Subs; what a *)
(* handler does to Held follows from what it does to one CU list, as long  *)
(* as the CULINKs of the other lists keep their CU.  The same facts say    *)
(* which viewers an answer of the CSG can take away (AnswersStayLocal).    *)
(***************************************************************************)

Held(v, j) == \E t \in Entry : key[t] = j /\ \E c \in cus[t] : id[c] = v

(* The same entries and CULINKs, as far as Held can see. *)
SameList(t) == cus'[t] = cus[t] /\ \A c \in cus[t] : id'[c] = id[c]

LEMMA SubsHeld ==
    ASSUME IInv, NEW v \in CU, NEW j \in Stream
    PROVE  <<v, j>> \in Subs <=> Held(v, j)
BY DEF IInv, EntryInv, Sourced, Subs, Viewers, EntriesOf, Held

LEMMA SubsHeldNext ==
    ASSUME IInv', NEW v \in CU, NEW j \in Stream
    PROVE  <<v, j>> \in Subs' <=> Held(v, j)'
BY DEF IInv, EntryInv, Sourced, Subs, Viewers, EntriesOf, Held

(* A link in two CU lists is counted twice. *)
LEMMA HeldTwice ==
    ASSUME LinkInv, NEW s \in Entry, NEW t \in Entry, s # t, NEW c,
           c \in cus[s], c \in cus[t]
    PROVE  refs[c] > 1
<1>1. c \in Link /\ refs[c] \in Nat /\ Cardinality(Holders(c)) <= refs[c]
  BY DEF LinkInv, LinkType, RefsCover
<1>2. {s, t} \subseteq Holders(c)
  BY DEF Holders
<1>3. IsFiniteSet({s}) /\ Cardinality({s}) = 1
  BY FS_Singleton
<1>4. Cardinality({s} \cup {t}) = 2
  <2>1. Cardinality({s} \cup {t}) = Cardinality({s}) + 1
    BY <1>3, FS_AddElement
  <2>. QED  BY <1>3, <2>1
<1>5. Cardinality({s, t}) <= Cardinality(Holders(c))
  BY <1>2, HoldersFinite, FS_Subset
<1>6. {s, t} = {s} \cup {t}
  OBVIOUS
<1>. QED  BY <1>1, <1>4, <1>5, <1>6, HoldersFinite

(* Dropping references of the list of t leaves the CUs of other lists      *)
(* alone, and those of the links of t that stay.                           *)
LEMMA UnrefSame ==
    ASSUME LinkInv, NEW t \in Entry, NEW gone \in SUBSET cus[t], Unref(gone),
           NEW s \in Entry, NEW c \in cus[s], s # t \/ c \notin gone
    PROVE  id'[c] = id[c]
<1>1. c \in Link
  BY DEF LinkInv, LinkType
<1>2. c \in gone => refs[c] # 1
  BY HeldTwice
<1>. QED  BY <1>1, <1>2 DEF Unref

(* Record leaves all lists alone or adds one link of u to the list of t.   *)
LEMMA RecordSame ==
    ASSUME LinkInv, NEW u \in CU, NEW p \in Port, NEW t \in Entry,
           Record(u, p, t)
    PROVE  /\ \A s \in Entry \ {t} : SameList(s)
           /\ \/ SameList(t)
              \/ \E c \in Link : /\ cus'[t] = cus[t] \cup {c}
                                 /\ id'[c] = u
                                 /\ \A d \in cus[t] : id'[d] = id[d]
<1>. USE DEF SameList, LinkInv, LinkType
<1>1. CASE AlreadyIn(u, t) \/ NoRoom(u, t)
  BY <1>1 DEF AlreadyIn, NoRoom, linkVars
<1>2. CASE JoinKnown(u, t)
  BY <1>2 DEF JoinKnown, LinksOf, Join
<1>3. CASE JoinNew(u, p, t)
  <2>1. PICK c \in Link : /\ FirstFreeLink(c)
                          /\ Join(t, c)
                          /\ id' = [id EXCEPT ![c] = u]
    BY <1>3 DEF JoinNew
  <2>2. \A s \in Entry : c \notin cus[s]
    BY <2>1, HeldCounted DEF FirstFreeLink
  <2>. QED  BY <2>1, <2>2 DEF Join
<1>. QED  BY <1>1, <1>2, <1>3 DEF Record

-----------------------------------------------------------------------------
(* What the handlers do to Held.                                           *)

LEMMA RecordHeld ==
    ASSUME IInv, NEW u \in CU, NEW p \in Port, NEW t \in Entry,
           Record(u, p, t), NEW k \in Stream, key'[t] = k,
           key[t] = k \/ cus[t] = {},
           \A s \in Entry \ {t} : key'[s] = key[s]
    PROVE  \/ \A v \in CU, j \in Stream : Held(v, j)' <=> Held(v, j)
           \/ \A v \in CU, j \in Stream :
                 Held(v, j)' <=> Held(v, j) \/ <<v, j>> = <<u, k>>
<1>1. /\ \A s \in Entry \ {t} : SameList(s)
      /\ \/ SameList(t)
         \/ \E c \in Link : /\ cus'[t] = cus[t] \cup {c}
                            /\ id'[c] = u
                            /\ \A d \in cus[t] : id'[d] = id[d]
  BY RecordSame DEF IInv
<1>2. CASE SameList(t)
  BY <1>1, <1>2 DEF SameList, Held
<1>3. ASSUME NEW c \in Link, cus'[t] = cus[t] \cup {c}, id'[c] = u,
             \A d \in cus[t] : id'[d] = id[d]
      PROVE  \A v \in CU, j \in Stream :
                 Held(v, j)' <=> Held(v, j) \/ <<v, j>> = <<u, k>>
  BY <1>1, <1>3 DEF SameList, Held
<1>. QED  BY <1>1, <1>2, <1>3

LEMMA ClearHeld ==
    ASSUME IInv, NEW t \in Entry, nodes[t] > 0, ClearEntry(t),
           NEW gone \in SUBSET cus[t], Unref(gone)
    PROVE  \A v \in CU, j \in Stream :
              Held(v, j)' <=> Held(v, j) /\ j # key[t]
<1>1. /\ key'[t] = NoStream /\ cus'[t] = {}
      /\ \A s \in Entry \ {t} : key'[s] = key[s] /\ cus'[s] = cus[s]
  BY DEF ClearEntry, IInv, EntryInv, EntryType, LinkInv, LinkType
<1>2. \A s \in Entry \ {t} : SameList(s)
  BY <1>1, UnrefSame DEF SameList, IInv
<1>3. \A s \in Entry \ {t} : cus[s] # {} => key[s] # key[t]
  BY StreamsAssumption DEF IInv, EntryInv, OneEntry, Sourced
<1>. QED  BY <1>1, <1>2, <1>3 DEF Held, SameList

LEMMA DestroyHeld ==
    ASSUME IInv, NEW t \in Entry, nodes[t] > 0, DestroyEntry(t)
    PROVE  \A v \in CU, j \in Stream :
              Held(v, j)' <=> Held(v, j) /\ j # key[t]
BY ClearHeld DEF DestroyEntry

LEMMA LeaveOthersHeld ==
    ASSUME IInv, NEW t \in Entry, nodes[t] > 0, NEW c \in cus[t], NEW u \in CU,
           id[c] = u, cus' = [cus EXCEPT ![t] = cus[t] \ {c}], Unref({c}),
           key' = key
    PROVE  \A v \in CU, j \in Stream :
              Held(v, j)' <=> Held(v, j) /\ <<v, j>> # <<u, key[t]>>
<1>1. \A s \in Entry \ {t} : SameList(s)
  BY UnrefSame DEF SameList, IInv, LinkInv, LinkType
<1>2. /\ cus'[t] = cus[t] \ {c}
      /\ \A d \in cus[t] \ {c} : id'[d] = id[d]
  BY UnrefSame DEF IInv, LinkInv, LinkType
<1>3. \A d \in cus[t] \ {c} : id[d] # u
  BY HeldCounted DEF IInv, LinkInv, ListIsRefs, OneLink
<1>4. \A s \in Entry \ {t} : cus[s] # {} => key[s] # key[t]
  BY StreamsAssumption DEF IInv, EntryInv, OneEntry, Sourced
<1>. QED  BY <1>1, <1>2, <1>3, <1>4 DEF Held, SameList

-----------------------------------------------------------------------------
(* Every handler maps to a step of the abstract specification.             *)

Upstream == {k \in Stream : cmd[k] \in Opened}

AbstractStep == [Abstract!Next]_(Abstract!avars)

(* From Held to the abstract variable, both being described on CU \X Stream.*)
LEMMA SubsPointwise ==
    ASSUME IInv, IInv'
    PROVE  /\ Subs = {s \in CU \X Stream : Held(s[1], s[2])}
           /\ Subs' = {s \in CU \X Stream : Held(s[1], s[2])'}
<1>1. \A s \in CU \X Stream : s[1] \in CU /\ s[2] \in Stream /\ s = <<s[1], s[2]>>
  OBVIOUS
<1>2. \A s \in CU \X Stream : s \in Subs <=> Held(s[1], s[2])
  BY <1>1, SubsHeld
<1>3. \A s \in CU \X Stream : s \in Subs' <=> Held(s[1], s[2])'
  BY <1>1, SubsHeldNext
<1>. QED  BY <1>2, <1>3 DEF Subs

LEMMA StutterMap ==
    ASSUME IInv, IInv', UNCHANGED cmd,
           \A v \in CU, j \in Stream : Held(v, j)' <=> Held(v, j)
    PROVE  AbstractStep
<1>1. Subs' = Subs
  BY SubsPointwise
<1>. QED  BY <1>1 DEF AbstractStep, Abstract!avars

LEMMA SubscribeMap ==
    ASSUME IInv, IInv', NEW u \in CU, NEW k \in Stream,
           Upstream' = Upstream \cup {k},
           \A v \in CU, j \in Stream :
              Held(v, j)' <=> Held(v, j) \/ <<v, j>> = <<u, k>>
    PROVE  AbstractStep
<1>1. Subs' = Subs \cup {<<u, k>>}
  BY SubsPointwise
<1>2. Abstract!Subscribe(u, k)
  BY <1>1 DEF Abstract!Subscribe, Upstream
<1>. QED  BY <1>2 DEF AbstractStep, Abstract!Next

LEMMA RefuseMap ==
    ASSUME IInv, IInv', NEW k \in Stream,
           Upstream' = Upstream \cup {k},
           \A v \in CU, j \in Stream : Held(v, j)' <=> Held(v, j)
    PROVE  AbstractStep
<1>1. Subs' = Subs
  BY SubsPointwise
<1>2. Abstract!Refuse(k)
  BY <1>1 DEF Abstract!Refuse, Upstream
<1>. QED  BY <1>2 DEF AbstractStep, Abstract!Next

(* A destroyed entry: all CUs of its stream lose it, if it has a stream.   *)
LEMMA DropMap ==
    ASSUME IInv, IInv', NEW t \in Entry, nodes[t] > 0, DestroyEntry(t),
           UNCHANGED cmd
    PROVE  AbstractStep
<1>1. \A v \in CU, j \in Stream : Held(v, j)' <=> Held(v, j) /\ j # key[t]
  BY DestroyHeld
<1>2. CASE key[t] \in Stream
  <2>1. Subs' = {s \in Subs : s[2] # key[t]}
    BY <1>1, SubsPointwise
  <2>2. Abstract!Drop(key[t])
    BY <2>1 DEF Abstract!Drop
  <2>. QED  BY <1>2, <2>2 DEF AbstractStep, Abstract!Next
<1>3. CASE key[t] \notin Stream
  BY <1>1, <1>3, StutterMap
<1>. QED  BY <1>2, <1>3

(* One CU gives up stream k, the last one or another.                      *)
LEMMA UnsubscribeMap ==
    ASSUME IInv, IInv', NEW u \in CU, NEW k \in Stream, Held(u, k),
           \A v \in CU, j \in Stream :
              Held(v, j)' <=> Held(v, j) /\ <<v, j>> # <<u, k>>,
           \/ (\A v \in CU : Held(v, k) <=> v = u) /\ Upstream' = Upstream \ {k}
           \/ (\E v \in CU : Held(v, k) /\ v # u) /\ Upstream' = Upstream
    PROVE  AbstractStep
<1>1. /\ <<u, k>> \in Subs
      /\ Subs' = Subs \ {<<u, k>>}
  BY SubsPointwise
<1>2. Abstract!Viewers(k) = {v \in CU : Held(v, k)}
  BY SubsPointwise DEF Abstract!Viewers
<1>3. Upstream' = IF Abstract!Viewers(k) = {u} THEN Upstream \ {k} ELSE Upstream
  BY <1>2
<1>4. Abstract!Unsubscribe(u, k)
  BY <1>1, <1>3 DEF Abstract!Unsubscribe, Upstream
<1>. QED  BY <1>4 DEF AbstractStep, Abstract!Next

LEMMA OpenMap ==
    ASSUME IInv, IInv', NEW u \in CU, NEW k \in Request, NEW p \in Port,
           NEW f \in Front, NEW r \in Routed, Open(u, k, p, f, r)
    PROVE  AbstractStep
<1>1. k \in Stream
  BY StreamsAssumption
<1>2. CASE OpenListed(u, k, p)
  <2>1. PICK t \in EntriesOf(k) : Record(u, p, t)
    BY <1>2 DEF OpenListed, InsertListed
  <2>2. t \in Entry /\ nodes[t] > 0 /\ key[t] = k /\ key' = key /\ cmd' = cmd
    BY <1>2, <2>1 DEF OpenListed, InsertListed, entryVars, EntriesOf
  <2>3. Upstream' = Upstream \cup {k}
    BY <1>1, <2>2, StreamsAssumption DEF Upstream, IInv, EntryInv, Sourced
  <2>4. \/ \A v \in CU, j \in Stream : Held(v, j)' <=> Held(v, j)
        \/ \A v \in CU, j \in Stream :
              Held(v, j)' <=> Held(v, j) \/ <<v, j>> = <<u, k>>
    BY <1>1, <2>1, <2>2, RecordHeld
  <2>. QED  BY <1>1, <2>2, <2>3, <2>4, StutterMap, SubscribeMap
<1>3. CASE OpenNew(u, k, p, f, r)
  <2>1. Upstream' = Upstream \cup {k}
    <3>1. \E h \in Opened : cmd' = [cmd EXCEPT ![k] = h]
      BY <1>3 DEF OpenNew, Opened
    <3>. QED  BY <1>1, <3>1 DEF Upstream, IInv, EntryInv, EntryType
  <2>2. CASE InsertFresh(u, k, p, f)
    <3>1. PICK t \in Entry :
              /\ FirstFreeEntry(t)
              /\ key' = [key EXCEPT ![t] = k]
              /\ Record(u, p, t)
      BY <2>2 DEF InsertFresh
    <3>2. /\ cus[t] = {} /\ key'[t] = k
          /\ \A s \in Entry \ {t} : key'[s] = key[s]
      BY <3>1 DEF FirstFreeEntry, IInv, EntryInv, EntryType
    <3>3. \/ \A v \in CU, j \in Stream : Held(v, j)' <=> Held(v, j)
          \/ \A v \in CU, j \in Stream :
                Held(v, j)' <=> Held(v, j) \/ <<v, j>> = <<u, k>>
      BY <1>1, <3>1, <3>2, RecordHeld
    <3>. QED  BY <1>1, <2>1, <3>3, RefuseMap, SubscribeMap
  <2>3. CASE InsertNowhere(k)
    <3>1. \A v \in CU, j \in Stream : Held(v, j)' <=> Held(v, j)
      BY <2>3 DEF InsertNowhere, tables, Held
    <3>. QED  BY <1>1, <2>1, <3>1, RefuseMap
  <2>. QED  BY <1>3, <2>2, <2>3 DEF OpenNew
<1>. QED  BY <1>2, <1>3 DEF Open

LEMMA LeaveLastMap ==
    ASSUME IInv, IInv', NEW u \in CU, NEW k, NEW op \in {"close", "unknown"},
           LeaveLast(u, k, op)
    PROVE  AbstractStep
<1>1. PICK t \in EntriesOf(k) : \E c \in cus[t] :
          id[c] = u /\ cus[t] = {c} /\ ClearEntry(t) /\ Unref({c})
  BY DEF LeaveLast
<1>2. PICK c \in cus[t] :
          id[c] = u /\ cus[t] = {c} /\ ClearEntry(t) /\ Unref({c})
  BY <1>1
<1>3. t \in Entry /\ nodes[t] > 0 /\ key[t] = k /\ k \in Stream
  BY <1>2 DEF EntriesOf, IInv, EntryInv, Sourced
<1>4. \A s \in Entry \ {t} : cus[s] # {} => key[s] # k
  BY <1>3, StreamsAssumption DEF IInv, EntryInv, OneEntry, Sourced
<1>5. \A v \in CU : Held(v, k) <=> v = u
  BY <1>2, <1>3, <1>4 DEF Held
<1>6. \A v \in CU, j \in Stream :
          Held(v, j)' <=> Held(v, j) /\ <<v, j>> # <<u, k>>
  BY <1>2, <1>3, <1>5, ClearHeld
<1>7. Upstream' = Upstream \ {k}
  <2>1. \E h \in {"csg_close", "csg_unknown"} : cmd' = [cmd EXCEPT ![k] = h]
    BY DEF LeaveLast
  <2>. QED  BY <1>3, <2>1 DEF Upstream, Opened, IInv, EntryInv, EntryType
<1>. QED  BY <1>3, <1>5, <1>6, <1>7, UnsubscribeMap

LEMMA LeaveOthersMap ==
    ASSUME IInv, IInv', NEW u \in CU, NEW k, NEW op, LeaveOthers(u, k, op)
    PROVE  AbstractStep
<1>1. PICK t \in EntriesOf(k) : \E c \in cus[t] :
          /\ id[c] = u /\ cus[t] # {c}
          /\ cus' = [cus EXCEPT ![t] = cus[t] \ {c}] /\ Unref({c})
  BY DEF LeaveOthers
<1>2. PICK c \in cus[t] :
          /\ id[c] = u /\ cus[t] # {c}
          /\ cus' = [cus EXCEPT ![t] = cus[t] \ {c}] /\ Unref({c})
  BY <1>1
<1>3. t \in Entry /\ nodes[t] > 0 /\ key[t] = k /\ k \in Stream
  BY <1>2 DEF EntriesOf, IInv, EntryInv, Sourced
<1>4. key' = key /\ Upstream' = Upstream
  BY DEF LeaveOthers, entryVars, Upstream
<1>5. \A v \in CU, j \in Stream :
          Held(v, j)' <=> Held(v, j) /\ <<v, j>> # <<u, k>>
  BY <1>2, <1>3, <1>4, LeaveOthersHeld
<1>6. Held(u, k)
  BY <1>2, <1>3 DEF Held
<1>7. \E v \in CU : Held(v, k) /\ v # u
  <2>1. PICK d \in cus[t] : d # c
    BY <1>2
  <2>2. id[d] \in CU /\ id[d] # u
    BY <1>2, <1>3, <2>1, HeldCounted
       DEF IInv, LinkInv, ListIsRefs, LinksOwned, OneLink
  <2>. QED  BY <1>3, <2>2 DEF Held
<1>. QED  BY <1>3, <1>4, <1>5, <1>6, <1>7, UnsubscribeMap

(* Handlers that change neither the CU lists nor the commands.             *)
LEMMA QuietMap ==
    ASSUME IInv, IInv', UNCHANGED <<key, cus, id, cmd>>
    PROVE  AbstractStep
BY StutterMap DEF Held

LEMMA RestartMap ==
    ASSUME IInv, IInv', Restart
    PROVE  AbstractStep
<1>1. \A v \in CU, j \in Stream : ~ Held(v, j)'
  BY DEF Restart, Held
<1>2. Subs' = {}
  BY <1>1, SubsPointwise
<1>3. Abstract!Restart
  BY <1>2 DEF Abstract!Restart, Restart
<1>. QED  BY <1>3 DEF AbstractStep, Abstract!Next

LEMMA StepMap == IInv /\ IInv' /\ [Next]_vars => AbstractStep
<1>. SUFFICES ASSUME IInv, IInv', [Next]_vars PROVE AbstractStep
  OBVIOUS
<1>1. ASSUME NEW u \in CU, NEW k \in Request, NEW p \in Port, NEW f \in Front,
             NEW r \in Routed, Open(u, k, p, f, r)
      PROVE  AbstractStep
  BY <1>1, OpenMap
<1>2. ASSUME NEW u \in CU, NEW k \in Request, NEW f \in Front, Close(u, k, f)
      PROVE  AbstractStep
  <2>1. PICK kk \in CloseKey(k, f) : \/ LeaveLast(u, kk, CloseOp(k, f))
                                     \/ LeaveOthers(u, kk, CloseOp(k, f))
                                     \/ LeaveNothing(u, kk)
    BY <1>2 DEF Close
  <2>2. CASE LeaveNothing(u, kk)
    BY <2>2, QuietMap DEF LeaveNothing, tables
  <2>. QED  BY <2>1, <2>2, LeaveLastMap, LeaveOthersMap, CloseKeyType
<1>3. ASSUME NEW op \in {"open", "close"}, NEW res \in Result, NEW k \in Stream,
             CsgAnswer(op, res, k)
      PROVE  AbstractStep
  <2>1. CASE UNCHANGED tables
    BY <1>3, <2>1, QuietMap DEF CsgAnswer, tables
  <2>2. ASSUME NEW t \in EntriesOf(AnsweredKey(k)), DestroyEntry(t)
        PROVE  AbstractStep
    BY <1>3, <2>2, DropMap DEF CsgAnswer, EntriesOf
  <2>. QED  BY <1>3, <2>1, <2>2 DEF CsgAnswer
<1>4. ASSUME NEW k \in Stream, Forward(k) PROVE AbstractStep
  BY <1>4, QuietMap DEF Forward, tables
<1>5. ASSUME NEW u \in CU, NEW p \in Port, CuKeepAlive(u, p) PROVE AbstractStep
  BY <1>5, QuietMap DEF CuKeepAlive
<1>6. ASSUME NEW t \in Entry, PuTimeout(t) PROVE AbstractStep
  BY <1>6, DropMap DEF PuTimeout
<1>7. CASE Restart
  BY <1>7, RestartMap
<1>8. CASE UNCHANGED vars
  BY <1>8, QuietMap DEF vars
<1>. QED  BY <1>1, <1>2, <1>3, <1>4, <1>5, <1>6, <1>7, <1>8 DEF Next

(* The tables, with every way they can fill up and every freed node, only  *)
(* ever do to the subscriptions what the abstract specification allows.    *)
THEOREM Refinement == Spec => Subscribed
<1>1. Init => Abstract!Init
  BY DEF Init, Abstract!Init, Subs, Viewers, EntriesOf, Opened
<1>2. IInv /\ IInv' /\ [Next]_vars => [Abstract!Next]_(Abstract!avars)
  BY StepMap DEF AbstractStep
<1>. QED  BY <1>1, <1>2, Invariance, PTL DEF Spec, Subscribed, Abstract!Spec

-----------------------------------------------------------------------------
(* Answers of the CSG.  One about sound is looked up as the main video     *)
(* stream of its device.                                                   *)

(* Only an answer of the CSG is relayed. *)
LEMMA RelayedOnly ==
    ASSUME IInv, [Next]_vars, NEW m \in out', Relays(m)
    PROVE  \/ UNCHANGED vars
           \/ \E op \in {"open", "close"}, res \in Result, k \in Stream :
                 CsgAnswer(op, res, k)
<1>. USE DEF Relays, Answer
<1>1. ASSUME NEW u \in CU, NEW k \in Request, NEW p \in Port, NEW f \in Front,
             NEW r \in Routed, Open(u, k, p, f, r)
      PROVE  FALSE
  BY <1>1 DEF Open, OpenListed, OpenNew, Feedback, CommandTo
<1>2. ASSUME NEW u \in CU, NEW k \in Request, NEW f \in Front, Close(u, k, f)
      PROVE  FALSE
  <2>1. PICK kk, op : \/ LeaveLast(u, kk, op)
                      \/ LeaveOthers(u, kk, op)
                      \/ LeaveNothing(u, kk)
    BY <1>2 DEF Close
  <2>2. \/ m = CommandTo("csg", op, kk)
        \/ m = Feedback("mdu", op, "ok", u, kk)
    BY <2>1 DEF LeaveLast, LeaveOthers, LeaveNothing
  <2>. QED  BY <2>2 DEF Feedback, CommandTo
<1>3. ASSUME NEW k \in Stream, Forward(k) PROVE FALSE
  <2>1. m.to = "cu"
    BY <1>3 DEF Forward
  <2>. QED  BY <2>1
<1>4. ASSUME NEW u \in CU, NEW p \in Port, CuKeepAlive(u, p) PROVE FALSE
  BY <1>4 DEF CuKeepAlive
<1>5. ASSUME NEW t \in Entry, PuTimeout(t) PROVE FALSE
  BY <1>5 DEF PuTimeout, StreamBreak
<1>6. CASE Restart
  BY <1>6 DEF Restart
<1>. QED  BY <1>1, <1>2, <1>3, <1>4, <1>5, <1>6 DEF Next

LEMMA FailedRemoved ==
    ASSUME IInv, FailedOpenRemoved, [Next]_vars
    PROVE  FailedOpenRemoved'
<1>1. CASE UNCHANGED vars
  <2>1. out' = out /\ \A k : EntriesOf(k)' = EntriesOf(k)
    BY <1>1 DEF vars, EntriesOf
  <2>. QED  BY <2>1 DEF FailedOpenRemoved
<1>2. ASSUME NEW op \in {"open", "close"}, NEW res \in Result, NEW k \in Stream,
             CsgAnswer(op, res, k),
             NEW m \in out', m.op = "open", m.res = "fail", m.key.media = "vod"
      PROVE  EntriesOf(m.key)' = {}
  <2>0. PICK t \in EntriesOf(AnsweredKey(k)) :
              /\ out' = {Feedback("csg", op, res, first[t], k)}
              /\ IF op = "open" /\ res = "fail" THEN DestroyEntry(t)
                                                ELSE UNCHANGED tables
    BY <1>2 DEF CsgAnswer
  <2>1. m.key = k /\ DestroyEntry(t)
    BY <1>2, <2>0 DEF Feedback
  <2>2. t \in EntriesOf(k) /\ m.key = k /\ DestroyEntry(t)
    BY <1>2, <2>0, <2>1 DEF AnsweredKey, Stream
  <2>3. t \in Entry /\ \A s \in Entry \ {t} : ~ (nodes[s] > 0 /\ key[s] = k)
    BY <2>2, StreamsAssumption DEF EntriesOf, IInv, EntryInv, OneEntry
  <2>4. /\ key'[t] = NoStream
        /\ \A s \in Entry \ {t} : nodes'[s] = nodes[s] /\ key'[s] = key[s]
    BY <2>2, <2>3 DEF DestroyEntry, ClearEntry, IInv, EntryInv, EntryType
  <2>. QED  BY <2>2, <2>3, <2>4, StreamsAssumption DEF EntriesOf
<1>. QED  BY <1>1, <1>2, RelayedOnly DEF FailedOpenRemoved

(* A video stream the CSG could not open is forgotten by the time the      *)
(* failure is passed on, whatever sound streams there are.                 *)
THEOREM FailedOpenForgotten == Spec => []FailedOpenRemoved
<1>1. Init => FailedOpenRemoved
  BY DEF Init, FailedOpenRemoved
<1>2. IInv /\ FailedOpenRemoved /\ [Next]_vars => FailedOpenRemoved'
  BY FailedRemoved
<1>. QED  BY <1>1, <1>2, Invariance, PTL DEF Spec

LocalStep ==
    \A m \in out' : Relays(m) =>
        \A s \in Subs \ Subs' :
            \/ s[2] = m.key
            \/ m.key.media = "aod" /\ s[2] = MainVideo(m.key)

LEMMA StepLocal ==
    ASSUME IInv, IInv', [Next]_vars
    PROVE  [LocalStep]_vars
<1>1. ASSUME NEW op \in {"open", "close"}, NEW res \in Result, NEW k \in Stream,
             CsgAnswer(op, res, k), NEW m \in out', NEW s \in Subs \ Subs'
      PROVE  \/ s[2] = m.key
             \/ m.key.media = "aod" /\ s[2] = MainVideo(m.key)
  <2>1. ~ UNCHANGED tables
    BY <1>1 DEF tables, Subs, Viewers, EntriesOf
  <2>2. PICK t \in EntriesOf(AnsweredKey(k)) : DestroyEntry(t) /\ m.key = k
    BY <1>1, <2>1 DEF CsgAnswer, Feedback
  <2>3. \/ AnsweredKey(k) = k
        \/ k.media = "aod" /\ AnsweredKey(k) = MainVideo(k)
    <3>1. ASSUME k.media = "vod" PROVE AnsweredKey(k) = k
      BY <3>1 DEF AnsweredKey, Stream
    <3>2. ASSUME k.media = "aod" PROVE AnsweredKey(k) = MainVideo(k)
      BY <3>2 DEF AnsweredKey, MainVideo
    <3>3. k.media = "vod" \/ k.media = "aod"
      BY DEF Stream, Media
    <3>. QED  BY <3>1, <3>2, <3>3
  <2>4. t \in Entry /\ nodes[t] > 0 /\ key[t] = AnsweredKey(k)
    BY <2>2 DEF EntriesOf
  <2>5. \A v \in CU, j \in Stream : Held(v, j)' <=> Held(v, j) /\ j # key[t]
    BY <2>2, <2>4, DestroyHeld
  <2>6. s = <<s[1], s[2]>> /\ s[1] \in CU /\ s[2] \in Stream
    BY DEF Subs
  <2>7. Held(s[1], s[2]) /\ ~ Held(s[1], s[2])'
    BY <1>1, <2>6, SubsHeld, SubsHeldNext
  <2>. QED  BY <2>2, <2>3, <2>4, <2>5, <2>6, <2>7
<1>. QED  BY <1>1, RelayedOnly DEF LocalStep

(* An answer of the CSG, however late, takes viewers only from the stream  *)
(* it names or, if that is a sound stream, from the main video stream of   *)
(* its device.                                                             *)
THEOREM AnswersStayLocal == Spec => AnswerIsLocal
<1>1. IInv /\ IInv' /\ [Next]_vars => [LocalStep]_vars
  BY StepLocal
<1>. QED  BY <1>1, Invariance, PTL DEF Spec, AnswerIsLocal, LocalStep

-----------------------------------------------------------------------------
(* Counts.  What leaves a CU list and what loses a reference are the same  *)
(* links in every handler but the destruction of a stream, which may miss  *)
(* some: what a link is counted beyond its lists then grows by one.        *)

Balanced == \A c \in Link : Surplus(c)' = Surplus(c)

LeakStep ==
    \/ Restart
    \/ \A c \in Link :
          \/ Surplus(c)' = Surplus(c)
          \/ /\ Surplus(c)' = Surplus(c) + 1
             /\ Missed(c)

(* Nothing that is counted changes. *)
LEMMA SameBalance ==
    ASSUME UNCHANGED <<cus, refs>>
    PROVE  Balanced
BY DEF Balanced, Surplus, Holders

(* Append and count. *)
LEMMA JoinBalance ==
    ASSUME LinkInv, NEW t \in Entry, NEW c \in Link, c \notin cus[t], Join(t, c)
    PROVE  Balanced
<1>. USE DEF LinkInv, LinkType
<1>1. /\ cus' = [cus EXCEPT ![t] = cus[t] \cup {c}]
      /\ refs' = [refs EXCEPT ![c] = refs[c] + 1]
  BY DEF Join
<1>2. ASSUME NEW d \in Link PROVE Surplus(d)' = Surplus(d)
  <2>1. Cardinality(Holders(d)') = Cardinality(Holders(d))
            + Bit(d \in cus[t] \cup {c}) - Bit(d \in cus[t])
    BY <1>1, HoldersStep
  <2>2. Cardinality(Holders(d)) \in Nat /\ refs[d] \in Nat
    BY HoldersFinite
  <2>. QED  BY <1>1, <2>1, <2>2 DEF Bit, Surplus
<1>. QED  BY <1>2 DEF Balanced

LEMMA RecordBalance ==
    ASSUME LinkInv, NEW u \in CU, NEW p \in Port, NEW t \in Entry,
           Record(u, p, t)
    PROVE  Balanced
<1>1. CASE AlreadyIn(u, t) \/ NoRoom(u, t)
  BY <1>1, SameBalance DEF AlreadyIn, NoRoom, linkVars
<1>2. CASE JoinKnown(u, t)
  <2>1. PICK c \in LinksOf(u) : Join(t, c)
    BY <1>2 DEF JoinKnown
  <2>2. c \in Link /\ c \notin cus[t]
    BY <1>2, <2>1 DEF JoinKnown, LinksOf, LinkInv, LinkType
  <2>. QED  BY <2>1, <2>2, JoinBalance
<1>3. CASE JoinNew(u, p, t)
  <2>1. PICK c \in Link : FirstFreeLink(c) /\ Join(t, c)
    BY <1>3 DEF JoinNew
  <2>2. c \notin cus[t]
    BY <2>1, HeldCounted DEF FirstFreeLink
  <2>. QED  BY <2>1, <2>2, JoinBalance
<1>. QED  BY <1>1, <1>2, <1>3 DEF Record

(* The CU list of t shrinks to S and the links of gone lose a reference:   *)
(* what left the list without losing one is counted once too often.        *)
LEMMA UnrefBalance ==
    ASSUME LinkInv, NEW t \in Entry, NEW gone \in SUBSET cus[t],
           NEW S \in SUBSET (cus[t] \ gone),
           cus' = [cus EXCEPT ![t] = S], Unref(gone), NEW c \in Link
    PROVE  Surplus(c)' = Surplus(c) + Bit(c \in cus[t] \ (S \cup gone))
<1>. USE DEF LinkInv, LinkType
<1>1. refs'[c] = IF c \in gone THEN refs[c] - 1 ELSE refs[c]
  BY DEF Unref
<1>2. Cardinality(Holders(c)') = Cardinality(Holders(c))
          + Bit(c \in S) - Bit(c \in cus[t])
  BY HoldersStep
<1>3. Cardinality(Holders(c)) \in Nat /\ refs[c] \in Nat
  BY HoldersFinite
<1>. QED  BY <1>1, <1>2, <1>3 DEF Bit, Surplus

(* A destroyed stream: some CU gives its reference back, if there is one.  *)
LEMMA DestroyLeaks ==
    ASSUME IInv, NEW t \in Entry, nodes[t] > 0, DestroyEntry(t)
    PROVE  LeakStep
<1>1. PICK gone \in SUBSET cus[t] : Walk(cus[t], gone) /\ Unref(gone)
  BY DEF DestroyEntry
<1>2. cus' = [cus EXCEPT ![t] = {}] /\ nodes'[t] < nodes[t]
  BY DEF DestroyEntry, ClearEntry, IInv, EntryInv, EntryType
<1>3. ASSUME NEW c \in Link
      PROVE  Surplus(c)' = Surplus(c) + Bit(c \in cus[t] \ gone)
  <2>1. {} \in SUBSET (cus[t] \ gone)
    OBVIOUS
  <2>2. Surplus(c)' = Surplus(c) + Bit(c \in cus[t] \ ({} \cup gone))
    BY <1>1, <1>2, <2>1, UnrefBalance DEF IInv
  <2>3. {} \cup gone = gone
    OBVIOUS
  <2>. QED  BY <2>2, <2>3
<1>4. ASSUME NEW c \in cus[t] \ gone PROVE Missed(c)
  <2>1. PICK d \in cus[t] : d \in gone
    BY <1>1, <1>4 DEF Walk
  <2>2. d \in Link /\ Surplus(d)' = Surplus(d)
    <3>1. d \in Link /\ Surplus(d)' = Surplus(d) + 0
      BY <1>3, <2>1 DEF Bit, IInv, LinkInv, LinkType
    <3>2. refs[d] \in Nat /\ Cardinality(Holders(d)) \in Nat
      BY <3>1, HoldersFinite DEF IInv, LinkInv, LinkType
    <3>. QED  BY <3>1, <3>2 DEF Surplus
  <2>. QED  BY <1>2, <1>4, <2>1, <2>2 DEF Missed
<1>5. ASSUME NEW c \in Link, c \notin cus[t] \ gone
      PROVE  Surplus(c)' = Surplus(c)
  <2>1. refs[c] \in Nat /\ Cardinality(Holders(c)) \in Nat
    BY HoldersFinite DEF IInv, LinkInv, LinkType
  <2>. QED  BY <1>3, <1>5, <2>1 DEF Bit, Surplus
<1>. QED  BY <1>3, <1>4, <1>5 DEF LeakStep, Bit

LEMMA OpenBalance ==
    ASSUME LinkInv, NEW u \in CU, NEW k \in Request, NEW p \in Port,
           NEW f \in Front, NEW r \in Routed, Open(u, k, p, f, r)
    PROVE  Balanced
<1>1. CASE OpenListed(u, k, p)
  BY <1>1, RecordBalance DEF OpenListed, InsertListed, EntriesOf
<1>2. CASE InsertFresh(u, k, p, f)
  BY <1>2, RecordBalance DEF InsertFresh
<1>3. CASE InsertNowhere(k)
  BY <1>3, SameBalance DEF InsertNowhere, tables, linkVars
<1>. QED  BY <1>1, <1>2, <1>3 DEF Open, OpenNew

LEMMA LeaveBalance ==
    ASSUME LinkInv, NEW t \in Entry, NEW c \in cus[t],
           cus' = [cus EXCEPT ![t] = cus[t] \ {c}], Unref({c})
    PROVE  Balanced
<1>1. ASSUME NEW d \in Link PROVE Surplus(d)' = Surplus(d)
  <2>1. Surplus(d)' = Surplus(d)
            + Bit(d \in cus[t] \ ((cus[t] \ {c}) \cup {c}))
    BY UnrefBalance
  <2>2. d \notin cus[t] \ ((cus[t] \ {c}) \cup {c})
    OBVIOUS
  <2>3. refs[d] \in Nat /\ Cardinality(Holders(d)) \in Nat
    BY HoldersFinite DEF LinkInv, LinkType
  <2>. QED  BY <2>1, <2>2, <2>3 DEF Bit, Surplus
<1>. QED  BY <1>1 DEF Balanced

LEMMA CloseBalance ==
    ASSUME LinkInv, NEW u, NEW k, NEW op,
           \/ LeaveLast(u, k, op)
           \/ LeaveOthers(u, k, op)
           \/ LeaveNothing(u, k)
    PROVE  Balanced
<1>1. CASE LeaveLast(u, k, op)
  <2>0. PICK t \in Entry : \E c \in cus[t] :
              cus[t] = {c} /\ ClearEntry(t) /\ Unref({c})
    BY <1>1 DEF LeaveLast, EntriesOf
  <2>1. PICK c \in cus[t] : cus[t] = {c} /\ ClearEntry(t) /\ Unref({c})
    BY <2>0
  <2>2. cus' = [cus EXCEPT ![t] = cus[t] \ {c}]
    BY <2>1 DEF ClearEntry
  <2>. QED  BY <2>1, <2>2, LeaveBalance
<1>2. CASE LeaveOthers(u, k, op)
  <2>0. PICK t \in Entry : \E c \in cus[t] :
              cus' = [cus EXCEPT ![t] = cus[t] \ {c}] /\ Unref({c})
    BY <1>2 DEF LeaveOthers, EntriesOf
  <2>1. PICK c \in cus[t] :
              cus' = [cus EXCEPT ![t] = cus[t] \ {c}] /\ Unref({c})
    BY <2>0
  <2>. QED  BY <2>1, LeaveBalance
<1>3. CASE LeaveNothing(u, k)
  BY <1>3, SameBalance DEF LeaveNothing, tables, linkVars
<1>. QED  BY <1>1, <1>2, <1>3

LEMMA StepLeaks ==
    ASSUME IInv, [Next]_vars
    PROVE  LeakStep
<1>. USE DEF IInv
<1>0. CASE Balanced
  BY <1>0 DEF Balanced, LeakStep
<1>1. ASSUME NEW u \in CU, NEW k \in Request, NEW p \in Port, NEW f \in Front,
             NEW r \in Routed, Open(u, k, p, f, r)
      PROVE  LeakStep
  BY <1>0, <1>1, OpenBalance
<1>2. ASSUME NEW u \in CU, NEW k \in Request, NEW f \in Front, Close(u, k, f)
      PROVE  LeakStep
  BY <1>0, <1>2, CloseBalance DEF Close
<1>3. ASSUME NEW op \in {"open", "close"}, NEW res \in Result, NEW k \in Stream,
             CsgAnswer(op, res, k)
      PROVE  LeakStep
  <2>1. CASE UNCHANGED tables
    BY <1>0, <2>1, SameBalance DEF tables, linkVars
  <2>2. CASE \E t \in Entry : nodes[t] > 0 /\ DestroyEntry(t)
    BY <2>2, DestroyLeaks
  <2>. QED  BY <1>3, <2>1, <2>2 DEF CsgAnswer, EntriesOf
<1>4. ASSUME NEW k \in Stream, Forward(k) PROVE LeakStep
  BY <1>0, <1>4, SameBalance DEF Forward, tables, linkVars
<1>5. ASSUME NEW u \in CU, NEW p \in Port, CuKeepAlive(u, p) PROVE LeakStep
  BY <1>0, <1>5, SameBalance DEF CuKeepAlive
<1>6. ASSUME NEW t \in Entry, PuTimeout(t) PROVE LeakStep
  BY <1>6, DestroyLeaks DEF PuTimeout
<1>7. CASE Restart
  BY <1>7 DEF LeakStep
<1>8. CASE UNCHANGED vars
  BY <1>0, <1>8, SameBalance DEF vars, tables, linkVars
<1>. QED  BY <1>1, <1>2, <1>3, <1>4, <1>5, <1>6, <1>7, <1>8 DEF Next

(* Counts and CU lists change together but for the streams that are        *)
(* destroyed, where a reference may leak for every CU but one; true of     *)
(* either allocator.                                                       *)
THEOREM LeaksBounded == Spec => LeaksOnlyAtLoss
<1>1. IInv /\ [Next]_vars => [LeakStep]_vars
  BY StepLeaks
<1>. QED  BY <1>1, Invariance, PTL DEF Spec, LeaksOnlyAtLoss, LeakStep

(***************************************************************************)
(* What the stream tables keep to under an assumption that the code does   *)
(* not enforce.                                                            *)
(*                                                                         *)
(* With a CULINK for every CU (Room), every CU is recorded: no entry is    *)
(* free and listed at once, and the answers of the MDU are true.  Without  *)
(* it an OPEN may be confirmed to a CU that found no CULINK.               *)
(***************************************************************************)

-----------------------------------------------------------------------------
(* With a CULINK for every CU, whoever is recorded finds one: the links    *)
(* that are counted belong to different CUs, even those that leaked.       *)

Room == IsFiniteSet(CU) /\ Cardinality(CU) <= MaxLinks

LEMMA RoomForAll ==
    ASSUME LinkInv, Room, NEW u \in CU, NEW t \in Entry
    PROVE  ~ NoRoom(u, t)
<1>. SUFFICES ASSUME NoRoom(u, t) PROVE FALSE
  OBVIOUS
<1>. DEFINE owner == [c \in Link |-> id[c]]
<1>1. cuList = Link
  BY DEF NoRoom, LinkInv, LinkType, ListIsRefs
<1>2. owner \in [Link -> CU \ {u}]
  BY <1>1 DEF NoRoom, LinksOf, LinkInv, LinksOwned
<1>3. \A c, d \in Link : c # d => owner[c] # owner[d]
  BY <1>1 DEF LinkInv, OneLink
<1>. HIDE DEF owner
<1>4. IsFiniteSet(Link) /\ Cardinality(Link) = MaxLinks
  BY StreamsAssumption, FS_Interval DEF Link
<1>5. /\ IsFiniteSet(CU \ {u})
      /\ Cardinality(CU \ {u}) = Cardinality(CU) - 1
  BY FS_RemoveElement DEF Room
<1>6. Cardinality(CU) \in Nat
  BY FS_CardinalityType DEF Room
<1>7. Cardinality(CU \ {u}) < Cardinality(Link)
  BY <1>4, <1>5, <1>6, StreamsAssumption DEF Room
<1>8. \E c, d \in Link : c # d /\ owner[c] = owner[d]
  BY <1>2, <1>4, <1>5, <1>7, FS_PigeonHole
<1>. QED  BY <1>3, <1>8

(* After Record the CU is in the CU list of the entry. *)
LEMMA RecordJoins ==
    ASSUME LinkInv, Room, NEW u \in CU, NEW p \in Port, NEW t \in Entry,
           Record(u, p, t)
    PROVE  \E c \in cus'[t] : id'[c] = u
<1>. USE DEF LinkInv, LinkType
<1>1. CASE AlreadyIn(u, t)
  BY <1>1 DEF AlreadyIn, linkVars
<1>2. CASE JoinKnown(u, t)
  <2>1. PICK c \in LinksOf(u) : Join(t, c)
    BY <1>2 DEF JoinKnown
  <2>2. c \in cus'[t] /\ id'[c] = u
    BY <1>2, <2>1 DEF JoinKnown, LinksOf, Join
  <2>. QED  BY <2>2
<1>3. CASE JoinNew(u, p, t)
  <2>1. PICK c \in Link : Join(t, c) /\ id' = [id EXCEPT ![c] = u]
    BY <1>3 DEF JoinNew
  <2>2. c \in cus'[t] /\ id'[c] = u
    BY <2>1 DEF Join
  <2>. QED  BY <2>2
<1>. QED  BY <1>1, <1>2, <1>3, RoomForAll DEF Record

(* A new entry was in no list and gets its CU, a cleared one leaves the    *)
(* list it was in once.                                                    *)
LEMMA OpenUnlisted ==
    ASSUME IInv, Room, FreeUnlisted, NEW u \in CU, NEW k \in Request,
           NEW p \in Port, NEW f \in Front, NEW r \in Routed,
           Open(u, k, p, f, r)
    PROVE  FreeUnlisted'
<1>1. CASE InsertListed(u, k, p)
  <2>1. PICK t \in Entry : Record(u, p, t)
    BY <1>1 DEF InsertListed, EntriesOf
  <2>2. /\ cus'[t] # {}
        /\ \A s \in Entry \ {t} : cus'[s] = cus[s]
    BY <2>1, RecordJoins, RecordLinks DEF IInv
  <2>3. nodes' = nodes
    BY <1>1 DEF InsertListed, entryVars
  <2>. QED  BY <2>2, <2>3 DEF FreeUnlisted
<1>2. CASE InsertFresh(u, k, p, f)
  <2>1. PICK t \in Entry : /\ FirstFreeEntry(t)
                           /\ nodes' = [nodes EXCEPT ![t] = nodes[t] + 1]
                           /\ Record(u, p, t)
    BY <1>2 DEF InsertFresh
  <2>2. /\ cus'[t] # {}
        /\ \A s \in Entry \ {t} : cus'[s] = cus[s]
    BY <2>1, RecordJoins, RecordLinks DEF IInv
  <2>3. nodes[t] = 0
    BY <2>1 DEF FirstFreeEntry, FreeUnlisted
  <2>4. nodes'[t] = 1 /\ \A s \in Entry \ {t} : nodes'[s] = nodes[s]
    BY <2>1, <2>3 DEF IInv, EntryInv, EntryType
  <2>. QED  BY <2>2, <2>4 DEF FreeUnlisted
<1>3. CASE InsertNowhere(k)
  BY <1>3 DEF InsertNowhere, tables, FreeUnlisted
<1>. QED  BY <1>1, <1>2, <1>3 DEF Open, OpenListed, OpenNew

LEMMA ClearUnlisted ==
    ASSUME IInv, FreeUnlisted, NEW t \in Entry, nodes[t] > 0, ClearEntry(t)
    PROVE  FreeUnlisted'
<1>1. nodes[t] = 1
  BY DEF FreeUnlisted, IInv, EntryInv, EntryType
<1>2. nodes'[t] = 0 /\ \A s \in Entry \ {t} : nodes'[s] = nodes[s]
  BY <1>1 DEF ClearEntry, IInv, EntryInv, EntryType
<1>3. \A s \in Entry \ {t} : cus'[s] = cus[s]
  BY DEF ClearEntry, IInv, LinkInv, LinkType
<1>. QED  BY <1>2, <1>3 DEF FreeUnlisted

LEMMA CloseUnlisted ==
    ASSUME IInv, FreeUnlisted, NEW u, NEW k, NEW op,
           \/ LeaveLast(u, k, op)
           \/ LeaveOthers(u, k, op)
           \/ LeaveNothing(u, k)
    PROVE  FreeUnlisted'
<1>1. CASE LeaveLast(u, k, op)
  BY <1>1, ClearUnlisted DEF LeaveLast, EntriesOf
<1>2. CASE LeaveOthers(u, k, op)
  <2>0. PICK t \in Entry : \E c \in cus[t] :
              cus[t] # {c} /\ cus' = [cus EXCEPT ![t] = cus[t] \ {c}]
    BY <1>2 DEF LeaveOthers, EntriesOf
  <2>1. PICK c \in cus[t] :
              cus[t] # {c} /\ cus' = [cus EXCEPT ![t] = cus[t] \ {c}]
    BY <2>0
  <2>2. cus[t] # {} /\ cus'[t] # {} /\ \A s \in Entry \ {t} : cus'[s] = cus[s]
    BY <2>1 DEF IInv, LinkInv, LinkType
  <2>3. nodes' = nodes
    BY <1>2 DEF LeaveOthers, entryVars
  <2>. QED  BY <2>2, <2>3 DEF FreeUnlisted
<1>3. CASE LeaveNothing(u, k)
  BY <1>3 DEF LeaveNothing, tables, FreeUnlisted
<1>. QED  BY <1>1, <1>2, <1>3

LEMMA StepUnlisted ==
    ASSUME IInv, Room, FreeUnlisted, [Next]_vars
    PROVE  FreeUnlisted'
<1>1. ASSUME NEW u \in CU, NEW k \in Request, NEW p \in Port, NEW f \in Front,
             NEW r \in Routed, Open(u, k, p, f, r)
      PROVE  FreeUnlisted'
  BY <1>1, OpenUnlisted
<1>2. ASSUME NEW u \in CU, NEW k \in Request, NEW f \in Front, Close(u, k, f)
      PROVE  FreeUnlisted'
  BY <1>2, CloseUnlisted DEF Close
<1>3. ASSUME NEW op \in {"open", "close"}, NEW res \in Result, NEW k \in Stream,
             CsgAnswer(op, res, k)
      PROVE  FreeUnlisted'
  <2>1. CASE UNCHANGED tables
    BY <2>1 DEF tables, FreeUnlisted
  <2>2. CASE \E t \in Entry : nodes[t] > 0 /\ DestroyEntry(t)
    BY <2>2, ClearUnlisted DEF DestroyEntry
  <2>. QED  BY <1>3, <2>1, <2>2 DEF CsgAnswer, EntriesOf
<1>4. ASSUME NEW k \in Stream, Forward(k) PROVE FreeUnlisted'
  BY <1>4 DEF Forward, tables, FreeUnlisted
<1>5. ASSUME NEW u \in CU, NEW p \in Port, CuKeepAlive(u, p) PROVE FreeUnlisted'
  BY <1>5 DEF CuKeepAlive, FreeUnlisted
<1>6. ASSUME NEW t \in Entry, PuTimeout(t) PROVE FreeUnlisted'
  BY <1>6, ClearUnlisted DEF PuTimeout, DestroyEntry
<1>7. CASE Restart
  BY <1>7 DEF Restart, FreeUnlisted
<1>8. CASE UNCHANGED vars
  BY <1>8 DEF vars, FreeUnlisted
<1>. QED  BY <1>1, <1>2, <1>3, <1>4, <1>5, <1>6, <1>7, <1>8 DEF Next

(* With a CULINK for every CU, an entry the scan for free space may take   *)
(* is in no list, and no entry is listed twice, however few entries there  *)
(* are and however many counts leak.                                       *)
THEOREM FreeNeverListed ==
    ASSUME Room
    PROVE  Spec => []FreeUnlisted
<1>1. Init => FreeUnlisted
  BY DEF Init, FreeUnlisted
<1>2. IInv /\ FreeUnlisted /\ [Next]_vars => FreeUnlisted'
  BY StepUnlisted
<1>. QED  BY <1>1, <1>2, Invariance, PTL DEF Spec

-----------------------------------------------------------------------------
(* What the MDU answers by itself.                                         *)

LEMMA GrantTrue ==
    ASSUME IInv, Room, NEW u \in CU, NEW k \in Request, NEW p \in Port,
           OpenListed(u, k, p)
    PROVE  OwnAnswersTrue'
<1>1. PICK t \in EntriesOf(k) : Record(u, p, t)
  BY DEF OpenListed, InsertListed
<1>2. t \in Entry /\ t \in EntriesOf(k)'
  BY <1>1 DEF OpenListed, InsertListed, entryVars, EntriesOf
<1>3. u \in Viewers(k)'
  BY <1>1, <1>2, RecordJoins DEF Viewers, IInv
<1>4. \A m \in out' : m.op = "open" /\ m.cu = u /\ m.key = k
  BY DEF OpenListed, Feedback
<1>. QED  BY <1>3, <1>4 DEF OwnAnswersTrue

LEMMA ReleaseTrue ==
    ASSUME IInv, NEW u \in CU, NEW k, NEW op \in {"close", "unknown"},
           LeaveOthers(u, k, op)
    PROVE  OwnAnswersTrue'
<1>1. PICK t \in EntriesOf(k) : \E c \in cus[t] :
              /\ id[c] = u /\ cus[t] # {c}
              /\ cus' = [cus EXCEPT ![t] = cus[t] \ {c}] /\ Unref({c})
  BY DEF LeaveOthers
<1>2. PICK c \in cus[t] :
              /\ id[c] = u /\ cus[t] # {c}
              /\ cus' = [cus EXCEPT ![t] = cus[t] \ {c}] /\ Unref({c})
  BY <1>1
<1>3. t \in Entry /\ nodes[t] > 0 /\ key[t] = k /\ k # NoStream
  BY <1>2, StreamsAssumption DEF EntriesOf, IInv, EntryInv, Sourced
<1>4. EntriesOf(k)' = {t}
  <2>1. EntriesOf(k)' = EntriesOf(k)
    BY DEF LeaveOthers, entryVars, EntriesOf
  <2>. QED  BY <1>3, <2>1 DEF EntriesOf, IInv, EntryInv, OneEntry
<1>5. cus'[t] = cus[t] \ {c} /\ cus'[t] # {}
  BY <1>2, <1>3 DEF IInv, LinkInv, LinkType
<1>6. \A d \in cus'[t] : id'[d] = id[d] /\ id[d] # u
  <2>1. \A d \in cus[t] : d \in Link /\ (id[d] = id[c] => d = c)
    BY <1>3, ListOwned DEF IInv, LinkInv, LinkType
  <2>2. \A d \in cus'[t] : d \in cus[t] /\ d # c
    BY <1>5
  <2>3. \A d \in cus'[t] : id'[d] = id[d]
    BY <2>1, <2>2, <1>2 DEF Unref
  <2>. QED  BY <1>2, <2>1, <2>2, <2>3
<1>7. Viewers(k)' = {id'[d] : d \in cus'[t]}
  BY <1>4 DEF Viewers
<1>8. u \notin Viewers(k)' /\ Viewers(k)' # {}
  BY <1>5, <1>6, <1>7
<1>9. \A m \in out' : m.op # "open" /\ m.cu = u /\ m.key = k
  BY DEF LeaveOthers, Feedback
<1>. QED  BY <1>8, <1>9 DEF OwnAnswersTrue

(* The other handlers answer nothing by themselves. *)
LEMMA NotOwn ==
    ASSUME NEW m
    PROVE  /\ \A h, op, k : m = CommandTo(h, op, k) /\ h \in Hop => m \notin Answer
           /\ \A k : m = StreamBreak(k) => m \notin Answer
           /\ \A op, res, u, k : m = Feedback("csg", op, res, u, k) => m.by # "mdu"
           /\ m \in Packet => m \notin Answer
BY DEF CommandTo, StreamBreak, Feedback, Packet, Answer, Hop

LEMMA StepTrue ==
    ASSUME IInv, Room, OwnAnswersTrue, [Next]_vars
    PROVE  OwnAnswersTrue'
<1>1. CASE \A m \in out' : m \in Answer => m.by # "mdu"
  BY <1>1 DEF OwnAnswersTrue
<1>2. ASSUME NEW u \in CU, NEW k \in Request, NEW p \in Port, NEW f \in Front,
             NEW r \in Routed, Open(u, k, p, f, r)
      PROVE  OwnAnswersTrue'
  <2>1. CASE OpenNew(u, k, p, f, r)
    BY <1>1, <2>1, NotOwn DEF OpenNew, Hop
  <2>. QED  BY <1>2, <2>1, GrantTrue DEF Open
<1>3. ASSUME NEW u \in CU, NEW k \in Request, NEW f \in Front, Close(u, k, f)
      PROVE  OwnAnswersTrue'
  <2>1. PICK kk \in CloseKey(k, f) : \/ LeaveLast(u, kk, CloseOp(k, f))
                                     \/ LeaveOthers(u, kk, CloseOp(k, f))
                                     \/ LeaveNothing(u, kk)
    BY <1>3 DEF Close
  <2>2. CASE LeaveLast(u, kk, CloseOp(k, f))
    BY <1>1, <2>2, NotOwn DEF LeaveLast, Hop
  <2>3. CASE LeaveNothing(u, kk)
    BY <1>1, <2>3 DEF LeaveNothing
  <2>. QED  BY <2>1, <2>2, <2>3, ReleaseTrue, CloseKeyType
<1>4. ASSUME NEW op \in {"open", "close"}, NEW res \in Result, NEW k \in Stream,
             CsgAnswer(op, res, k)
      PROVE  OwnAnswersTrue'
  BY <1>1, <1>4, NotOwn DEF CsgAnswer
<1>5. ASSUME NEW k \in Stream, Forward(k) PROVE OwnAnswersTrue'
  <2>1. \A m \in out' : m.to = "cu"
    BY <1>5 DEF Forward
  <2>. QED  BY <1>1, <2>1 DEF Answer
<1>6. ASSUME NEW u \in CU, NEW p \in Port, CuKeepAlive(u, p) PROVE OwnAnswersTrue'
  BY <1>1, <1>6 DEF CuKeepAlive
<1>7. ASSUME NEW t \in Entry, PuTimeout(t) PROVE OwnAnswersTrue'
  BY <1>1, <1>7, NotOwn DEF PuTimeout
<1>8. CASE Restart
  BY <1>1, <1>8 DEF Restart
<1>9. CASE UNCHANGED vars
  <2>1. out' = out /\ \A k : Viewers(k)' = Viewers(k)
    BY <1>9 DEF vars, Viewers, EntriesOf
  <2>. QED  BY <2>1 DEF OwnAnswersTrue
<1>. QED  BY <1>2, <1>3, <1>4, <1>5, <1>6, <1>7, <1>8, <1>9 DEF Next

(* With a CULINK for every CU, what the MDU answers by itself is true when *)
(* it is sent: an OPEN is granted to a CU that is recorded, a CLOSE is     *)
(* confirmed for a CU that no longer is, while others still watch.         *)
THEOREM AnswersAreTrue ==
    ASSUME Room
    PROVE  Spec => []OwnAnswersTrue
<1>1. Init => OwnAnswersTrue
  BY DEF Init, OwnAnswersTrue
<1>2. IInv /\ OwnAnswersTrue /\ [Next]_vars => OwnAnswersTrue'
  BY StepTrue
<1>. QED  BY <1>1, <1>2, Invariance, PTL DEF Spec

=============================================================================
