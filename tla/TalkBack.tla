------------------------------ MODULE TalkBack ------------------------------
(***************************************************************************)
(* Talkback: the CMU lets a CU talk with a device behind a CSG.  The sound *)
(* of the device is a stream like the others and is recorded in the        *)
(* tables of MduStreams, of which this module keeps only what they promise *)
(* (Subscriptions): who hears which device.  The sound of the CU is sent   *)
(* on by tables of its own: m_pTalkBackList lists the entries of the CUs,  *)
(* each entry lists links to CSGs, and a link is free when its reference   *)
(* count is 0.                                                             *)
(*                                                                         *)
(* All handlers run in the polling thread, one after the other.  A device  *)
(* is identified with its CSG, whose address does not change.              *)
(*                                                                         *)
(* opened, closed and closes are history: what the CMU has asked for.      *)
(***************************************************************************)
EXTENDS Integers, Sequences, FiniteSets, SequencesExt

CONSTANTS
  CU,         \* client units
  Csg,        \* device gateways
  NoCU,       \* mCUId of an entry that was never used
  NoCsg,      \* uid of a link that was never used
  MaxEntries, \* entries of m_TalkBackTable (MAX_CALLS)
  MaxLinks,   \* links of m_CSGLink (MAX_CALLS)
  RefRange,   \* values of a guint (2^32)
  MaxListed,  \* bound: nodes of m_pTalkBackList
  MaxNodes,   \* bound: nodes of an mCSGList
  MaxCloses   \* bound: CLOSEs in the life of the process

Entry == 1..MaxEntries
Link == 1..MaxLinks
None == 0   \* a NULL pointer

ASSUME TalkAssumption ==
  /\ NoCU \notin CU /\ NoCsg \notin Csg
  /\ {MaxEntries, MaxLinks, RefRange} \subseteq Nat \ {0}
  /\ {MaxListed, MaxNodes, MaxCloses} \subseteq Nat

VARIABLES
  list,    \* m_pTalkBackList: the entries, in order
  cu,      \* mCUStreamKey.mCUId of an entry
  csgs,    \* mCSGList of an entry: its links, in order
  uid,     \* uid of a link
  refCnt,  \* reference count of a link
  hears,   \* <<u, g>>: the stream tables send the sound of g to u
  sent,    \* what the last handler sent, in order
  opened,  \* history: the CSGs that a CU was let talk to, with room for it
  closed,  \* history: CUs that a CLOSE has named
  closes   \* history: how many CLOSEs, since the process started

tables == <<list, cu, csgs, uid, refCnt>>
history == <<opened, closed, closes>>
vars == <<tables, hears, sent, history>>

Init ==
  /\ list = <<>>
  /\ cu = [e \in Entry |-> NoCU]
  /\ csgs = [e \in Entry |-> <<>>]
  /\ uid = [l \in Link |-> NoCsg]
  /\ refCnt = [l \in Link |-> 0]
  /\ hears = {} /\ sent = <<>>
  /\ opened = [u \in CU |-> {}] /\ closed = {} /\ closes = 0

-----------------------------------------------------------------------------
(* The tables.                                                             *)

\* The first one of a table that satisfies P, or None.
FirstOf(S, P(_)) ==
  IF \E i \in S : P(i)
  THEN CHOOSE i \in S : P(i) /\ \A j \in S : P(j) => i <= j
  ELSE None

\* The listed entry of CU u.
Listed(u) ==
  LET at == SelectInSeq(list, LAMBDA e : cu[e] = u)
  IN IF at = 0 THEN None ELSE list[at]

(* Mutant: the last entry is never used.                                   *)
FirstFreeEntryOffByOne ==
  FirstOf(1..(MaxEntries - 1), LAMBDA e : csgs[e] = <<>>)

\* An entry is free when it has no CSG, listed or not.
FirstFreeEntry == FirstOf(Entry, LAMBDA e : csgs[e] = <<>>)

(* Mutant: a link with one reference counts as free.                       *)
FirstFreeLinkCounted == FirstOf(Link, LAMBDA l : refCnt[l] <= 1)

\* A link is free when nothing refers to it, according to its count.
FirstFreeLink == FirstOf(Link, LAMBDA l : refCnt[l] = 0)

(* Mutant: the list is not searched for the CU.                            *)
EntryForFresh(u) == FirstFreeEntry

\* The entry that an OPEN for u uses.
EntryFor(u) == IF Listed(u) # None THEN Listed(u) ELSE FirstFreeEntry

\* The link that it appends to entry e: the one of g in the list, or a free
\* one.
LinkFor(e, g) ==
  LET at == SelectInSeq(csgs[e], LAMBDA l : uid[l] = g)
  IN IF at # 0 THEN csgs[e][at] ELSE FirstFreeLink

\* The entry is listed by every OPEN, and so is the link.
talkBackAddList(u, g) ==
  LET e == EntryFor(u)
      l == LinkFor(e, g)
  IN IF e = None
     THEN UNCHANGED tables
     ELSE /\ list' = Append(list, e)
          /\ cu' = [cu EXCEPT ![e] = u]
          /\ IF l = None
             THEN UNCHANGED <<csgs, uid, refCnt>>
             ELSE /\ csgs' = [csgs EXCEPT ![e] = Append(@, l)]
                  /\ uid' = [uid EXCEPT ![l] = g]
                  /\ refCnt' = [refCnt EXCEPT ![l] = (@ + 1) % RefRange]

\* How often link l is a node of the list of entry e.
Nodes(e, l) == Cardinality({i \in DOMAIN csgs[e] : csgs[e][i] = l})

(* Mutant: the count is signed.                                            *)
talkBackRemoveSigned(u) ==
  /\ refCnt' = IF Listed(u) = None THEN refCnt
               ELSE [l \in Link |-> refCnt[l] - Nodes(Listed(u), l)]
  /\ UNCHANGED <<list, cu, csgs, uid>>

(* Mutant: the entry is taken off the list, with all its conversations.     *)
talkBackRemoveEntry(u) ==
  /\ refCnt' = IF Listed(u) = None THEN refCnt
               ELSE [l \in Link |-> (refCnt[l] - Nodes(Listed(u), l)) % RefRange]
  /\ list' = SelectSeq(list, LAMBDA e : e # Listed(u))
  /\ UNCHANGED <<cu, csgs, uid>>

\* Each node of the CU's list costs its link a reference.  What is removed
\* from the list is m_pCSGList, which is NULL, so nothing is.
talkBackRemove(u) ==
  /\ refCnt' = IF Listed(u) = None THEN refCnt
               ELSE [l \in Link |-> (refCnt[l] - Nodes(Listed(u), l)) % RefRange]
  /\ UNCHANGED <<list, cu, csgs, uid>>

-----------------------------------------------------------------------------
(* Messages.  mdu says which identity a message carries.                   *)

ToCsg(g, type, u, mdu) == [to |-> g, type |-> type, cu |-> u, mdu |-> mdu]
ToCmu(type, u) == [to |-> "cmu", type |-> type, cu |-> u, mdu |-> "own"]
ToCu(u) == [to |-> u, type |-> "sound", cu |-> u, mdu |-> "none"]

Confirm(u) == ToCmu("confirm", u)

\* The CSGs that sound of u is sent to, one for each node of the first entry
\* of u.
Targets(u) ==
  IF Listed(u) = None THEN <<>>
  ELSE [i \in 1..Len(csgs[Listed(u)]) |-> uid[csgs[Listed(u)][i]]]

\* There is room for a conversation of u with g.
HasRoom(u, g) ==
  /\ Listed(u) # None \/ \E e \in Entry : csgs[e] = <<>>
  /\ g \in ToSet(Targets(u)) \/ \E l \in Link : refCnt[l] = 0

-----------------------------------------------------------------------------
(* The handlers.                                                           *)

\* An OPEN of the CMU: both directions are recorded if there is room (the
\* result of avInsertList is not used and talkBackAddList always succeeds),
\* and the CSG is asked.
talkBackOpen(u, g) ==
  /\ Len(list) < MaxListed
  /\ \A e \in Entry : Len(csgs[e]) < MaxNodes
  /\ hears' \in {hears, hears \cup {<<u, g>>}}
  /\ talkBackAddList(u, g)
  /\ sent' = <<Confirm(u), ToCsg(g, "open", u, "own")>>
  /\ opened' = IF HasRoom(u, g) THEN [opened EXCEPT ![u] = @ \cup {g}] ELSE opened
  /\ UNCHANGED <<closed, closes>>

\* A CLOSE: it names the device, but talkBackRemove only takes the CU.  The
\* CSG is told unless the CU is unknown; MDUINFO was cleared.
talkBackClose(u, g) ==
  /\ closes < MaxCloses
  /\ hears' = hears \ {<<u, g>>}
  /\ talkBackRemove(u)
  /\ sent' = IF Listed(u) = None THEN <<Confirm(u)>>
             ELSE <<Confirm(u), ToCsg(g, "close", u, "zero")>>
  /\ opened' = [opened EXCEPT ![u] = @ \ {g}]
  /\ closed' = closed \cup {u}
  /\ closes' = closes + 1

\* Sound of CU u is sent to every node of its list.
dataSendtoCsg(u) ==
  /\ sent' = [i \in DOMAIN Targets(u) |-> ToCsg(Targets(u)[i], "sound", u, "none")]
  /\ UNCHANGED <<tables, hears, history>>

\* Sound of a device is sent to those who hear it.
mdu_datafrom_csg(g) ==
  /\ sent' \in SetToSeqs({ToCu(u) : u \in {v \in CU : <<v, g>> \in hears}})
  /\ UNCHANGED <<tables, hears, history>>

\* An answer of the CSG is passed on to the CMU, with the identity of the
\* MDU; one that names no CU is dropped.  The tables stay as they are,
\* whatever the answer.
sendFBToCmu(type, u) ==
  /\ sent' = IF u = NoCU THEN <<>> ELSE <<ToCmu(type, u)>>
  /\ UNCHANGED <<tables, hears, history>>

\* The process ends and starts again with empty tables.
Restart ==
  /\ list' = <<>>
  /\ cu' = [e \in Entry |-> NoCU]
  /\ csgs' = [e \in Entry |-> <<>>]
  /\ uid' = [l \in Link |-> NoCsg]
  /\ refCnt' = [l \in Link |-> 0]
  /\ hears' = {} /\ sent' = <<>>
  /\ opened' = [u \in CU |-> {}] /\ closed' = {} /\ closes' = 0

Next ==
  \/ \E u \in CU, g \in Csg : talkBackOpen(u, g) \/ talkBackClose(u, g)
  \/ \E u \in CU : dataSendtoCsg(u)
  \/ \E g \in Csg : mdu_datafrom_csg(g)
  \/ \E u \in CU \cup {NoCU}, type \in {"open", "close"} : sendFBToCmu(type, u)
  \/ Restart

Spec == Init /\ [][Next]_vars

-----------------------------------------------------------------------------
(* Properties.                                                             *)

Message == [to : CU \cup Csg \cup {"cmu"}, cu : CU, mdu : {"own", "zero", "none"},
            type : {"confirm", "open", "close", "sound"}]

\* The types of the variables.
TypeOK ==
  /\ list \in Seq(Entry) /\ Len(list) <= MaxListed
  /\ cu \in [Entry -> CU \cup {NoCU}]
  /\ csgs \in [Entry -> Seq(Link)]
  /\ uid \in [Link -> Csg \cup {NoCsg}]
  /\ refCnt \in [Link -> 0..(RefRange - 1)]
  /\ hears \subseteq CU \X Csg
  /\ sent \in Seq(Message)
  /\ opened \in [CU -> SUBSET Csg] /\ closed \subseteq CU
  /\ closes \in 0..MaxCloses

\* A CU has one listed entry, however often it opens and closes and whoever
\* takes over entries without CSGs (talkBackAddList).
OneEntry == \A d, e \in ToSet(list) : cu[d] = cu[e] => d = e

\* While there is room an OPEN lets the CU be heard by that CSG, whatever was
\* opened and closed before (talkBackAddList, dataSendtoCsg).
OpenHeard ==
  [][\A u \in CU, g \in Csg :
       talkBackOpen(u, g) /\ HasRoom(u, g) => g \in ToSet(Targets(u)')]_vars

\* A CU that has closed nothing is heard by exactly the CSGs that were opened
\* for it, whatever the other CUs do (talkBackRemove: it changes the links of
\* one CU only).
Undisturbed == \A u \in CU \ closed : ToSet(Targets(u)) = opened[u]

\* The first CLOSE in the life of the process disturbs nobody else, whatever
\* is opened before and after it (talkBackRemove).
FirstCloseHarmless == closes <= 1 => Undisturbed

\* The CLOSE of a conversation for which there was room is sent on to its CSG,
\* as its OPEN was, whatever the CU closed before and other CUs opened
\* (talkBackClose: Send talkback close message to csg).
CloseSent ==
  [][\A u \in CU, g \in Csg :
       talkBackClose(u, g) /\ g \in opened[u] =>
         \E i \in DOMAIN sent' : sent'[i].to = g]_vars

=============================================================================
