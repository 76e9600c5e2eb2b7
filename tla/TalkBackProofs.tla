---------------------------- MODULE TalkBackProofs ----------------------------
(***************************************************************************)
(* Talkback for every number of CUs, CSGs, entries and links.              *)
(*                                                                         *)
(* Search says what the tables promise as long as the process lives: a CU  *)
(* has one listed entry, and a CU that was given a conversation has one    *)
(* with links.  Counts says what is left of the reference counts after the *)
(* first CLOSE: they count the nodes that CLOSE has not released, which    *)
(* keep their links nevertheless.                                          *)
(***************************************************************************)
EXTENDS TalkBack, ListLemmas

\* The CUs for which there was room are listed, with links; links in use
\* name a CSG.
Search ==
  /\ OneEntry
  /\ \A e \in Entry : \A i \in DOMAIN csgs[e] : uid[csgs[e][i]] \in Csg
  /\ \A u \in CU : opened[u] # {} =>
       \E e \in ToSet(list) : cu[e] = u /\ csgs[e] # <<>>

\* The nodes of all lists of links.
Held == {n \in Entry \X Nat : n[2] \in DOMAIN csgs[n[1]]}

\* The nodes of link l, without the first k of entry e.
Counted(e, k, l) ==
  {n \in Held : csgs[n[1]][n[2]] = l /\ (n[1] = e => n[2] > k)}

\* A CLOSE has released the first k nodes of entry e, or there was none and
\* k is 0; the counts are exact for the others.
Counts(e, k) ==
  /\ closes = 0 => k = 0
  /\ k > 0 => cu[e] \in closed /\ k <= Len(csgs[e])
  /\ \A l \in Link : refCnt[l] = Cardinality(Counted(e, k, l)) % RefRange

\* The lists grow with m_pTalkBackList, so no count wraps before it is full.
HeldListed == IsFiniteSet(Held) /\ Cardinality(Held) <= Len(list)

SearchInv == TypeOK /\ IsFiniteSet(hears) /\ Search

CountInv ==
  /\ SearchInv /\ HeldListed
  /\ closes <= 1 => Undisturbed /\ \E e \in Entry, k \in Nat : Counts(e, k)

-----------------------------------------------------------------------------
(* The constants, one by one. *)
LEMMA TalkConstants ==
  /\ MaxEntries \in Nat \ {0} /\ MaxLinks \in Nat \ {0} /\ RefRange \in Nat \ {0}
  /\ MaxListed \in Nat /\ MaxNodes \in Nat /\ MaxCloses \in Nat
  /\ NoCU \notin CU /\ NoCsg \notin Csg
  /\ None \notin Entry /\ None \notin Link
  /\ Entry \subseteq Nat /\ Link \subseteq Nat
BY TalkAssumption DEF None, Entry, Link

(* What the searches find. *)
LEMMA ListedFound ==
  ASSUME TypeOK, NEW u
  PROVE  \/ /\ Listed(u) = None
            /\ \A e \in ToSet(list) : cu[e] # u
         \/ /\ Listed(u) \in ToSet(list) /\ Listed(u) \in Entry
            /\ Listed(u) # None /\ cu[Listed(u)] = u
<1>. DEFINE I == {i \in 1..Len(list) : cu[list[i]] = u}
            at == IF I # {} THEN Min(I) ELSE 0
<1>1. Listed(u) = IF at = 0 THEN None ELSE list[at]
  BY DEF Listed, SelectInSeq
<1>2. Len(list) \in Nat /\ DOMAIN list = 1..Len(list)
      /\ \A i \in 1..Len(list) : list[i] \in Entry
  BY DEF TypeOK
<1>3. CASE I = {}
  <2>1. Listed(u) = None
    BY <1>1, <1>3
  <2>2. \A e \in ToSet(list) : cu[e] # u
    BY <1>2, <1>3 DEF ToSet
  <2>. QED  BY <2>1, <2>2
<1>4. CASE I # {}
  <2>1. Min(I) \in I
    BY <1>2, <1>4, MinOfNaturals
  <2>2. at \in 1..Len(list) /\ cu[list[at]] = u /\ at # 0
    BY <1>2, <1>4, <2>1
  <2>3. Listed(u) = list[at]
    BY <1>1, <2>2
  <2>. HIDE DEF at
  <2>. QED  BY <1>2, <2>2, <2>3, TalkConstants DEF ToSet
<1>. QED  BY <1>3, <1>4

(* With one listed entry for each CU the search finds this one. *)
LEMMA ListedOnly ==
  ASSUME TypeOK, OneEntry, NEW e \in ToSet(list)
  PROVE  Listed(cu[e]) = e
BY ListedFound DEF OneEntry

LEMMA FreeEntryFound ==
  \/ FirstFreeEntry = None /\ \A e \in Entry : csgs[e] # <<>>
  \/ FirstFreeEntry \in Entry /\ csgs[FirstFreeEntry] = <<>>
<1>. DEFINE S == {e \in Entry : csgs[e] = <<>>}
<1>1. CASE S = {}
  BY <1>1 DEF FirstFreeEntry, FirstOf
<1>2. CASE S # {}
  <2>1. PICK e \in S : \A d \in S : e <= d
    BY <1>2, LeastNatural, TalkConstants
  <2>2. FirstFreeEntry = CHOOSE i \in Entry : /\ csgs[i] = <<>>
                                              /\ \A j \in Entry : csgs[j] = <<>> => i <= j
    BY <1>2 DEF FirstFreeEntry, FirstOf
  <2>. QED  BY <2>1, <2>2
<1>. QED  BY <1>1, <1>2

LEMMA FreeLinkFound ==
  \/ FirstFreeLink = None /\ \A l \in Link : refCnt[l] # 0
  \/ FirstFreeLink \in Link /\ refCnt[FirstFreeLink] = 0
<1>. DEFINE S == {l \in Link : refCnt[l] = 0}
<1>1. CASE S = {}
  BY <1>1 DEF FirstFreeLink, FirstOf
<1>2. CASE S # {}
  <2>1. PICK l \in S : \A m \in S : l <= m
    BY <1>2, LeastNatural, TalkConstants
  <2>2. FirstFreeLink = CHOOSE i \in Link : /\ refCnt[i] = 0
                                            /\ \A j \in Link : refCnt[j] = 0 => i <= j
    BY <1>2 DEF FirstFreeLink, FirstOf
  <2>. QED  BY <2>1, <2>2
<1>. QED  BY <1>1, <1>2

(* The link of g in a list, else a free one, else none. *)
LEMMA LinkFound ==
  ASSUME TypeOK, NEW e \in Entry, NEW g
  PROVE  \/ /\ LinkFor(e, g) \in Link /\ uid[LinkFor(e, g)] = g
            /\ \E i \in DOMAIN csgs[e] : csgs[e][i] = LinkFor(e, g)
         \/ /\ LinkFor(e, g) \in Link /\ refCnt[LinkFor(e, g)] = 0
            /\ \A i \in DOMAIN csgs[e] : uid[csgs[e][i]] # g
         \/ /\ LinkFor(e, g) = None /\ \A l \in Link : refCnt[l] # 0
            /\ \A i \in DOMAIN csgs[e] : uid[csgs[e][i]] # g
<1>. DEFINE s == csgs[e]
            I == {i \in 1..Len(s) : uid[s[i]] = g}
            at == IF I # {} THEN Min(I) ELSE 0
<1>1. LinkFor(e, g) = IF at # 0 THEN s[at] ELSE FirstFreeLink
  BY DEF LinkFor, SelectInSeq
<1>2. Len(s) \in Nat /\ DOMAIN s = 1..Len(s) /\ \A i \in 1..Len(s) : s[i] \in Link
  BY DEF TypeOK
<1>3. CASE I = {}
  <2>1. LinkFor(e, g) = FirstFreeLink
    BY <1>1, <1>3
  <2>2. \A i \in DOMAIN s : uid[s[i]] # g
    BY <1>2, <1>3
  <2>. QED  BY <2>1, <2>2, FreeLinkFound
<1>4. CASE I # {}
  <2>1. Min(I) \in I
    <3>1. I \in SUBSET Nat
      BY <1>2
    <3>. QED  BY <1>4, <3>1, MinOfNaturals
  <2>2. at \in 1..Len(s) /\ uid[s[at]] = g /\ at # 0
    BY <1>2, <1>4, <2>1
  <2>3. LinkFor(e, g) = s[at]
    BY <1>1, <2>2
  <2>. HIDE DEF at
  <2>. QED  BY <1>2, <2>2, <2>3
<1>. QED  BY <1>3, <1>4

(* The entry an OPEN uses: the listed one, else a free one, else none. *)
LEMMA EntryFound ==
  ASSUME TypeOK, NEW u
  PROVE  \/ /\ EntryFor(u) = Listed(u) /\ EntryFor(u) \in Entry
            /\ EntryFor(u) \in ToSet(list) /\ cu[EntryFor(u)] = u
            /\ Listed(u) # None
         \/ /\ EntryFor(u) \in Entry /\ csgs[EntryFor(u)] = <<>>
            /\ Listed(u) = None /\ \A e \in ToSet(list) : cu[e] # u
         \/ /\ EntryFor(u) = None /\ \A e \in Entry : csgs[e] # <<>>
            /\ Listed(u) = None
BY ListedFound, FreeEntryFound, TalkConstants DEF EntryFor

-----------------------------------------------------------------------------
(* What is sent. *)

LEMMA MessageTypes ==
  ASSUME NEW u \in CU
  PROVE  /\ Confirm(u) \in Message /\ ToCu(u) \in Message
         /\ \A type \in {"open", "close"} : ToCmu(type, u) \in Message
         /\ \A g \in Csg, type \in {"open", "close", "sound"},
               mdu \in {"own", "zero", "none"} : ToCsg(g, type, u, mdu) \in Message
BY DEF Confirm, ToCu, ToCmu, ToCsg, Message

(* Sound of a CU goes to the CSGs of the links in its list. *)
LEMMA TargetsOf ==
  ASSUME SearchInv, NEW u
  PROVE  /\ Targets(u) \in Seq(Csg)
         /\ Listed(u) = None => ToSet(Targets(u)) = {}
         /\ Listed(u) # None =>
              ToSet(Targets(u)) = {uid[csgs[Listed(u)][i]] : i \in DOMAIN csgs[Listed(u)]}
<1>1. CASE Listed(u) = None
  <2>1. Targets(u) = <<>>
    BY <1>1 DEF Targets
  <2>. QED  BY <1>1, <2>1 DEF ToSet
<1>2. CASE Listed(u) # None
  <2>. DEFINE e == Listed(u)
  <2>1. e \in Entry
    BY <1>2, ListedFound DEF SearchInv
  <2>2. csgs[e] \in Seq(Link) /\ DOMAIN csgs[e] = 1..Len(csgs[e]) /\ Len(csgs[e]) \in Nat
    BY <2>1 DEF SearchInv, TypeOK
  <2>3. \A i \in DOMAIN csgs[e] : uid[csgs[e][i]] \in Csg
    BY <2>1 DEF SearchInv, Search
  <2>4. Targets(u) = [i \in 1..Len(csgs[e]) |-> uid[csgs[e][i]]]
    BY <1>2 DEF Targets
  <2>. HIDE DEF e
  <2>5. Targets(u) \in Seq(Csg)
    BY <2>2, <2>3, <2>4
  <2>6. ToSet(Targets(u)) = {uid[csgs[e][i]] : i \in DOMAIN csgs[e]}
    BY <2>2, <2>4 DEF ToSet
  <2>. QED  BY <1>2, <2>5, <2>6 DEF e
<1>. QED  BY <1>1, <1>2

(* Each of several CUs gets one message. *)
LEMMA SoundTypes ==
  ASSUME TypeOK, IsFiniteSet(hears), NEW g \in Csg,
         NEW m \in SetToSeqs({ToCu(u) : u \in {v \in CU : <<v, g>> \in hears}})
  PROVE  m \in Seq(Message)
<1>. DEFINE U == {v \in CU : <<v, g>> \in hears}
            S == {ToCu(u) : u \in U}
            P == {h \in hears : h[2] = g}
            f == [h \in P |-> ToCu(h[1])]
<1>1. IsFiniteSet(P)
  BY FS_Subset
<1>2. hears \subseteq CU \X Csg
  BY DEF TypeOK
<1>3. f \in Surjection(P, S)
  <2>1. \A h \in P : h[1] \in U
    BY <1>2
  <2>2. f \in [P -> S]
    BY <2>1
  <2>3. ASSUME NEW t \in S PROVE \E h \in P : f[h] = t
    <3>1. PICK u \in U : t = ToCu(u)
      OBVIOUS
    <3>2. <<u, g>> \in P /\ f[<<u, g>>] = ToCu(u)
      BY <3>1
    <3>. QED  BY <3>1, <3>2
  <2>. QED  BY <2>2, <2>3 DEF Surjection
<1>4. Cardinality(S) \in Nat
  BY <1>1, <1>3, FS_Surjection, FS_CardinalityType
<1>5. S \subseteq Message
  BY MessageTypes
<1>6. m \in [1..Cardinality(S) -> S]
  BY DEF SetToSeqs
<1>. HIDE DEF S
<1>. QED  BY <1>4, <1>5, <1>6

-----------------------------------------------------------------------------
(* The handlers. *)

\* An OPEN for u that finds entry e and link l.
Linked(u, g, e, l) ==
  /\ e \in Entry /\ l \in Link
  /\ list' = Append(list, e)
  /\ cu' = [cu EXCEPT ![e] = u]
  /\ csgs' = [csgs EXCEPT ![e] = Append(csgs[e], l)]
  /\ uid' = [uid EXCEPT ![l] = g]
  /\ refCnt' = [refCnt EXCEPT ![l] = (refCnt[l] + 1) % RefRange]
  /\ \/ uid[l] = g /\ \E i \in DOMAIN csgs[e] : csgs[e][i] = l
     \/ refCnt[l] = 0

\* One that finds an entry only.
Unlinked(u, e) ==
  /\ e \in Entry
  /\ list' = Append(list, e)
  /\ cu' = [cu EXCEPT ![e] = u]
  /\ UNCHANGED <<csgs, uid, refCnt>>

\* The entry it finds.
Chosen(u, e) ==
  \/ e \in ToSet(list) /\ cu[e] = u /\ Listed(u) = e
  \/ csgs[e] = <<>> /\ Listed(u) = None /\ \A d \in ToSet(list) : cu[d] # u

(* There is room when both are found, and only then. *)
LEMMA OpenCases ==
  ASSUME SearchInv, NEW u \in CU, NEW g \in Csg, talkBackAddList(u, g)
  PROVE  \/ ~HasRoom(u, g) /\ UNCHANGED tables
         \/ ~HasRoom(u, g) /\ \E e \in Entry : Chosen(u, e) /\ Unlinked(u, e)
         \/ HasRoom(u, g) /\ \E e \in Entry, l \in Link : Chosen(u, e) /\ Linked(u, g, e, l)
<1>. DEFINE e == EntryFor(u)
            l == LinkFor(e, g)
<1>1. TypeOK
  BY DEF SearchInv
<1>2. CASE e = None
  <2>1. Listed(u) = None /\ \A d \in Entry : csgs[d] # <<>>
    BY <1>1, <1>2, EntryFound, TalkConstants
  <2>2. UNCHANGED tables
    BY <1>2 DEF talkBackAddList
  <2>. QED  BY <2>1, <2>2 DEF HasRoom
<1>3. CASE e # None
  <2>1. e \in Entry /\ Chosen(u, e)
    BY <1>1, <1>3, EntryFound DEF Chosen
  <2>2. Listed(u) # None \/ \E d \in Entry : csgs[d] = <<>>
    BY <1>1, <1>3, EntryFound
  <2>3. g \in ToSet(Targets(u)) <=> \E i \in DOMAIN csgs[e] : uid[csgs[e][i]] = g
    <3>1. CASE Listed(u) = None
      <4>1. csgs[e] = <<>>
        BY <1>1, <1>3, <3>1, EntryFound
      <4>. QED  BY <3>1, <4>1, TargetsOf
    <3>2. CASE Listed(u) # None
      <4>1. e = Listed(u)
        BY <1>1, <3>2, EntryFound DEF EntryFor
      <4>. QED  BY <3>2, <4>1, TargetsOf
    <3>. QED  BY <3>1, <3>2
  <2>. HIDE DEF e
  <2>4. CASE l = None
    <3>1. ~HasRoom(u, g)
      BY <1>1, <2>1, <2>3, <2>4, LinkFound, TalkConstants DEF HasRoom
    <3>2. Unlinked(u, e)
      BY <1>3, <2>1, <2>4 DEF talkBackAddList, Unlinked, e
    <3>. QED  BY <2>1, <3>1, <3>2
  <2>5. CASE l # None
    <3>1. /\ l \in Link
          /\ \/ uid[l] = g /\ \E i \in DOMAIN csgs[e] : csgs[e][i] = l
             \/ refCnt[l] = 0
      BY <1>1, <2>1, <2>5, LinkFound
    <3>2. HasRoom(u, g)
      BY <2>2, <2>3, <3>1 DEF HasRoom
    <3>3. Linked(u, g, e, l)
      BY <1>3, <2>1, <2>5, <3>1 DEF talkBackAddList, Linked, e
    <3>. QED  BY <2>1, <3>1, <3>2, <3>3
  <2>. QED  BY <2>4, <2>5
<1>. QED  BY <1>2, <1>3

LEMMA ListedEntries == SearchInv => ToSet(list) \subseteq Entry
BY DEF SearchInv, TypeOK, ToSet

(* One listed entry for each CU: the entry found is listed for u already,  *)
(* or is free and no other is listed for u.                                *)
LEMMA OpenOneEntry ==
  ASSUME SearchInv, NEW u \in CU, NEW e \in Entry, Chosen(u, e),
         list' = Append(list, e), cu' = [cu EXCEPT ![e] = u]
  PROVE  /\ OneEntry'
         /\ ToSet(list') = ToSet(list) \cup {e}
         /\ cu'[e] = u /\ \A d \in Entry \ {e} : cu'[d] = cu[d]
         /\ \A d \in ToSet(list) \ {e} : d \in Entry /\ cu[d] # u
<1>1. list \in Seq(Entry) /\ cu \in [Entry -> CU \cup {NoCU}]
  BY DEF SearchInv, TypeOK
<1>2. ToSet(list') = ToSet(list) \cup {e}
  BY <1>1, AppendElements
<1>3. ToSet(list) \subseteq Entry
  BY <1>1 DEF ToSet
<1>4. \A d \in ToSet(list) \ {e} : cu[d] # u
  BY DEF Chosen, SearchInv, Search, OneEntry
<1>. QED  BY <1>1, <1>2, <1>3, <1>4 DEF SearchInv, Search, OneEntry

LEMMA OpenTypes ==
  ASSUME SearchInv, NEW u \in CU, NEW g \in Csg, talkBackOpen(u, g)
  PROVE  TypeOK' /\ IsFiniteSet(hears)'
<1>1. sent' \in Seq(Message)
  BY MessageTypes DEF talkBackOpen
<1>2. hears' \subseteq CU \X Csg /\ IsFiniteSet(hears')
  <2>1. IsFiniteSet(hears \cup {<<u, g>>})
    BY FS_AddElement DEF SearchInv
  <2>2. hears' = hears \/ hears' = hears \cup {<<u, g>>}
    BY DEF talkBackOpen
  <2>3. hears \subseteq CU \X Csg /\ IsFiniteSet(hears)
    BY DEF SearchInv, TypeOK
  <2>. QED  BY <2>1, <2>2, <2>3
<1>3. opened' \in [CU -> SUBSET Csg] /\ closed' \subseteq CU /\ closes' \in 0..MaxCloses
  BY DEF talkBackOpen, SearchInv, TypeOK
<1>4. Len(list) < MaxListed /\ list \in Seq(Entry)
  BY DEF talkBackOpen, SearchInv, TypeOK
<1>5. CASE UNCHANGED tables
  BY <1>1, <1>2, <1>3, <1>5 DEF SearchInv, TypeOK, tables
<1>6. CASE \E e \in Entry : Unlinked(u, e)
  <2>1. PICK e \in Entry : Unlinked(u, e)
    BY <1>6
  <2>2. list' \in Seq(Entry) /\ Len(list') <= MaxListed
    BY <1>4, <2>1, TalkConstants DEF Unlinked
  <2>3. cu' \in [Entry -> CU \cup {NoCU}]
    BY <2>1 DEF Unlinked, SearchInv, TypeOK
  <2>. QED  BY <1>1, <1>2, <1>3, <2>1, <2>2, <2>3 DEF SearchInv, TypeOK, Unlinked
<1>7. CASE \E e \in Entry, l \in Link : Linked(u, g, e, l)
  <2>1. PICK e \in Entry, l \in Link : Linked(u, g, e, l)
    BY <1>7
  <2>2. list' \in Seq(Entry) /\ Len(list') <= MaxListed
    BY <1>4, <2>1, TalkConstants DEF Linked
  <2>3. cu' \in [Entry -> CU \cup {NoCU}] /\ uid' \in [Link -> Csg \cup {NoCsg}]
    BY <2>1 DEF Linked, SearchInv, TypeOK
  <2>4. csgs' \in [Entry -> Seq(Link)]
    BY <2>1 DEF Linked, SearchInv, TypeOK
  <2>5. refCnt' \in [Link -> 0..(RefRange - 1)]
    <3>1. (refCnt[l] + 1) % RefRange \in 0..(RefRange - 1)
      <4>1. refCnt[l] + 1 \in Int
        BY DEF SearchInv, TypeOK
      <4>. QED  BY <4>1, TalkConstants, ModRange
    <3>. QED  BY <2>1, <3>1 DEF Linked, SearchInv, TypeOK
  <2>. QED  BY <1>1, <1>2, <1>3, <2>2, <2>3, <2>4, <2>5 DEF TypeOK
<1>. QED  BY <1>5, <1>6, <1>7, OpenCases DEF talkBackOpen

LEMMA OpenSearch ==
  ASSUME SearchInv, NEW u \in CU, NEW g \in Csg, talkBackOpen(u, g)
  PROVE  SearchInv'
<1>1. TypeOK' /\ IsFiniteSet(hears)'
  BY OpenTypes
<1>2. CASE ~HasRoom(u, g) /\ UNCHANGED tables
  BY <1>1, <1>2 DEF talkBackOpen, tables, SearchInv, Search, OneEntry
<1>3. ASSUME ~HasRoom(u, g), NEW e \in Entry, Chosen(u, e), Unlinked(u, e)
      PROVE  SearchInv'
  <2>1. /\ OneEntry' /\ ToSet(list') = ToSet(list) \cup {e} /\ cu'[e] = u
        /\ \A d \in Entry \ {e} : cu'[d] = cu[d]
    BY <1>3, OpenOneEntry DEF Unlinked
  <2>2. opened' = opened
    BY <1>3 DEF talkBackOpen
  <2>3. ASSUME NEW v \in CU, opened[v] # {}
        PROVE  \E d \in ToSet(list') : cu'[d] = v /\ csgs[d] # <<>>
    <3>1. PICK d \in ToSet(list) : cu[d] = v /\ csgs[d] # <<>>
      BY <2>3 DEF SearchInv, Search
    <3>2. CASE d = e
      BY <1>3, <2>1, <3>1, <3>2 DEF Chosen
    <3>3. CASE d # e
      BY <2>1, <3>1, <3>3, ListedEntries
    <3>. QED  BY <3>2, <3>3
  <2>4. UNCHANGED <<csgs, uid>>
    BY <1>3 DEF Unlinked
  <2>. QED  BY <1>1, <2>1, <2>2, <2>3, <2>4 DEF SearchInv, Search
<1>4. ASSUME NEW e \in Entry, NEW l \in Link, Chosen(u, e), Linked(u, g, e, l)
      PROVE  SearchInv'
  <2>1. /\ OneEntry' /\ ToSet(list') = ToSet(list) \cup {e} /\ cu'[e] = u
        /\ \A d \in Entry \ {e} : cu'[d] = cu[d]
    BY <1>4, OpenOneEntry DEF Linked
  <2>2. /\ csgs[e] \in Seq(Link) /\ csgs'[e] = Append(csgs[e], l)
        /\ \A d \in Entry \ {e} : csgs'[d] = csgs[d]
    BY <1>4 DEF Linked, SearchInv, TypeOK
  <2>3. uid'[l] = g /\ \A m \in Link \ {l} : uid'[m] = uid[m]
    BY <1>4 DEF Linked, SearchInv, TypeOK
  <2>4. ASSUME NEW d \in Entry, NEW i \in DOMAIN csgs'[d]
        PROVE  uid'[csgs'[d][i]] \in Csg
    <3>1. \A j \in DOMAIN csgs[d] : csgs[d][j] \in Link /\ uid[csgs[d][j]] \in Csg
      BY DEF SearchInv, TypeOK, Search
    <3>2. csgs'[d][i] = l \/ (i \in DOMAIN csgs[d] /\ csgs'[d][i] = csgs[d][i])
      BY <2>2, AppendElements
    <3>. QED  BY <2>3, <3>1, <3>2
  <2>5. ASSUME NEW v \in CU, opened'[v] # {}
        PROVE  \E d \in ToSet(list') : cu'[d] = v /\ csgs'[d] # <<>>
    <3>1. CASE v = u
      BY <2>1, <2>2, <3>1, AppendElements
    <3>2. CASE v # u
      <4>1. opened[v] # {}
        BY <2>5, <3>2 DEF talkBackOpen, SearchInv, TypeOK
      <4>2. PICK d \in ToSet(list) : cu[d] = v /\ csgs[d] # <<>>
        BY <4>1 DEF SearchInv, Search
      <4>3. d # e /\ d \in Entry
        BY <1>4, <3>2, <4>2, ListedEntries DEF Chosen
      <4>. QED  BY <2>1, <2>2, <4>2, <4>3
    <3>. QED  BY <3>1, <3>2
  <2>. QED  BY <1>1, <2>1, <2>4, <2>5 DEF SearchInv, Search
<1>. QED  BY <1>2, <1>3, <1>4, OpenCases DEF talkBackOpen

LEMMA CloseSearch ==
  ASSUME SearchInv, NEW u \in CU, NEW g \in Csg, talkBackClose(u, g)
  PROVE  SearchInv'
<1>1. sent' \in Seq(Message)
  BY MessageTypes DEF talkBackClose
<1>2. hears' \subseteq CU \X Csg /\ IsFiniteSet(hears')
  BY FS_Subset DEF talkBackClose, SearchInv, TypeOK
<1>3. opened' \in [CU -> SUBSET Csg] /\ closed' \subseteq CU /\ closes' \in 0..MaxCloses
  BY TalkConstants DEF talkBackClose, SearchInv, TypeOK
<1>4. refCnt' \in [Link -> 0..(RefRange - 1)]
  <2>1. CASE Listed(u) = None
    BY <2>1 DEF talkBackClose, talkBackRemove, SearchInv, TypeOK
  <2>2. CASE Listed(u) # None
    <3>1. Listed(u) \in Entry
      BY <2>2, ListedFound DEF SearchInv
    <3>2. ASSUME NEW l \in Link
          PROVE  (refCnt[l] - Nodes(Listed(u), l)) % RefRange \in 0..(RefRange - 1)
      <4>1. csgs[Listed(u)] \in Seq(Link)
        BY <3>1 DEF SearchInv, TypeOK
      <4>2. Nodes(Listed(u), l) \in Nat
        BY <4>1, PositionsFinite DEF Nodes
      <4>3. refCnt[l] \in Int
        BY DEF SearchInv, TypeOK
      <4>4. refCnt[l] - Nodes(Listed(u), l) \in Int
        BY <4>2, <4>3
      <4>. QED  BY <4>4, TalkConstants, ModRange
    <3>3. refCnt' = [l \in Link |-> (refCnt[l] - Nodes(Listed(u), l)) % RefRange]
      BY <2>2 DEF talkBackClose, talkBackRemove
    <3>. QED  BY <3>2, <3>3
  <2>. QED  BY <2>1, <2>2
<1>5. UNCHANGED <<list, cu, csgs, uid>>
  BY DEF talkBackClose, talkBackRemove
<1>6. TypeOK'
  BY <1>1, <1>2, <1>3, <1>4, <1>5 DEF SearchInv, TypeOK
<1>7. \A v \in CU : opened'[v] # {} => opened[v] # {}
  BY DEF talkBackClose, SearchInv, TypeOK
<1>. QED  BY <1>2, <1>5, <1>6, <1>7 DEF SearchInv, Search, OneEntry

(* Handlers that only send. *)
LEMMA SendSearch ==
  ASSUME SearchInv,
         \/ \E u \in CU : dataSendtoCsg(u)
         \/ \E g \in Csg : mdu_datafrom_csg(g)
         \/ \E u \in CU \cup {NoCU}, type \in {"open", "close"} : sendFBToCmu(type, u)
         \/ UNCHANGED vars
  PROVE  SearchInv' /\ UNCHANGED <<tables, history>>
<1>1. UNCHANGED <<tables, hears, history>>
  BY DEF dataSendtoCsg, mdu_datafrom_csg, sendFBToCmu, vars
<1>2. sent' \in Seq(Message)
  <2>1. ASSUME NEW u \in CU, dataSendtoCsg(u) PROVE sent' \in Seq(Message)
    <3>1. Targets(u) \in Seq(Csg)
      BY TargetsOf
    <3>2. \A i \in 1..Len(Targets(u)) :
             ToCsg(Targets(u)[i], "sound", u, "none") \in Message
      BY <3>1, MessageTypes
    <3>3. sent' = [i \in 1..Len(Targets(u)) |-> ToCsg(Targets(u)[i], "sound", u, "none")]
      BY <2>1, <3>1 DEF dataSendtoCsg
    <3>. QED  BY <3>1, <3>2, <3>3
  <2>2. ASSUME NEW g \in Csg, mdu_datafrom_csg(g) PROVE sent' \in Seq(Message)
    BY <2>2, SoundTypes DEF mdu_datafrom_csg, SearchInv
  <2>3. ASSUME NEW u \in CU \cup {NoCU}, NEW type \in {"open", "close"},
               sendFBToCmu(type, u)
        PROVE  sent' \in Seq(Message)
    BY <2>3, MessageTypes DEF sendFBToCmu
  <2>4. CASE UNCHANGED vars
    BY <2>4 DEF vars, SearchInv, TypeOK
  <2>. QED  BY <2>1, <2>2, <2>3, <2>4
<1>. QED
  BY <1>1, <1>2 DEF tables, history, SearchInv, TypeOK, Search, OneEntry

LEMMA EmptySearch ==
  /\ Init => SearchInv
  /\ Restart => SearchInv'
<1>1. /\ 0 \in 0..(RefRange - 1) /\ 0 \in 0..MaxCloses /\ 0 <= MaxListed
      /\ <<>> \in Seq(Entry) /\ <<>> \in Seq(Link) /\ <<>> \in Seq(Message)
      /\ Len(<<>>) = 0 /\ DOMAIN <<>> = {} /\ IsFiniteSet({})
  BY TalkConstants, FS_EmptySet
<1>2. Init => TypeOK
  BY <1>1 DEF Init, TypeOK
<1>3. Init => IsFiniteSet(hears) /\ Search
  BY <1>1 DEF Init, Search, OneEntry, ToSet
<1>4. Restart => TypeOK'
  BY <1>1 DEF Restart, TypeOK
<1>5. Restart => IsFiniteSet(hears') /\ Search'
  BY <1>1 DEF Restart, Search, OneEntry, ToSet
<1>. QED  BY <1>2, <1>3, <1>4, <1>5 DEF SearchInv

LEMMA NextSearch == SearchInv /\ [Next]_vars => SearchInv'
BY OpenSearch, CloseSearch, SendSearch, EmptySearch DEF Next

(* The tables never leave their inductive invariant. *)
THEOREM SearchInvariant == Spec => []SearchInv
<1>1. Init => SearchInv
  BY EmptySearch
<1>. QED  BY <1>1, NextSearch, PTL DEF Spec

(* The variables have their types, for every number of entries and links.  *)
THEOREM TalkTypes == Spec => []TypeOK
<1>1. SearchInv => TypeOK
  BY DEF SearchInv
<1>. QED  BY <1>1, SearchInvariant, PTL

(* A CU has one listed entry, however often it opens and closes and        *)
(* whoever takes over entries without CSGs.                                *)
THEOREM AlwaysOneEntry == Spec => []OneEntry
<1>1. SearchInv => OneEntry
  BY DEF SearchInv, Search
<1>. QED  BY <1>1, SearchInvariant, PTL

-----------------------------------------------------------------------------
(* What a handler promises its caller. *)

\* The CSGs that the links of entry e name.
Linking(e) == {uid[csgs[e][i]] : i \in DOMAIN csgs[e]}

\* What a CU is heard by: the entry listed for it decides.
HeardByEntry ==
  \A u \in CU :
    /\ Listed(u) = None => ToSet(Targets(u)) = {} /\ \A e \in ToSet(list) : cu[e] # u
    /\ Listed(u) # None => /\ Listed(u) \in ToSet(list) /\ cu[Listed(u)] = u
                           /\ ToSet(Targets(u)) = Linking(Listed(u))
    /\ \A e \in ToSet(list) : cu[e] = u =>
         Listed(u) = e /\ e # None /\ ToSet(Targets(u)) = Linking(e)

LEMMA Hearing == SearchInv => HeardByEntry
<1>. SUFFICES
       ASSUME SearchInv, NEW u \in CU
       PROVE  /\ Listed(u) = None =>
                   ToSet(Targets(u)) = {} /\ \A e \in ToSet(list) : cu[e] # u
              /\ Listed(u) # None => /\ Listed(u) \in ToSet(list) /\ cu[Listed(u)] = u
                                     /\ ToSet(Targets(u)) = Linking(Listed(u))
              /\ \A e \in ToSet(list) : cu[e] = u =>
                   Listed(u) = e /\ e # None /\ ToSet(Targets(u)) = Linking(e)
  BY DEF HeardByEntry
<1>1. Listed(u) # None => /\ Listed(u) \in ToSet(list) /\ cu[Listed(u)] = u
                          /\ ToSet(Targets(u)) = Linking(Listed(u))
  BY TargetsOf, ListedFound DEF Linking, SearchInv
<1>2. Listed(u) = None => ToSet(Targets(u)) = {} /\ \A e \in ToSet(list) : cu[e] # u
  BY TargetsOf, ListedFound DEF SearchInv
<1>3. \A e \in ToSet(list) : cu[e] = u => Listed(u) = e /\ e # None
  BY ListedOnly, ListedEntries, TalkConstants DEF SearchInv, Search
<1>. QED  BY <1>1, <1>2, <1>3

LEMMA HearingNext == SearchInv' => HeardByEntry'
BY Hearing, PTL

LEMMA OpenIsHeard ==
  ASSUME SearchInv, NEW u \in CU, NEW g \in Csg, talkBackOpen(u, g), HasRoom(u, g)
  PROVE  g \in ToSet(Targets(u)')
<1>1. PICK e \in Entry, l \in Link : Chosen(u, e) /\ Linked(u, g, e, l)
  BY OpenCases DEF talkBackOpen
<1>2. SearchInv' /\ e \in ToSet(list') /\ cu'[e] = u
  <2>1. ToSet(list') = ToSet(list) \cup {e} /\ cu'[e] = u
    BY <1>1, OpenOneEntry DEF Linked
  <2>. QED  BY <2>1, OpenSearch
<1>3. csgs'[e] = Append(csgs[e], l) /\ csgs[e] \in Seq(Link) /\ uid'[l] = g
  BY <1>1 DEF Linked, SearchInv, TypeOK
<1>4. g \in Linking(e)'
  BY <1>3, AppendElements DEF Linking
<1>. QED  BY <1>2, <1>4, HearingNext DEF HeardByEntry

LEMMA CloseIsSent ==
  ASSUME SearchInv, NEW u \in CU, NEW g \in Csg, talkBackClose(u, g), g \in opened[u]
  PROVE  \E i \in DOMAIN sent' : sent'[i].to = g
<1>1. Listed(u) # None
  BY ListedFound DEF SearchInv, Search
<1>2. sent' = <<Confirm(u), ToCsg(g, "close", u, "zero")>>
  BY <1>1 DEF talkBackClose
<1>3. 2 \in DOMAIN sent' /\ sent'[2].to = g
  BY <1>2 DEF ToCsg
<1>. QED  BY <1>3

(* While there is room an OPEN lets the CU be heard by the CSG it named,   *)
(* whatever was opened and closed before (talkBackAddList, dataSendtoCsg). *)
THEOREM OpenAlwaysHeard == Spec => OpenHeard
<1>1. SearchInv /\ [Next]_vars =>
        [\A u \in CU, g \in Csg :
           talkBackOpen(u, g) /\ HasRoom(u, g) => g \in ToSet(Targets(u)')]_vars
  BY OpenIsHeard
<1>. QED  BY <1>1, SearchInvariant, PTL DEF Spec, OpenHeard

(* The CLOSE of a conversation for which there was room is sent on to its  *)
(* CSG, whoever took over free entries since (talkBackClose).              *)
THEOREM CloseAlwaysSent == Spec => CloseSent
<1>1. SearchInv /\ [Next]_vars =>
        [\A u \in CU, g \in Csg :
           talkBackClose(u, g) /\ g \in opened[u] =>
             \E i \in DOMAIN sent' : sent'[i].to = g]_vars
  BY CloseIsSent
<1>. QED  BY <1>1, SearchInvariant, PTL DEF Spec, CloseSent

-----------------------------------------------------------------------------
(* The reference counts, as long as the list has at most as many nodes as  *)
(* a count has values.                                                     *)

LEMMA CountedFinite ==
  ASSUME HeldListed, NEW d, NEW k, NEW l
  PROVE  /\ IsFiniteSet(Counted(d, k, l))
         /\ Cardinality(Counted(d, k, l)) \in Nat
         /\ Cardinality(Counted(d, k, l)) <= Cardinality(Held)
         /\ Cardinality(Held) \in Nat
<1>1. Counted(d, k, l) \subseteq Held
  BY DEF Counted
<1>. QED  BY <1>1, FS_Subset, FS_CardinalityType DEF HeldListed

\* The node that an OPEN appends to the list of entry e.
NewNode(e) == <<e, Len(csgs[e]) + 1>>

(* An OPEN adds the last node of its list. *)
LEMMA HeldAfterOpen ==
  ASSUME SearchInv, NEW u, NEW g, NEW e, NEW l, Linked(u, g, e, l)
  PROVE  /\ NewNode(e) \notin Held /\ Held' = Held \cup {NewNode(e)}
         /\ csgs'[e][Len(csgs[e]) + 1] = l
         /\ \A m \in Held : csgs'[m[1]][m[2]] = csgs[m[1]][m[2]]
         /\ Len(csgs[e]) \in Nat /\ Len(list') = Len(list) + 1 /\ Len(list) \in Nat
<1>. DEFINE n == <<e, Len(csgs[e]) + 1>>
<1>1. /\ e \in Entry /\ l \in Link /\ csgs[e] \in Seq(Link)
      /\ csgs'[e] = Append(csgs[e], l) /\ \A d \in Entry \ {e} : csgs'[d] = csgs[d]
      /\ list' = Append(list, e) /\ list \in Seq(Entry)
  BY DEF Linked, SearchInv, TypeOK
<1>2. /\ Len(csgs[e]) \in Nat /\ DOMAIN csgs[e] = 1..Len(csgs[e])
      /\ DOMAIN csgs'[e] = DOMAIN csgs[e] \cup {Len(csgs[e]) + 1}
      /\ csgs'[e][Len(csgs[e]) + 1] = l
      /\ \A i \in DOMAIN csgs[e] : csgs'[e][i] = csgs[e][i]
  BY <1>1, AppendElements
<1>3. n \in Entry \X Nat /\ n[1] = e /\ n[2] = Len(csgs[e]) + 1
  BY <1>1, <1>2
<1>4. n \notin Held /\ Held' = Held \cup {n}
  <2>1. n \notin Held
    BY <1>2, <1>3 DEF Held
  <2>2. ASSUME NEW m \in Entry \X Nat
        PROVE  m[2] \in DOMAIN csgs'[m[1]] <=> m[2] \in DOMAIN csgs[m[1]] \/ m = n
    BY <1>1, <1>2
  <2>3. Held' = {m \in Entry \X Nat : m[2] \in DOMAIN csgs'[m[1]]}
    BY DEF Held
  <2>. QED  BY <1>3, <2>1, <2>2, <2>3 DEF Held
<1>5. \A m \in Held : csgs'[m[1]][m[2]] = csgs[m[1]][m[2]]
  BY <1>1, <1>2 DEF Held
<1>6. Len(list') = Len(list) + 1 /\ Len(list) \in Nat
  BY <1>1, AppendElements
<1>. QED  BY <1>2, <1>4, <1>5, <1>6 DEF NewNode

LEMMA ListedAfterOpen ==
  ASSUME SearchInv, HeldListed, NEW u, NEW g, NEW e, NEW l, Linked(u, g, e, l)
  PROVE  HeldListed'
<1>1. /\ IsFiniteSet(Held \cup {NewNode(e)})
      /\ Cardinality(Held \cup {NewNode(e)}) = Cardinality(Held) + 1
  BY HeldAfterOpen, FS_AddElement DEF HeldListed
<1>2. Cardinality(Held) \in Nat
  BY FS_CardinalityType DEF HeldListed
<1>3. Held' = Held \cup {NewNode(e)} /\ Len(list') = Len(list) + 1 /\ Len(list) \in Nat
  BY HeldAfterOpen
<1>4. Cardinality(Held) <= Len(list)
  BY DEF HeldListed
<1>. DEFINE S == Held \cup {NewNode(e)}
<1>5. IsFiniteSet(S) /\ Cardinality(S) <= Len(list')
  BY <1>1, <1>2, <1>3, <1>4
<1>. HIDE DEF S
<1>6. Held' = S
  BY <1>3 DEF S
<1>. QED  BY <1>5, <1>6 DEF HeldListed

(* It counts for its link, whatever was released before. *)
LEMMA CountedAfterOpen ==
  ASSUME SearchInv, NEW u, NEW g, NEW e, NEW l, Linked(u, g, e, l),
         NEW d \in Entry, NEW k \in Nat, NEW m \in Link, k <= Len(csgs[d])
  PROVE  Counted(d, k, m)' = IF m = l THEN Counted(d, k, m) \cup {NewNode(e)}
                                      ELSE Counted(d, k, m)
<1>. DEFINE n == NewNode(e)
<1>1. /\ n \notin Held /\ Held' = Held \cup {n}
      /\ csgs'[e][Len(csgs[e]) + 1] = l
      /\ \A x \in Held : csgs'[x[1]][x[2]] = csgs[x[1]][x[2]]
      /\ Len(csgs[e]) \in Nat
  BY HeldAfterOpen
<1>2. n[1] = e /\ n[2] = Len(csgs[e]) + 1
  BY DEF NewNode
<1>. HIDE DEF n
<1>3. n[1] = d => n[2] > k
  BY <1>1, <1>2
<1>4. csgs'[n[1]][n[2]] = l
  BY <1>1, <1>2
<1>5. Counted(d, k, m)' =
        {x \in Held' : csgs'[x[1]][x[2]] = m /\ (x[1] = d => x[2] > k)}
  BY DEF Counted
<1>6. Counted(d, k, m)' = IF m = l THEN Counted(d, k, m) \cup {n} ELSE Counted(d, k, m)
  BY <1>1, <1>3, <1>4, <1>5 DEF Counted
<1>. QED  BY <1>6 DEF n

\* What is released belongs to a CU that has closed.
Released(d, k) == k > 0 => cu[d] \in closed /\ k <= Len(csgs[d])

(* A link that an OPEN finds free is used by released nodes only, so it    *)
(* keeps its CSG for every CU that has closed nothing.                     *)
LEMMA LinksKept ==
  ASSUME SearchInv, HeldListed, MaxListed <= RefRange, Len(list) < MaxListed,
         NEW d \in Entry, NEW k \in Nat, Counts(d, k),
         NEW u, NEW g, NEW e, NEW l, Linked(u, g, e, l),
         NEW c \in Entry, cu[c] \notin closed
  PROVE  \A i \in DOMAIN csgs[c] : uid'[csgs[c][i]] = uid[csgs[c][i]]
<1>. SUFFICES ASSUME NEW i \in DOMAIN csgs[c]
              PROVE  uid'[csgs[c][i]] = uid[csgs[c][i]]
  OBVIOUS
<1>1. l \in Link /\ uid' = [uid EXCEPT ![l] = g] /\ uid \in [Link -> Csg \cup {NoCsg}]
  BY DEF Linked, SearchInv, TypeOK
<1>2. csgs[c] \in Seq(Link) /\ i \in Nat /\ csgs[c][i] \in Link
  BY DEF SearchInv, TypeOK
<1>3. CASE uid[l] = g
  BY <1>1, <1>2, <1>3
<1>4. CASE refCnt[l] = 0
  <2>. DEFINE n == Cardinality(Counted(d, k, l))
  <2>1. Len(list) \in Nat
    BY DEF SearchInv, TypeOK
  <2>2. n \in Nat /\ n < RefRange
    BY <2>1, CountedFinite, TalkConstants DEF HeldListed
  <2>3. n % RefRange = 0
    BY <1>1, <1>4 DEF Counts
  <2>. HIDE DEF n
  <2>4. n = 0
    BY <2>2, <2>3, ModSmall, TalkConstants
  <2>5. Counted(d, k, l) = {}
    BY <2>4, CountedFinite, FS_EmptySet DEF n
  <2>6. csgs[c][i] # l
    <3>1. SUFFICES ASSUME csgs[c][i] = l PROVE FALSE
      OBVIOUS
    <3>2. <<c, i>> \in Held
      BY <1>2 DEF Held
    <3>3. c = d /\ ~(i > k)
      BY <2>5, <3>1, <3>2 DEF Counted
    <3>4. k > 0
      BY <1>2, <3>3 DEF SearchInv, TypeOK
    <3>. QED  BY <3>3, <3>4 DEF Counts
  <2>. QED  BY <1>1, <1>2, <2>6
<1>. QED  BY <1>3, <1>4 DEF Linked

LEMMA OpenCounts ==
  ASSUME SearchInv, HeldListed, MaxListed <= RefRange, Len(list) < MaxListed,
         NEW d \in Entry, NEW k \in Nat, Counts(d, k),
         NEW u \in CU, NEW g, NEW e, NEW l, Chosen(u, e), Linked(u, g, e, l),
         UNCHANGED <<closed, closes>>
  PROVE  Counts(d, k)'
<1>1. k <= Len(csgs[d])
  BY DEF Counts, SearchInv, TypeOK
<1>2. k > 0 => cu'[d] \in closed /\ k <= Len(csgs'[d])
  <2>. SUFFICES ASSUME k > 0 PROVE cu'[d] \in closed /\ k <= Len(csgs'[d])
    OBVIOUS
  <2>1. cu[d] \in closed /\ csgs[d] \in Seq(Link) /\ csgs[d] # <<>>
    BY <1>1 DEF Counts, SearchInv, TypeOK
  <2>2. e \in Entry /\ csgs' = [csgs EXCEPT ![e] = Append(csgs[e], l)]
        /\ cu' = [cu EXCEPT ![e] = u]
    BY DEF Linked
  <2>3. cu'[d] = cu[d]
    BY <2>1, <2>2 DEF Chosen, SearchInv, TypeOK
  <2>4. Len(csgs'[d]) >= Len(csgs[d])
    BY <2>1, <2>2, AppendElements DEF SearchInv, TypeOK
  <2>. QED  BY <1>1, <2>1, <2>3, <2>4 DEF SearchInv, TypeOK
<1>3. ASSUME NEW m \in Link
      PROVE  refCnt'[m] = Cardinality(Counted(d, k, m)') % RefRange
  <2>. DEFINE n == NewNode(e)
              c == Cardinality(Counted(d, k, m))
  <2>1. Counted(d, k, m)' = IF m = l THEN Counted(d, k, m) \cup {n}
                                     ELSE Counted(d, k, m)
    BY <1>1, CountedAfterOpen
  <2>2. n \notin Counted(d, k, m)
    BY HeldAfterOpen DEF Counted
  <2>3. refCnt[m] = c % RefRange
    BY DEF Counts
  <2>4. l \in Link /\ refCnt' = [refCnt EXCEPT ![l] = (refCnt[l] + 1) % RefRange]
        /\ refCnt \in [Link -> 0..(RefRange - 1)]
    BY DEF Linked, SearchInv, TypeOK
  <2>5. CASE m # l
    BY <2>1, <2>3, <2>4, <2>5
  <2>6. CASE m = l
    <3>1. Cardinality(Counted(d, k, m) \cup {n}) = c + 1
      BY <2>2, CountedFinite, FS_AddElement
    <3>2. Len(list) \in Nat
      BY DEF SearchInv, TypeOK
    <3>3. c \in 0..(RefRange - 1)
      BY <3>2, CountedFinite, TalkConstants DEF HeldListed
    <3>. HIDE DEF c, n
    <3>4. c % RefRange = c
      BY <3>3, ModSmall, TalkConstants
    <3>5. refCnt'[m] = (c + 1) % RefRange
      BY <2>3, <2>4, <2>6, <3>4
    <3>. QED  BY <2>1, <2>6, <3>1, <3>5
  <2>. QED  BY <2>5, <2>6
<1>. QED  BY <1>2, <1>3 DEF Counts

(* The first CLOSE releases the nodes of its CU, and no other node.        *)
LEMMA CloseCounts ==
  ASSUME SearchInv, HeldListed, MaxListed <= RefRange,
         NEW d \in Entry, Counts(d, 0),
         NEW u \in CU, Listed(u) # None, talkBackRemove(u),
         closed' = closed \cup {u}, closes' # 0
  PROVE  \E e \in Entry, k \in Nat : Counts(e, k)'
<1>1. PICK e \in Entry, k \in Nat :
           /\ e = Listed(u) /\ cu[e] = u
           /\ csgs[e] \in Seq(Link) /\ k = Len(csgs[e]) /\ DOMAIN csgs[e] = 1..k
  BY ListedFound DEF SearchInv, TypeOK
<1>2. /\ UNCHANGED <<list, cu, csgs, uid>>
      /\ refCnt' = [l \in Link |-> (refCnt[l] - Nodes(e, l)) % RefRange]
  BY <1>1 DEF talkBackRemove
<1>3. ASSUME NEW l \in Link
      PROVE  refCnt'[l] = Cardinality(Counted(e, k, l)') % RefRange
  <2>. DEFINE S == Counted(d, 0, l)
              I == {i \in DOMAIN csgs[e] : csgs[e][i] = l}
              P == {x \in Held : csgs[x[1]][x[2]] = l /\ x[1] = e}
              f == [i \in I |-> <<e, i>>]
  <2>1. S = {x \in Held : csgs[x[1]][x[2]] = l}
    <3>1. \A x \in Held : x[2] > 0
      BY DEF Held, SearchInv, TypeOK
    <3>. QED  BY <3>1 DEF Counted
  <2>2. Counted(e, k, l)' = S \ P
    <3>1. Counted(e, k, l)' = {x \in Held : csgs[x[1]][x[2]] = l /\ (x[1] = e => x[2] > k)}
      BY <1>2 DEF Counted, Held
    <3>2. \A x \in Held : x[1] = e => ~(x[2] > k)
      BY <1>1 DEF Held
    <3>. QED  BY <2>1, <3>1, <3>2
  <2>3. IsFiniteSet(S) /\ IsFiniteSet(I) /\ P \subseteq S
    BY <1>1, <2>1, CountedFinite, PositionsFinite
  <2>4. f \in Bijection(I, P)
    <3>1. f \in [I -> P]
      BY <1>1 DEF Held
    <3>2. \A i, j \in I : f[i] = f[j] => i = j
      OBVIOUS
    <3>3. ASSUME NEW x \in P PROVE \E i \in I : f[i] = x
      <4>1. x[2] \in I /\ x = <<e, x[2]>>
        BY DEF Held
      <4>. QED  BY <4>1
    <3>4. IsInjective(f)
      BY <3>1, <3>2 DEF IsInjective
    <3>. QED  BY <3>1, <3>3, <3>4 DEF Bijection, Injection, Surjection
  <2>5. Cardinality(P) = Nodes(e, l) /\ IsFiniteSet(P)
    BY <2>3, <2>4, FS_Bijection DEF Nodes, ExistsBijection
  <2>6. Cardinality(S \ P) = Cardinality(S) - Cardinality(S \cap P)
    BY <2>3, FS_Difference
  <2>7. S \cap P = P
    BY <2>3
  <2>8. Cardinality(P) \in Nat /\ Cardinality(P) <= Cardinality(S)
    BY <2>3, <2>5, FS_Subset, FS_CardinalityType
  <2>9. Cardinality(S) \in 0..RefRange
    BY CountedFinite, TalkConstants DEF HeldListed, SearchInv, TypeOK
  <2>10. refCnt[l] = Cardinality(S) % RefRange
    BY DEF Counts
  <2>. HIDE DEF S, P
  <2>11. Cardinality(P) \in 0..Cardinality(S)
    BY <2>8, <2>9
  <2>12. ((Cardinality(S) % RefRange) - Cardinality(P)) % RefRange
           = (Cardinality(S) - Cardinality(P)) % RefRange
    BY <2>9, <2>11, ModMinus, TalkConstants
  <2>. QED  BY <1>2, <2>2, <2>5, <2>6, <2>7, <2>10, <2>12
<1>4. k > 0 => cu'[e] \in closed' /\ k <= Len(csgs'[e])
  BY <1>1, <1>2
<1>5. Counts(e, k)'
  BY <1>3, <1>4 DEF Counts
<1>. QED  BY <1>5


-----------------------------------------------------------------------------
(* Who is heard, as long as at most one CLOSE has released links. *)

LEMMA SameHeard ==
  ASSUME UNCHANGED <<list, cu, csgs, uid>>, NEW v
  PROVE  ToSet(Targets(v))' = ToSet(Targets(v))
<1>1. Listed(v)' = Listed(v)
  BY DEF Listed, SelectInSeq
<1>. QED  BY <1>1 DEF Targets

(* A CU that takes over an entry takes it from one that nobody hears. *)
LEMMA AddedUndisturbed ==
  ASSUME SearchInv, SearchInv', Undisturbed,
         NEW u \in CU, NEW e \in Entry, NEW X, Chosen(u, e),
         list' = Append(list, e), cu' = [cu EXCEPT ![e] = u], closed' = closed,
         opened' = [opened EXCEPT ![u] = opened[u] \cup X],
         \A d \in Entry \ {e} :
           csgs'[d] = csgs[d]
           /\ (cu[d] \notin closed =>
                 \A i \in DOMAIN csgs[d] : uid'[csgs[d][i]] = uid[csgs[d][i]]),
         u \notin closed => Linking(e)' = Linking(e) \cup X
  PROVE  Undisturbed'
<1>1. /\ ToSet(list') = ToSet(list) \cup {e}
      /\ cu'[e] = u /\ \A d \in Entry \ {e} : cu'[d] = cu[d]
      /\ \A d \in ToSet(list) \ {e} : d \in Entry /\ cu[d] # u
  BY OpenOneEntry
<1>2. HeardByEntry /\ HeardByEntry'
  BY Hearing, HearingNext
<1>3. SUFFICES ASSUME NEW v \in CU, v \notin closed
               PROVE  ToSet(Targets(v))' = opened'[v]
  BY DEF Undisturbed
<1>4. ToSet(Targets(v)) = opened[v] /\ opened \in [CU -> SUBSET Csg]
  BY <1>3 DEF Undisturbed, SearchInv, TypeOK
<1>5. CASE v = u
  <2>1. ToSet(Targets(u))' = Linking(e)'
    BY <1>1, <1>2 DEF HeardByEntry
  <2>2. Linking(e) = opened[u]
    <3>1. CASE e \in ToSet(list) /\ cu[e] = u
      BY <1>2, <1>4, <1>5, <3>1 DEF HeardByEntry
    <3>2. CASE csgs[e] = <<>> /\ Listed(u) = None
      <4>1. Linking(e) = {}
        BY <3>2 DEF Linking
      <4>. QED  BY <1>2, <1>4, <1>5, <3>2, <4>1 DEF HeardByEntry
    <3>. QED  BY <3>1, <3>2 DEF Chosen
  <2>. QED  BY <1>3, <1>4, <1>5, <2>1, <2>2
<1>6. CASE v # u
  <2>1. opened'[v] = opened[v]
    BY <1>4, <1>6
  <2>2. CASE \E d \in ToSet(list) \ {e} : cu[d] = v
    <3>1. PICK d \in ToSet(list) \ {e} : cu[d] = v
      BY <2>2
    <3>2. d \in Entry /\ d \in ToSet(list') /\ cu'[d] = v
      BY <1>1, <3>1
    <3>3. ToSet(Targets(v))' = Linking(d)' /\ ToSet(Targets(v)) = Linking(d)
      BY <1>2, <3>1, <3>2 DEF HeardByEntry
    <3>4. Linking(d)' = Linking(d)
      BY <1>3, <3>1, <3>2 DEF Linking
    <3>. QED  BY <1>4, <2>1, <3>3, <3>4
  <2>3. CASE \A d \in ToSet(list) \ {e} : cu[d] # v
    <3>1. \A d \in ToSet(list') : cu'[d] # v
      BY <1>1, <1>6, <2>3
    <3>2. ToSet(Targets(v))' = {}
      BY <1>2, <3>1 DEF HeardByEntry
    <3>3. ToSet(Targets(v)) = {}
      <4>1. CASE e \in ToSet(list) /\ cu[e] = v
        <5>1. csgs[e] = <<>>
          BY <1>6, <4>1 DEF Chosen
        <5>2. Linking(e) = {}
          BY <5>1 DEF Linking
        <5>. QED  BY <1>2, <4>1, <5>2 DEF HeardByEntry
      <4>2. CASE ~(e \in ToSet(list) /\ cu[e] = v)
        BY <1>2, <2>3, <4>2 DEF HeardByEntry
      <4>. QED  BY <4>1, <4>2
    <3>. QED  BY <1>4, <2>1, <3>2, <3>3
  <2>. QED  BY <2>2, <2>3
<1>. QED  BY <1>5, <1>6

LEMMA OpenUndisturbed ==
  ASSUME SearchInv, HeldListed, MaxListed <= RefRange, Undisturbed,
         NEW d \in Entry, NEW k \in Nat, Counts(d, k),
         NEW u \in CU, NEW g \in Csg, talkBackOpen(u, g)
  PROVE  Undisturbed'
<1>1. SearchInv' /\ closed' = closed /\ Len(list) < MaxListed
  BY OpenSearch DEF talkBackOpen
<1>2. opened \in [CU -> SUBSET Csg]
  BY DEF SearchInv, TypeOK
<1>3. CASE ~HasRoom(u, g) /\ UNCHANGED tables
  <2>1. opened' = opened
    BY <1>3 DEF talkBackOpen
  <2>. QED  BY <1>1, <1>3, <2>1, SameHeard DEF Undisturbed, tables
<1>4. ASSUME ~HasRoom(u, g), NEW e \in Entry, Chosen(u, e), Unlinked(u, e)
      PROVE  Undisturbed'
  <2>. DEFINE X == {}
  <2>1. opened' = [opened EXCEPT ![u] = opened[u] \cup X]
    BY <1>2, <1>4 DEF talkBackOpen
  <2>2. Linking(e)' = Linking(e) \cup X
    BY <1>4 DEF Unlinked, Linking
  <2>. HIDE DEF X
  <2>. QED  BY <1>1, <1>4, <2>1, <2>2, AddedUndisturbed DEF Unlinked
<1>5. ASSUME HasRoom(u, g), NEW e \in Entry, NEW l \in Link,
             Chosen(u, e), Linked(u, g, e, l)
      PROVE  Undisturbed'
  <2>. DEFINE X == {g}
  <2>1. opened' = [opened EXCEPT ![u] = opened[u] \cup X]
    BY <1>2, <1>5 DEF talkBackOpen
  <2>2. /\ csgs[e] \in Seq(Link) /\ csgs'[e] = Append(csgs[e], l)
        /\ \A c \in Entry \ {e} : csgs'[c] = csgs[c]
        /\ uid'[l] = g
    BY <1>5 DEF Linked, SearchInv, TypeOK
  <2>3. \A c \in Entry : cu[c] \notin closed =>
          \A i \in DOMAIN csgs[c] : uid'[csgs[c][i]] = uid[csgs[c][i]]
    BY <1>1, <1>5, LinksKept
  <2>4. ASSUME u \notin closed PROVE Linking(e)' = Linking(e) \cup X
    <3>1. \A i \in DOMAIN csgs[e] : uid'[csgs[e][i]] = uid[csgs[e][i]]
      BY <1>5, <2>3, <2>4 DEF Chosen
    <3>2. /\ DOMAIN csgs'[e] = DOMAIN csgs[e] \cup {Len(csgs[e]) + 1}
          /\ \A i \in DOMAIN csgs[e] : csgs'[e][i] = csgs[e][i]
          /\ csgs'[e][Len(csgs[e]) + 1] = l
      BY <2>2, AppendElements
    <3>3. Linking(e)' = {uid'[csgs'[e][i]] : i \in DOMAIN csgs'[e]}
      BY DEF Linking
    <3>. QED  BY <2>2, <3>1, <3>2, <3>3 DEF Linking
  <2>. HIDE DEF X
  <2>5. list' = Append(list, e) /\ cu' = [cu EXCEPT ![e] = u]
    BY <1>5 DEF Linked
  <2>. QED  BY <1>1, <1>5, <2>1, <2>2, <2>3, <2>4, <2>5, AddedUndisturbed
<1>. QED  BY <1>3, <1>4, <1>5, OpenCases DEF talkBackOpen


(* One that finds no link leaves the counts as they are. *)
LEMMA UnlinkedCounts ==
  ASSUME SearchInv, NEW d \in Entry, NEW k \in Nat, Counts(d, k),
         NEW u \in CU, NEW e, Chosen(u, e), Unlinked(u, e),
         UNCHANGED <<closed, closes>>
  PROVE  Counts(d, k)'
<1>1. \A l \in Link : Counted(d, k, l)' = Counted(d, k, l) /\ refCnt'[l] = refCnt[l]
  BY DEF Unlinked, Counted, Held
<1>2. k > 0 => cu'[d] = cu[d]
  <2>. SUFFICES ASSUME k > 0 PROVE cu'[d] = cu[d]
    OBVIOUS
  <2>1. k <= Len(csgs[d]) /\ cu[d] \in closed /\ csgs[d] # <<>>
    BY DEF Counts
  <2>. QED  BY <2>1 DEF Chosen, Unlinked, SearchInv, TypeOK
<1>. QED  BY <1>1, <1>2 DEF Counts, Unlinked

LEMMA OpenCountInv ==
  ASSUME CountInv, MaxListed <= RefRange,
         NEW u \in CU, NEW g \in Csg, talkBackOpen(u, g)
  PROVE  CountInv'
<1>1. SearchInv' /\ UNCHANGED <<closed, closes>> /\ Len(list) < MaxListed
  BY OpenSearch DEF CountInv, talkBackOpen
<1>2. SearchInv /\ HeldListed
  BY DEF CountInv
<1>3. HeldListed'
  <2>1. CASE UNCHANGED tables
    BY <1>2, <2>1 DEF HeldListed, Held, tables
  <2>2. ASSUME NEW e \in Entry, Unlinked(u, e) PROVE HeldListed'
    <3>1. Held' = Held /\ Len(list') = Len(list) + 1 /\ Len(list) \in Nat
      BY <1>2, <2>2 DEF Unlinked, Held, SearchInv, TypeOK
    <3>2. Cardinality(Held) \in Nat
      BY <1>2, FS_CardinalityType DEF HeldListed
    <3>. QED  BY <1>2, <3>1, <3>2 DEF HeldListed
  <2>3. ASSUME NEW e \in Entry, NEW l \in Link, Linked(u, g, e, l) PROVE HeldListed'
    BY <1>2, <2>3, ListedAfterOpen
  <2>. QED  BY <1>2, <2>1, <2>2, <2>3, OpenCases DEF talkBackOpen
<1>4. SUFFICES ASSUME closes <= 1
               PROVE  Undisturbed' /\ \E e \in Entry, k \in Nat : Counts(e, k)'
  BY <1>1, <1>3 DEF CountInv
<1>5. PICK d \in Entry, k \in Nat : Counts(d, k)
  BY <1>4 DEF CountInv
<1>6. Undisturbed'
  BY <1>2, <1>4, <1>5, OpenUndisturbed DEF CountInv
<1>7. Counts(d, k)'
  <2>1. CASE UNCHANGED tables
    <3>1. \A l \in Link : Counted(d, k, l)' = Counted(d, k, l) /\ refCnt'[l] = refCnt[l]
      BY <2>1 DEF tables, Counted, Held
    <3>. QED  BY <1>1, <1>5, <2>1, <3>1 DEF Counts, tables
  <2>2. ASSUME NEW e \in Entry, Chosen(u, e), Unlinked(u, e) PROVE Counts(d, k)'
    BY <1>1, <1>2, <1>5, <2>2, UnlinkedCounts
  <2>3. ASSUME NEW e \in Entry, NEW l \in Link, Chosen(u, e), Linked(u, g, e, l)
        PROVE  Counts(d, k)'
    BY <1>1, <1>2, <1>5, <2>3, OpenCounts
  <2>. QED  BY <1>2, <2>1, <2>2, <2>3, OpenCases DEF talkBackOpen
<1>. QED  BY <1>5, <1>6, <1>7

LEMMA CloseCountInv ==
  ASSUME CountInv, MaxListed <= RefRange,
         NEW u \in CU, NEW g \in Csg, talkBackClose(u, g)
  PROVE  CountInv'
<1>1. /\ SearchInv' /\ UNCHANGED <<list, cu, csgs, uid>>
      /\ closed' = closed \cup {u} /\ closes' = closes + 1
      /\ opened' = [opened EXCEPT ![u] = opened[u] \ {g}] /\ talkBackRemove(u)
  BY CloseSearch DEF CountInv, talkBackClose, talkBackRemove
<1>2. SearchInv /\ HeldListed /\ closes \in Nat
  BY DEF CountInv, SearchInv, TypeOK
<1>3. HeldListed'
  BY <1>1, <1>2 DEF HeldListed, Held
<1>4. SUFFICES ASSUME closes = 0
               PROVE  Undisturbed' /\ \E e \in Entry, k \in Nat : Counts(e, k)'
  BY <1>1, <1>2, <1>3 DEF CountInv
<1>5. PICK d \in Entry : Counts(d, 0)
  BY <1>4 DEF CountInv, Counts
<1>6. Undisturbed'
  <2>1. \A v \in CU \ closed : ToSet(Targets(v)) = opened[v]
    BY <1>4 DEF CountInv, Undisturbed
  <2>2. SUFFICES ASSUME NEW v \in CU, v \notin closed'
                 PROVE  ToSet(Targets(v))' = opened'[v]
    BY DEF Undisturbed
  <2>3. opened'[v] = opened[v]
    BY <1>1, <1>2, <2>2 DEF SearchInv, TypeOK
  <2>. QED  BY <1>1, <2>1, <2>2, <2>3, SameHeard
<1>7. \E e \in Entry, k \in Nat : Counts(e, k)'
  <2>1. CASE Listed(u) = None
    <3>1. refCnt' = refCnt
      BY <1>1, <2>1 DEF talkBackRemove
    <3>2. \A l \in Link : Counted(d, 0, l)' = Counted(d, 0, l)
      BY <1>1 DEF Counted, Held
    <3>3. Counts(d, 0)'
      BY <1>5, <3>1, <3>2 DEF Counts
    <3>. QED  BY <3>3
  <2>2. CASE Listed(u) # None
    BY <1>1, <1>2, <1>4, <1>5, <2>2, CloseCounts
  <2>. QED  BY <2>1, <2>2
<1>. QED  BY <1>6, <1>7

LEMMA SameCountInv ==
  ASSUME CountInv, SearchInv', UNCHANGED <<tables, history>>
  PROVE  CountInv'
<1>1. HeldListed'
  BY DEF CountInv, HeldListed, Held, tables
<1>2. SUFFICES ASSUME closes <= 1
               PROVE  Undisturbed' /\ \E e \in Entry, k \in Nat : Counts(e, k)'
  BY <1>1 DEF CountInv, history
<1>3. PICK d \in Entry, k \in Nat : Counts(d, k)
  BY <1>2 DEF CountInv
<1>4. Counts(d, k)'
  <2>1. \A l \in Link : Counted(d, k, l)' = Counted(d, k, l)
    BY DEF tables, Counted, Held
  <2>. QED  BY <1>3, <2>1 DEF Counts, tables, history
<1>5. Undisturbed'
  BY <1>2, SameHeard DEF CountInv, Undisturbed, tables, history
<1>. QED  BY <1>4, <1>5

LEMMA EmptyCountInv ==
  /\ Init => CountInv
  /\ Restart => CountInv'
<1>1. 1 \in Entry /\ 0 % RefRange = 0 /\ 0 \in 0..(RefRange - 1)
  BY TalkConstants, ModSmall DEF Entry
<1>2. ASSUME Init PROVE CountInv
  <2>1. SearchInv
    BY <1>2, EmptySearch
  <2>2. Held = {} /\ Len(list) = 0
    BY <1>2 DEF Init, Held
  <2>3. HeldListed
    BY <2>2, FS_EmptySet DEF HeldListed
  <2>4. \A l \in Link : Counted(1, 0, l) = {}
    BY <2>2 DEF Counted
  <2>5. Counts(1, 0)
    <3>1. \A l \in Link : Cardinality(Counted(1, 0, l)) = 0
      BY <2>4, FS_EmptySet
    <3>2. \A l \in Link : refCnt[l] = 0
      BY <1>2 DEF Init
    <3>3. \A l \in Link : refCnt[l] = Cardinality(Counted(1, 0, l)) % RefRange
      BY <1>1, <3>1, <3>2
    <3>. QED  BY <3>3 DEF Counts
  <2>6. HeardByEntry
    BY <2>1, Hearing
  <2>7. Undisturbed
    BY <1>2, <2>6 DEF HeardByEntry, Undisturbed, Init, ToSet
  <2>. QED  BY <1>1, <2>1, <2>3, <2>5, <2>7 DEF CountInv
<1>3. ASSUME Restart PROVE CountInv'
  <2>1. SearchInv'
    BY <1>3, EmptySearch
  <2>2. Held' = {} /\ Len(list') = 0
    BY <1>3 DEF Restart, Held
  <2>3. HeldListed'
    BY <2>2, FS_EmptySet DEF HeldListed
  <2>4. \A l \in Link : Counted(1, 0, l)' = {}
    BY <2>2 DEF Counted
  <2>5. Counts(1, 0)'
    <3>1. \A l \in Link : Cardinality(Counted(1, 0, l)') = 0
      BY <2>4, FS_EmptySet
    <3>2. \A l \in Link : refCnt'[l] = 0
      BY <1>3 DEF Restart
    <3>3. \A l \in Link : refCnt'[l] = Cardinality(Counted(1, 0, l)') % RefRange
      BY <1>1, <3>1, <3>2
    <3>. QED  BY <3>3 DEF Counts
  <2>6. HeardByEntry'
    BY <2>1, HearingNext
  <2>7. Undisturbed'
    BY <1>3, <2>6 DEF HeardByEntry, Undisturbed, Restart, ToSet
  <2>. QED  BY <1>1, <2>1, <2>3, <2>5, <2>7 DEF CountInv
<1>. QED  BY <1>2, <1>3

LEMMA NextCount ==
  ASSUME CountInv, MaxListed <= RefRange, [Next]_vars
  PROVE  CountInv'
<1>1. ASSUME NEW u \in CU, NEW g \in Csg, talkBackOpen(u, g) \/ talkBackClose(u, g)
      PROVE  CountInv'
  BY <1>1, OpenCountInv, CloseCountInv
<1>2. CASE \/ \E u \in CU : dataSendtoCsg(u)
           \/ \E g \in Csg : mdu_datafrom_csg(g)
           \/ \E u \in CU \cup {NoCU}, type \in {"open", "close"} : sendFBToCmu(type, u)
           \/ UNCHANGED vars
  <2>1. SearchInv' /\ UNCHANGED <<tables, history>>
    BY <1>2, SendSearch DEF CountInv
  <2>. QED  BY <2>1, SameCountInv
<1>3. CASE Restart
  BY <1>3, EmptyCountInv
<1>. QED  BY <1>1, <1>2, <1>3 DEF Next

(* As long as no count can wrap, that is with at most as many OPENs as a   *)
(* guint has values, the counts are exact up to the first CLOSE, and short *)
(* of the nodes of one CU after it.                                        *)
THEOREM CountInvariant ==
  ASSUME MaxListed <= RefRange
  PROVE  Spec => []CountInv
<1>1. Init => CountInv
  BY EmptyCountInv
<1>2. CountInv /\ [Next]_vars => CountInv'
  BY NextCount
<1>. QED  BY <1>1, <1>2, PTL DEF Spec

(* The first CLOSE in the life of the process disturbs nobody else: up to  *)
(* the second one, a CU that has closed nothing is heard by exactly the    *)
(* CSGs that were opened for it (talkBackRemove).                          *)
THEOREM FirstCloseIsHarmless ==
  ASSUME MaxListed <= RefRange
  PROVE  Spec => []FirstCloseHarmless
<1>1. CountInv => FirstCloseHarmless
  BY DEF CountInv, FirstCloseHarmless
<1>. QED  BY <1>1, CountInvariant, PTL

=============================================================================
