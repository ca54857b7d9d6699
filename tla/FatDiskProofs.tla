--------------------------- MODULE FatDiskProofs ---------------------------
(***************************************************************************)
(* A daemon that is killed while it formats the disk, creates or makes a   *)
(* file grow leaves a disk on which FatInv and the tree hold, so that it   *)
(* can be mounted and go on; while one removes or shrinks, all but the     *)
(* object concerned is intact.  DiskTypeOK, DiskCurrent, CrashDamageLocal  *)
(* and EntriesReachable follow.                                            *)
(***************************************************************************)
EXTENDS FatDisk, FatProofs, SequenceTheorems

-----------------------------------------------------------------------------
(* Disks in order.  f is a table, r the head of its free list, sl the      *)
(* entries; the slots in Q are in doubt.                                   *)

Held(f, sl, p) == Chain(f, At(sl, p).first)

\* The size of the file in slot p is covered by its chain.
Covered(f, sl, p) ==
  At(sl, p).type = DIR_ENTRY_TYPE_FILE =>
     At(sl, p).size <= BYTE_PER_CLUSTER * Cardinality(Held(f, sl, p))

Safe(f, r, sl, Q) ==
  /\ f \in [Clusters -> Links]
  /\ r \in Links \ {ROOT_CLUSTER_START}
  /\ sl \in SlotMap
  /\ \A c \in Clusters : Ends(f, c)
  /\ Chain(f, ROOT_CLUSTER_START) \cap Chain(f, r) = {}
  /\ \A p \in EntriesOf(sl) :
        /\ Held(f, sl, p) \cap Chain(f, ROOT_CLUSTER_START) = {}
        /\ \A q \in EntriesOf(sl) : p # q => Held(f, sl, p) \cap Held(f, sl, q) = {}
        /\ p \notin Q => Held(f, sl, p) \cap Chain(f, r) = {} /\ Covered(f, sl, p)
  /\ TreeOK(f, sl)

\* The heads of the root directory and the entries, and of the free list too.
InUse(sl) == {ROOT_CLUSTER_START} \cup Firsts(sl)

HeadsOf(r, sl) == ({ROOT_CLUSTER_START, r} \ {END_OF_CHAIN}) \cup Firsts(sl)

\* An entry that has a cluster has one of the table.
LEMMA EntryFirst ==
  ASSUME NEW sl \in SlotMap, NEW p \in EntriesOf(sl)
  PROVE  p \in Places /\ p \in Named(sl) /\ At(sl, p) \in DirEntry /\ At(sl, p).first \in Clusters
<1>1. p \in Named(sl) /\ p \in Places /\ At(sl, p).first # 0
  BY DEF EntriesOf, Named
<1>2. At(sl, p) \in DirEntry
  BY <1>1 DEF SlotMap, Places, At
<1>3. At(sl, p).first \in Links
  BY <1>2 DEF DirEntry
<1> QED
  BY <1>1, <1>2, <1>3 DEF Links, END_OF_CHAIN

\* In a disk in order each head has a chain of its own.
LEMMA SafeHeads ==
  ASSUME NEW f, NEW r, NEW sl, Safe(f, r, sl, {})
  PROVE  /\ Forest(f, HeadsOf(r, sl))
         /\ InUse(sl) = HeadsOf(r, sl) \ {r}
         /\ r # END_OF_CHAIN => r \in HeadsOf(r, sl)
         /\ r \in HeadsOf(r, sl) \cup {END_OF_CHAIN}
         /\ \A p \in EntriesOf(sl) : At(sl, p).first \in HeadsOf(r, sl) \ {ROOT_CLUSTER_START, r}
         /\ \A p, q \in EntriesOf(sl) : At(sl, p).first = At(sl, q).first => p = q
<1> DEFINE K == HeadsOf(r, sl)
<1>1. /\ f \in [Clusters -> Links] /\ r \in Links \ {ROOT_CLUSTER_START} /\ sl \in SlotMap
      /\ \A c \in Clusters : Ends(f, c)
      /\ Chain(f, ROOT_CLUSTER_START) \cap Chain(f, r) = {}
  BY DEF Safe
<1>2. ASSUME NEW p \in EntriesOf(sl)
      PROVE  /\ At(sl, p).first \in Clusters
             /\ At(sl, p).first \in Chain(f, At(sl, p).first)
             /\ Chain(f, At(sl, p).first) \cap Chain(f, ROOT_CLUSTER_START) = {}
             /\ Chain(f, At(sl, p).first) \cap Chain(f, r) = {}
             /\ \A q \in EntriesOf(sl) :
                   p # q => Chain(f, At(sl, p).first) \cap Chain(f, At(sl, q).first) = {}
  <2>1. At(sl, p).first \in Clusters
    BY <1>1, EntryFirst
  <2> QED
    BY <1>1, <2>1, ChainBasics DEF Safe, Held
<1>3. /\ ROOT_CLUSTER_START \in Clusters /\ ROOT_CLUSTER_START \in Chain(f, ROOT_CLUSTER_START)
      /\ ROOT_CLUSTER_START # END_OF_CHAIN
  BY <1>1, RootCluster, ZeroNoCluster, ChainBasics
<1>4. r # END_OF_CHAIN => r \in Clusters /\ r \in Chain(f, r)
  BY <1>1, ChainBasics DEF Links
<1>5. \A p \in EntriesOf(sl) : At(sl, p).first \notin {ROOT_CLUSTER_START, r}
  <2> SUFFICES ASSUME NEW p \in EntriesOf(sl) PROVE At(sl, p).first \notin {ROOT_CLUSTER_START, r}
    OBVIOUS
  <2> DEFINE c == At(sl, p).first
  <2>1. c \in Chain(f, c) /\ Chain(f, c) \cap Chain(f, ROOT_CLUSTER_START) = {} /\ Chain(f, c) \cap Chain(f, r) = {}
    BY <1>2
  <2> HIDE DEF c
  <2>2. c \notin {ROOT_CLUSTER_START, r}
    BY <2>1
  <2> QED
    BY <2>2 DEF c
<1>6. \A p, q \in EntriesOf(sl) : At(sl, p).first = At(sl, q).first => p = q
  BY <1>2
<1>7. K \subseteq Clusters
  BY <1>2, <1>3, <1>4 DEF HeadsOf, Firsts
<1>8. ASSUME NEW c \in K, NEW d \in K, c # d PROVE Chain(f, c) \cap Chain(f, d) = {}
  <2>1. /\ c \in {ROOT_CLUSTER_START, r} \/ \E p \in EntriesOf(sl) : c = At(sl, p).first
        /\ d \in {ROOT_CLUSTER_START, r} \/ \E p \in EntriesOf(sl) : d = At(sl, p).first
    BY DEF HeadsOf, Firsts
  <2> QED
    BY <1>1, <1>2, <1>8, <2>1
<1>9. Forest(f, K)
  BY <1>1, <1>7, <1>8 DEF Forest
<1>10. InUse(sl) = K \ {r}
  <2>1. r \notin Firsts(sl) /\ r # ROOT_CLUSTER_START
    BY <1>1, <1>5 DEF Firsts
  <2> QED
    BY <1>3, <2>1 DEF InUse, HeadsOf
<1>11. r \in K \cup {END_OF_CHAIN} /\ (r # END_OF_CHAIN => r \in K)
  BY DEF HeadsOf
<1>12. \A p \in EntriesOf(sl) : At(sl, p).first \in K
  BY DEF HeadsOf, Firsts
<1> QED
  BY <1>5, <1>6, <1>9, <1>10, <1>11, <1>12

\* For what is in memory, being in order is the invariant of Fat.
LEMMA SafeIsTreeInv ==
  /\ TreeInv => Safe(fat, free, slots, {})
  /\ Safe(fat, free, slots, {}) /\ daemon \in Daemon /\ reply \in Reply => TreeInv
<1>1. Entries = EntriesOf(slots) /\ \A p : EntryAt(p) = At(slots, p)
  BY SearchIs DEF At, EntryAt
<1>2. ASSUME TreeInv PROVE Safe(fat, free, slots, {})
  <2>1. /\ fat \in [Clusters -> Links] /\ free \in Links \ {ROOT_CLUSTER_START} /\ slots \in SlotMap
        /\ Forest(fat, Heads) /\ TreeOK(fat, slots) /\ FatInv
        /\ ROOT_CLUSTER_START \in Heads
    BY <1>2, InvFacts DEF TreeInv
  <2>2. Chain(fat, ROOT_CLUSTER_START) \cap Chain(fat, free) = {}
    <3>1. CASE free = END_OF_CHAIN
      BY <3>1, ChainOfZero
    <3>2. CASE free # END_OF_CHAIN
      BY <2>1, <3>2, InvFacts, ForestDisjoint
    <3> QED
      BY <3>1, <3>2
  <2>3. ASSUME NEW p \in EntriesOf(slots)
        PROVE  /\ Held(fat, slots, p) \cap Chain(fat, ROOT_CLUSTER_START) = {}
               /\ \A q \in EntriesOf(slots) : p # q => Held(fat, slots, p) \cap Held(fat, slots, q) = {}
               /\ Held(fat, slots, p) \cap Chain(fat, free) = {}
               /\ Covered(fat, slots, p)
    <3>1. \A q \in EntriesOf(slots) : At(slots, q).first \in Heads \ {ROOT_CLUSTER_START, free}
      BY <1>1, <2>1, InvFacts
    <3>2. \A q \in EntriesOf(slots) : p # q => At(slots, p).first # At(slots, q).first
      BY <1>1, <2>1 DEF FatInv
    <3>3. Chain(fat, At(slots, p).first) \cap Chain(fat, free) = {}
      <4>1. CASE free = END_OF_CHAIN
        BY <4>1, ChainOfZero
      <4>2. CASE free # END_OF_CHAIN
        BY <2>1, <3>1, <4>2, InvFacts, ForestDisjoint
      <4> QED
        BY <4>1, <4>2
    <3>4. Covered(fat, slots, p)
      BY <1>1, <2>1 DEF FatInv, SizeCovered, Covered, Held
    <3> QED
      BY <2>1, <3>1, <3>2, <3>3, <3>4, ForestDisjoint DEF Held
  <2> QED
    BY <2>1, <2>2, <2>3 DEF Safe, Forest
<1>3. ASSUME Safe(fat, free, slots, {}), daemon \in Daemon, reply \in Reply PROVE TreeInv
  <2>1. Heads = HeadsOf(free, slots)
    BY <1>1 DEF Heads, HeadsOf, Firsts
  <2>2. TypeOK
    BY <1>3 DEF Safe, TypeOK, SlotMap, Daemon, Reply
  <2>3. /\ Forest(fat, Heads)
        /\ \A p \in Entries : EntryAt(p).first \notin {ROOT_CLUSTER_START, free}
        /\ \A p, q \in Entries : EntryAt(p).first = EntryAt(q).first => p = q
    BY <1>1, <1>3, <2>1, SafeHeads
  <2>4. SizeCovered
    BY <1>1, <1>3 DEF Safe, SizeCovered, Covered, Held
  <2> QED
    BY <1>3, <2>2, <2>3, <2>4 DEF TreeInv, FatInv, Safe
<1> QED
  BY <1>2, <1>3

\* Slots in doubt only weaken what is said.
LEMMA SafeInDoubt ==
  ASSUME NEW f, NEW r, NEW sl, NEW Q, Safe(f, r, sl, {})
  PROVE  Safe(f, r, sl, Q)
  BY DEF Safe

\* A directory is in use; the clusters of the free list hold no entry and belong
\* to no directory.
LEMMA SafeTree ==
  ASSUME NEW f, NEW r, NEW sl, Safe(f, r, sl, {})
  PROVE  /\ Reach(f, sl) \subseteq InUse(sl)
         /\ \A p \in Places : p[1] \in Chain(f, r) =>
               p \notin Named(sl) /\ ~InTree(f, sl, p)
         /\ \A p \in Places : ~InTree(f, sl, p) => p \notin Named(sl)
         /\ \A h \in InUse(sl) : h \in Clusters /\ Chain(f, h) \cap Chain(f, r) = {}
<1>1. /\ TreeOK(f, sl) /\ SubdirsHaveCluster(sl) /\ sl \in SlotMap /\ f \in [Clusters -> Links]
      /\ Forest(f, HeadsOf(r, sl)) /\ InUse(sl) = HeadsOf(r, sl) \ {r}
      /\ r # END_OF_CHAIN => r \in HeadsOf(r, sl)
  BY SafeHeads DEF Safe, TreeOK
<1>2. ASSUME NEW d \in Reach(f, sl) PROVE d \in InUse(sl)
  <2>1. CASE d = ROOT_CLUSTER_START
    BY <2>1 DEF InUse
  <2>2. CASE d # ROOT_CLUSTER_START
    <3>1. PICK p \in Named(sl) : At(sl, p).type = DIR_ENTRY_TYPE_SUBDIR /\ At(sl, p).first = d
      BY <1>1, <1>2, <2>2, ReachParent
    <3>2. d \in Clusters
      BY <1>1, <3>1 DEF SubdirsHaveCluster
    <3>3. d # 0
      BY <3>2, ZeroNoCluster DEF END_OF_CHAIN
    <3> QED
      BY <3>1, <3>3 DEF InUse, Firsts, EntriesOf
  <2> QED
    BY <2>1, <2>2
<1>3. ASSUME NEW h \in InUse(sl) PROVE h \in Clusters /\ Chain(f, h) \cap Chain(f, r) = {}
  <2>1. h \in Clusters
    BY <1>1, <1>3 DEF Forest
  <2>2. CASE r = END_OF_CHAIN
    BY <2>1, <2>2, ChainOfZero
  <2>3. CASE r # END_OF_CHAIN
    BY <1>1, <1>3, <2>1, <2>3, ForestDisjoint
  <2> QED
    BY <2>2, <2>3
<1>4. ASSUME NEW p \in Places, p[1] \in Chain(f, r) PROVE ~InTree(f, sl, p)
  BY <1>2, <1>3, <1>4 DEF InTree
<1>5. ASSUME NEW p \in Places, ~InTree(f, sl, p) PROVE p \notin Named(sl)
  BY <1>1, <1>5 DEF InTree, TreeOK
<1> QED
  BY <1>2, <1>3, <1>4, <1>5

\* A disk that differs from one in order in the free clusters only: some of them
\* are off the list, and what is in use has kept its chain or got some of them.
LEMMA QuietSafe ==
  ASSUME NEW f, NEW r, NEW sl, Safe(f, r, sl, {}),
         NEW g \in [Clusters -> Links], \A c \in Clusters : Ends(g, c),
         NEW s \in Links, Chain(g, s) \subseteq Chain(f, r),
         NEW tl \in SlotMap,
         \A p \in Places : \/ At(tl, p) = At(sl, p)
                           \/ p[1] \in Chain(f, r) /\ At(tl, p).name \notin Names,
         \A h \in InUse(sl) : /\ Chain(f, h) \subseteq Chain(g, h)
                              /\ Chain(g, h) \subseteq Chain(f, h) \cup Chain(f, r)
                              /\ Chain(g, h) \cap Chain(g, s) = {},
         \A h, i \in InUse(sl) : h # i => Chain(g, h) \cap Chain(g, i) = {}
  PROVE  Safe(g, s, tl, {})
<1>1. /\ f \in [Clusters -> Links] /\ sl \in SlotMap /\ TreeOK(f, sl)
      /\ Chain(f, ROOT_CLUSTER_START) \cap Chain(f, r) = {}
  BY DEF Safe
<1>2. /\ Reach(f, sl) \subseteq InUse(sl)
      /\ \A p \in Places : p[1] \in Chain(f, r) => p \notin Named(sl) /\ ~InTree(f, sl, p)
      /\ \A p \in Places : ~InTree(f, sl, p) => p \notin Named(sl)
      /\ \A h \in InUse(sl) : h \in Clusters /\ Chain(f, h) \cap Chain(f, r) = {}
  BY SafeTree
<1>3. s # ROOT_CLUSTER_START
  <2>1. s = ROOT_CLUSTER_START => s \in Chain(g, s) /\ s \in Chain(f, ROOT_CLUSTER_START)
    BY <1>1, RootCluster, ChainBasics
  <2> QED
    BY <1>1, <2>1
<1>4. ASSUME NEW p \in Places PROVE (p \in Named(tl) <=> p \in Named(sl)) /\ (p \in Named(sl) => At(tl, p) = At(sl, p))
  <2>1. CASE At(tl, p) = At(sl, p)
    BY <2>1 DEF Named
  <2>2. CASE p[1] \in Chain(f, r) /\ At(tl, p).name \notin Names
    BY <1>2, <2>2 DEF Named
  <2> QED
    BY <2>1, <2>2
<1>5. EntriesOf(tl) = EntriesOf(sl) /\ \A p \in EntriesOf(sl) : At(tl, p) = At(sl, p)
  <2>1. Named(tl) = Named(sl) /\ \A p \in Named(sl) : At(tl, p) = At(sl, p)
    BY <1>4 DEF Named
  <2> QED
    BY <2>1 DEF EntriesOf
<1>6. TreeOK(g, tl)
  <2>1. ASSUME NEW d \in Reach(f, sl), NEW p \in Named(sl)
        PROVE  p[1] \in Chain(g, d) <=> p[1] \in Chain(f, d)
    <3>1. p \in Places /\ p[1] \notin Chain(f, r)
      BY <1>2 DEF Named
    <3> QED
      BY <1>2, <3>1
  <2>2. ASSUME NEW p \in Places, InTree(f, sl, p) PROVE SameAt(sl, tl, p)
    BY <1>2, <2>2 DEF SameAt
  <2>3. ASSUME NEW p \in Places, ~InTree(f, sl, p) PROVE At(tl, p).name \notin Names
    BY <1>2, <1>4, <2>3 DEF Named
  <2>4. Nowhere \notin Places /\ Nowhere \notin Named(tl)
    BY ZeroNoCluster DEF Places, Nowhere, Named
  <2> QED
    BY <1>1, <2>1, <2>2, <2>3, <2>4, TreeStep
<1>7. ROOT_CLUSTER_START \in InUse(sl) /\ \A p \in EntriesOf(sl) : At(sl, p).first \in InUse(sl)
  BY DEF InUse, Firsts
<1>8. ASSUME NEW p \in EntriesOf(tl)
      PROVE  /\ Held(g, tl, p) \cap Chain(g, ROOT_CLUSTER_START) = {}
             /\ \A q \in EntriesOf(tl) : p # q => Held(g, tl, p) \cap Held(g, tl, q) = {}
             /\ Held(g, tl, p) \cap Chain(g, s) = {}
  <2>1. /\ \A q \in EntriesOf(sl) : p # q => At(sl, p).first # At(sl, q).first
        /\ At(sl, p).first # ROOT_CLUSTER_START
    BY <1>5, <1>8, SafeHeads
  <2>2. \A q \in EntriesOf(sl) : Held(g, tl, q) = Chain(g, At(sl, q).first)
    BY <1>5 DEF Held
  <2> QED
    BY <1>5, <1>7, <1>8, <2>1, <2>2
<1>9. ASSUME NEW p \in EntriesOf(tl) PROVE Covered(g, tl, p)
  <2> DEFINE c == At(sl, p).first
             m == Cardinality(Chain(f, c))
             n == Cardinality(Chain(g, c))
  <2>1. p \in EntriesOf(sl) /\ At(tl, p) = At(sl, p) /\ c \in InUse(sl)
    BY <1>5, <1>7, <1>9
  <2>2. c \in Links /\ At(sl, p) \in DirEntry /\ At(sl, p).size \in Nat
    BY <1>1, <2>1, EntryFirst DEF Links, DirEntry
  <2>3. IsFiniteSet(Chain(g, c)) /\ m \in Nat /\ n \in Nat
    BY <1>1, <2>2, ChainFinite DEF count_cluster_in_chain
  <2>4. m <= n
    BY <2>1, <2>3, FS_Subset
  <2>5. BYTE_PER_CLUSTER * m <= BYTE_PER_CLUSTER * n /\ BYTE_PER_CLUSTER * m \in Nat /\ BYTE_PER_CLUSTER * n \in Nat
    BY <2>3, <2>4, LayoutAssumption, TimesMonotone
  <2>6. Covered(f, sl, p)
    BY <2>1 DEF Safe
  <2>7. At(sl, p).type = DIR_ENTRY_TYPE_FILE => At(sl, p).size <= BYTE_PER_CLUSTER * m
    BY <2>6 DEF Covered, Held
  <2> HIDE DEF m, n
  <2>8. At(sl, p).type = DIR_ENTRY_TYPE_FILE => At(sl, p).size <= BYTE_PER_CLUSTER * n
    BY <2>2, <2>5, <2>7
  <2> QED
    BY <2>1, <2>8 DEF Covered, Held, n
<1> QED
  BY <1>3, <1>6, <1>7, <1>8, <1>9 DEF Safe

\* A disk that differs from one in order in the chain of the object in slot q and
\* in the free list only, which share the clusters they had.
LEMMA DoubtSafe ==
  ASSUME NEW f, NEW r, NEW sl, Safe(f, r, sl, {}), NEW q \in EntriesOf(sl), NEW c, c = At(sl, q).first,
         NEW g \in [Clusters -> Links], \A x \in Clusters : Ends(g, x),
         NEW s \in Links,
         Chain(g, c) \subseteq Chain(f, c) \cup Chain(f, r),
         Chain(g, s) \subseteq Chain(f, c) \cup Chain(f, r),
         At(sl, q).type = DIR_ENTRY_TYPE_SUBDIR => Chain(f, c) \subseteq Chain(g, c),
         \A h \in InUse(sl) \ {c} : Chain(g, h) = Chain(f, h)
  PROVE  Safe(g, s, sl, {q})
<1>1. /\ f \in [Clusters -> Links] /\ sl \in SlotMap /\ TreeOK(f, sl)
      /\ Chain(f, ROOT_CLUSTER_START) \cap Chain(f, r) = {}
  BY DEF Safe
<1>2. /\ Reach(f, sl) \subseteq InUse(sl)
      /\ \A p \in Places : p[1] \in Chain(f, r) => p \notin Named(sl) /\ ~InTree(f, sl, p)
      /\ \A p \in Places : ~InTree(f, sl, p) => p \notin Named(sl)
      /\ \A h \in InUse(sl) : h \in Clusters /\ Chain(f, h) \cap Chain(f, r) = {}
  BY SafeTree
<1>3. /\ \A p \in EntriesOf(sl) : At(sl, p).first \in InUse(sl) \ {ROOT_CLUSTER_START}
      /\ \A p \in EntriesOf(sl) : p # q => At(sl, p).first # c
      /\ ROOT_CLUSTER_START \in InUse(sl) \ {c} /\ c \in InUse(sl)
  BY SafeHeads DEF InUse, Firsts
<1>4. \A h, i \in InUse(sl) : h # i => Chain(f, h) \cap Chain(f, i) = {}
  <2>1. Forest(f, HeadsOf(r, sl)) /\ InUse(sl) \subseteq HeadsOf(r, sl)
    BY SafeHeads
  <2> QED
    BY <1>1, <2>1, ForestDisjoint
<1>5. ASSUME NEW h \in InUse(sl) \ {c}
      PROVE  Chain(g, h) \cap Chain(g, c) = {} /\ Chain(g, h) \cap Chain(g, s) = {}
  <2>1. Chain(g, h) = Chain(f, h) /\ Chain(f, h) \cap Chain(f, c) = {} /\ Chain(f, h) \cap Chain(f, r) = {}
    BY <1>2, <1>3, <1>4, <1>5
  <2> QED
    BY <2>1
<1>6. s # ROOT_CLUSTER_START
  <2>1. s = ROOT_CLUSTER_START => s \in Chain(g, s)
    BY RootCluster, ChainBasics
  <2> QED
    BY <1>3, <1>5, <2>1
<1>7. TreeOK(g, sl)
  <2>1. ASSUME NEW d \in Reach(f, sl), NEW p \in Named(sl)
        PROVE  p[1] \in Chain(g, d) <=> p[1] \in Chain(f, d)
    <3>1. p \in Places /\ p[1] \notin Chain(f, r)
      BY <1>2 DEF Named
    <3>2. CASE d # c
      BY <1>2, <3>2
    <3>3. CASE d = c
      <4>1. At(sl, q).type = DIR_ENTRY_TYPE_SUBDIR
        <5>1. SubdirsHaveCluster(sl) /\ d # ROOT_CLUSTER_START
          BY <1>1, <1>3, <3>3 DEF TreeOK
        <5>2. PICK t \in Named(sl) : At(sl, t).type = DIR_ENTRY_TYPE_SUBDIR /\ At(sl, t).first = d
          BY <5>1, ReachParent
        <5>3. d # 0
          BY <1>2, <3>3, <1>3, ZeroNoCluster DEF END_OF_CHAIN
        <5>4. t \in EntriesOf(sl)
          BY <5>2, <5>3 DEF EntriesOf
        <5> QED
          BY <1>3, <3>3, <5>2, <5>4
      <4> QED
        BY <3>1, <3>3, <4>1
    <3> QED
      BY <3>2, <3>3
  <2>2. ASSUME NEW p \in Places, InTree(f, sl, p) PROVE SameAt(sl, sl, p)
    BY DEF SameAt
  <2>3. ASSUME NEW p \in Places, ~InTree(f, sl, p) PROVE At(sl, p).name \notin Names
    BY <1>2, <2>3 DEF Named
  <2>4. Nowhere \notin Places /\ Nowhere \notin Named(sl)
    BY ZeroNoCluster DEF Places, Nowhere, Named
  <2> QED
    BY <1>1, <2>1, <2>2, <2>3, <2>4, TreeStep
<1>8. ASSUME NEW p \in EntriesOf(sl), NEW p2 \in EntriesOf(sl), p # p2
      PROVE  Held(g, sl, p) \cap Held(g, sl, p2) = {}
  <2> DEFINE h == At(sl, p).first
             i == At(sl, p2).first
  <2>1. h \in InUse(sl) /\ i \in InUse(sl) /\ h # i
    BY <1>3, <1>8, SafeHeads
  <2> HIDE DEF h, i
  <2>2. Chain(g, h) \cap Chain(g, i) = {}
    <3>1. CASE h = c
      BY <1>5, <2>1, <3>1
    <3>2. CASE i = c
      BY <1>5, <2>1, <3>2
    <3>3. CASE h # c /\ i # c
      BY <1>4, <2>1, <3>3
    <3> QED
      BY <3>1, <3>2, <3>3
  <2> QED
    BY <2>2 DEF h, i, Held
<1>9. ASSUME NEW p \in EntriesOf(sl)
      PROVE  Held(g, sl, p) \cap Chain(g, ROOT_CLUSTER_START) = {}
  <2> DEFINE h == At(sl, p).first
  <2>1. h \in InUse(sl) /\ h # ROOT_CLUSTER_START
    BY <1>3
  <2> HIDE DEF h
  <2>2. Chain(g, h) \cap Chain(g, ROOT_CLUSTER_START) = {}
    <3>1. CASE h = c
      BY <1>3, <1>5, <3>1
    <3>2. CASE h # c
      BY <1>3, <1>4, <2>1, <3>2
    <3> QED
      BY <3>1, <3>2
  <2> QED
    BY <2>2 DEF h, Held
<1>10. ASSUME NEW p \in EntriesOf(sl), p \notin {q}
       PROVE  Held(g, sl, p) \cap Chain(g, s) = {} /\ Covered(g, sl, p)
  <2>1. At(sl, p).first \in InUse(sl) \ {c}
    BY <1>3, <1>10
  <2>2. Covered(f, sl, p)
    BY DEF Safe
  <2> QED
    BY <1>5, <2>1, <2>2 DEF Held, Covered
<1>11. Chain(g, ROOT_CLUSTER_START) \cap Chain(g, s) = {}
  BY <1>3, <1>5
<1> QED
  BY <1>1, <1>6, <1>7, <1>8, <1>9, <1>10, <1>11 DEF Safe

\* A disk in order on which some "." and ".." have not been written yet.
LEMMA UndottedSafe ==
  ASSUME NEW f, NEW r, NEW sl, Safe(f, r, sl, {}), NEW tl \in SlotMap,
         \A p \in Places : \/ At(tl, p) = At(sl, p)
                           \/ At(tl, p).name = NoName /\ At(sl, p).name \notin Names
  PROVE  Safe(f, r, tl, {})
<1>1. ASSUME NEW p \in Places PROVE (p \in Named(tl) <=> p \in Named(sl)) /\ (p \in Named(sl) => At(tl, p) = At(sl, p))
  <2>1. CASE At(tl, p) = At(sl, p)
    BY <2>1 DEF Named
  <2>2. CASE At(tl, p).name = NoName /\ At(sl, p).name \notin Names
    BY <2>2, SpecialNames DEF Named
  <2> QED
    BY <2>1, <2>2
<1>2. Named(tl) = Named(sl) /\ \A p \in Named(sl) : At(tl, p) = At(sl, p)
  BY <1>1 DEF Named
<1>3. EntriesOf(tl) = EntriesOf(sl) /\ \A p \in EntriesOf(sl) : At(tl, p) = At(sl, p)
  BY <1>2 DEF EntriesOf
<1>4. TreeOK(f, sl)
  BY DEF Safe
<1>5. ASSUME NEW d \in Reach(f, sl), NEW p \in SubdirsIn(f, sl, d)
      PROVE  DotsRight(tl, At(sl, p).first, d)
  <2> DEFINE c == At(sl, p).first
  <2>1. DotsRight(sl, c, d) /\ c \in Clusters
    BY <1>4, <1>5 DEF TreeOK, SubdirsHaveCluster, SubdirsIn
  <2> HIDE DEF c
  <2>2. ASSUME NEW s \in Slots
        PROVE  /\ tl[c][s].name = Dot => tl[c][s].first = c
               /\ tl[c][s].name = DotDot => tl[c][s].first = d
    <3>1. <<c, s>> \in Places /\ At(tl, <<c, s>>) = tl[c][s] /\ At(sl, <<c, s>>) = sl[c][s]
      BY <2>1 DEF Places, At
    <3>2. tl[c][s] = sl[c][s] \/ tl[c][s].name = NoName
      BY <3>1
    <3> QED
      BY <2>1, <3>2, SpecialNames DEF DotsRight
  <2> QED
    BY <2>2 DEF DotsRight, c
<1>6. KeepsTree(f, sl, f, tl)
  BY <1>2, <1>5 DEF KeepsTree
<1>7. TreeOK(f, tl)
  BY <1>2, <1>4, <1>6, TreeGrows
<1> QED
  BY <1>3, <1>7 DEF Safe, Held, Covered

-----------------------------------------------------------------------------
(* Writes *)

Absent    == "absent"
Formatted == "formatted"
Files     == {"absent", "empty", "zeroed", "formatted"}

DiskStates == [file : Files, fat : [Clusters -> Links], free : Links, slots : SlotMap]

DiskOf(F, f, r, sl) == [file |-> F, fat |-> f, free |-> r, slots |-> sl]

\* The disks in order, but for the slots in Q.
InOrder(Q) ==
  {d \in DiskStates : (d.file = Absent => d = Blank) /\ Safe(d.fat, d.free, d.slots, Q)}

Writes ==
  [op : {"create", "size", "table", "clear"}]
  \cup [op : {"super"}, value : Links]
  \cup [op : {"link"}, cluster : Clusters, table : [Clusters -> Links]]
  \cup [op : {"zero"}, cluster : Clusters]
  \cup [op : {"put"}, slot : Places, entry : DirEntry]

\* A disk is its four parts.
LEMMA DiskParts ==
  ASSUME NEW F \in Files, NEW f \in [Clusters -> Links], NEW r \in Links, NEW sl \in SlotMap
  PROVE  /\ DiskOf(F, f, r, sl) \in DiskStates
         /\ DiskOf(F, f, r, sl).file = F /\ DiskOf(F, f, r, sl).fat = f
         /\ DiskOf(F, f, r, sl).free = r /\ DiskOf(F, f, r, sl).slots = sl
  BY DEF DiskOf, DiskStates

\* A disk in this form.
LEMMA DiskIsParts ==
  ASSUME NEW d \in DiskStates
  PROVE  /\ d = DiskOf(d.file, d.fat, d.free, d.slots)
         /\ d.file \in Files /\ d.fat \in [Clusters -> Links] /\ d.free \in Links /\ d.slots \in SlotMap
  BY DEF DiskOf, DiskStates

\* The states of the disk file that matter most.
LEMMA FileStates ==
  Absent \in Files /\ Formatted \in Files /\ Absent # Formatted
  BY DEF Absent, Formatted, Files

\* A disk with a file system that is in order.
LEMMA OrderedDisk ==
  ASSUME NEW f, NEW r, NEW sl, NEW Q, Safe(f, r, sl, Q)
  PROVE  DiskOf(Formatted, f, r, sl) \in InOrder(Q)
<1>1. f \in [Clusters -> Links] /\ r \in Links /\ sl \in SlotMap
  BY DEF Safe
<1> QED
  BY <1>1, FileStates, DiskParts DEF InOrder

\* What each write does to a disk.
LEMMA WriteSuper ==
  ASSUME NEW F, NEW f, NEW r, NEW sl, NEW v \in Links
  PROVE  /\ Super(v) \in Writes
         /\ Written(DiskOf(F, f, r, sl), Super(v)) = DiskOf(Formatted, f, v, sl)
<1>1. Super(v) \in Writes
  BY DEF Super, Writes
<1>2. Written(DiskOf(F, f, r, sl), Super(v)) = DiskOf(Formatted, f, v, sl)
  BY DEF Super, Written, DiskOf, Formatted
<1> QED
  BY <1>1, <1>2

\* A link of the table is written from a table that is also on the disk: its
\* neighbours, written with it, do not change.
LEMMA WriteLink ==
  ASSUME NEW F, NEW f \in [Clusters -> Links], NEW r, NEW sl, NEW c \in Clusters, NEW v \in Links
  PROVE  /\ Link(f, c, v) \in Writes
         /\ Written(DiskOf(F, f, r, sl), Link(f, c, v)) = DiskOf(F, update_fat_entry(f, c, v), r, sl)
<1> DEFINE g == update_fat_entry(f, c, v)
           h == [x \in Clusters |-> IF x \in TableCluster(c) THEN g[x] ELSE f[x]]
<1>1. g \in [Clusters -> Links] /\ \A x \in Clusters : x # c => g[x] = f[x]
  BY DEF update_fat_entry
<1>2. Link(f, c, v) \in Writes
  BY <1>1 DEF Link, Writes
<1>3. c \in TableCluster(c)
  BY DEF TableCluster
<1> HIDE DEF g
<1>4. h = g
  BY <1>1, <1>3
<1>5. Written(DiskOf(F, f, r, sl), Link(f, c, v)) = DiskOf(F, h, r, sl)
  BY DEF Link, Written, DiskOf, g
<1> QED
  BY <1>2, <1>4, <1>5 DEF g

\* A cluster is zeroed.
LEMMA WriteZero ==
  ASSUME NEW F, NEW f, NEW r, NEW sl, NEW c \in Clusters
  PROVE  /\ Zero(c) \in Writes
         /\ Written(DiskOf(F, f, r, sl), Zero(c)) = DiskOf(F, f, r, [sl EXCEPT ![c] = ZeroCluster])
<1>1. Zero(c) \in Writes
  BY DEF Zero, Writes
<1>2. Written(DiskOf(F, f, r, sl), Zero(c)) = DiskOf(F, f, r, [sl EXCEPT ![c] = ZeroCluster])
  BY DEF Zero, Written, DiskOf
<1> QED
  BY <1>1, <1>2

\* An entry is written.
LEMMA WritePut ==
  ASSUME NEW F, NEW f, NEW r, NEW sl, NEW p \in Places, NEW e \in DirEntry
  PROVE  /\ Put(p, e) \in Writes
         /\ Written(DiskOf(F, f, r, sl), Put(p, e)) = DiskOf(F, f, r, PutEntry(sl, p, e))
<1>1. Put(p, e) \in Writes
  BY DEF Put, Writes
<1>2. Written(DiskOf(F, f, r, sl), Put(p, e)) = DiskOf(F, f, r, PutEntry(sl, p, e))
  BY DEF Put, Written, DiskOf
<1> QED
  BY <1>1, <1>2

\* The file is made, sized, and given its table.
LEMMA WriteFile ==
  ASSUME NEW F, NEW f, NEW r, NEW sl
  PROVE  /\ [op |-> "create"] \in Writes /\ [op |-> "size"] \in Writes /\ [op |-> "table"] \in Writes
         /\ Clear \in Writes
         /\ Written(DiskOf(F, f, r, sl), [op |-> "create"]) = DiskOf("empty", f, r, sl)
         /\ Written(DiskOf(F, f, r, sl), [op |-> "size"]) = DiskOf("zeroed", f, r, sl)
         /\ Written(DiskOf(F, f, r, sl), [op |-> "table"]) = DiskOf(F, init_fat, r, sl)
         /\ Written(DiskOf(F, f, r, sl), Clear) = DiskOf("zeroed", f, r, sl)
<1>1. /\ [op |-> "create"] \in Writes /\ [op |-> "size"] \in Writes /\ [op |-> "table"] \in Writes
      /\ Clear \in Writes
  BY DEF Writes, Clear
<1>2. Written(DiskOf(F, f, r, sl), [op |-> "create"]) = DiskOf("empty", f, r, sl)
  BY DEF Written, DiskOf
<1>3. Written(DiskOf(F, f, r, sl), [op |-> "size"]) = DiskOf("zeroed", f, r, sl)
  BY DEF Written, DiskOf
<1>4. Written(DiskOf(F, f, r, sl), [op |-> "table"]) = DiskOf(F, init_fat, r, sl)
  BY DEF Written, DiskOf
<1>5. Written(DiskOf(F, f, r, sl), Clear) = DiskOf("zeroed", f, r, sl)
  BY DEF Written, DiskOf, Clear
<1> QED
  BY <1>1, <1>2, <1>3, <1>4, <1>5

\* Each write is of one of the eight operations.
LEMMA WriteOps ==
  ASSUME NEW w \in Writes
  PROVE  w.op \in {"create", "size", "table", "super", "link", "zero", "put", "clear"}
  BY DEF Writes

-----------------------------------------------------------------------------
(* Sequences of writes *)

\* The writes ws lead from the disk d to the disk e, and every disk before e is
\* in X: the one that is found when the daemon is killed with writes to make.
Leads(d, ws, e, X) ==
  /\ ws \in Seq(Writes)
  /\ \E st \in [0 .. Len(ws) -> DiskStates] :
        /\ st[0] = d
        /\ st[Len(ws)] = e
        /\ \A i \in 1 .. Len(ws) : st[i - 1] \in X /\ st[i] = Written(st[i - 1], ws[i])

\* No write to make.
LEMMA LeadsNone ==
  ASSUME NEW d \in DiskStates, NEW X
  PROVE  Leads(d, << >>, d, X)
<1> DEFINE st == [i \in 0 .. 0 |-> d]
<1>1. << >> \in Seq(Writes) /\ Len(<< >>) = 0
  OBVIOUS
<1>2. st \in [0 .. 0 -> DiskStates] /\ st[0] = d
  OBVIOUS
<1> HIDE DEF st
<1>3. \A i \in 1 .. 0 : FALSE
  OBVIOUS
<1> QED
  BY <1>1, <1>2, <1>3 DEF Leads

\* One write to make.
LEMMA LeadsOne ==
  ASSUME NEW X, NEW d \in DiskStates, d \in X, NEW w \in Writes,
         NEW e \in DiskStates, e = Written(d, w)
  PROVE  Leads(d, <<w>>, e, X)
<1> DEFINE st == [i \in 0 .. 1 |-> IF i = 0 THEN d ELSE e]
<1>1. <<w>> \in Seq(Writes) /\ Len(<<w>>) = 1 /\ <<w>>[1] = w
  OBVIOUS
<1>2. st \in [0 .. 1 -> DiskStates] /\ st[0] = d /\ st[1] = e
  OBVIOUS
<1> HIDE DEF st
<1>3. \A i \in 1 .. 1 : st[i - 1] \in X /\ st[i] = Written(st[i - 1], <<w>>[i])
  <2> SUFFICES ASSUME NEW i \in 1 .. 1 PROVE st[i - 1] \in X /\ st[i] = Written(st[i - 1], <<w>>[i])
    OBVIOUS
  <2>1. i = 1 /\ i - 1 = 0
    OBVIOUS
  <2>2. st[i - 1] = d /\ st[i] = e /\ <<w>>[i] = w
    BY <1>1, <1>2, <2>1
  <2> QED
    BY <2>2
<1> QED
  BY <1>1, <1>2, <1>3 DEF Leads

\* Writes one after the other.
LEMMA LeadsThen ==
  ASSUME NEW a, NEW v, NEW b, NEW w, NEW c, NEW X, Leads(a, v, b, X), Leads(b, w, c, X)
  PROVE  Leads(a, v \o w, c, X)
<1> DEFINE m == Len(v)
           n == Len(w)
<1>1. v \in Seq(Writes) /\ w \in Seq(Writes) /\ m \in Nat /\ n \in Nat
  BY DEF Leads
<1>2. PICK st \in [0 .. m -> DiskStates] :
        /\ st[0] = a /\ st[m] = b
        /\ \A i \in 1 .. m : st[i - 1] \in X /\ st[i] = Written(st[i - 1], v[i])
  BY DEF Leads
<1>3. PICK tt \in [0 .. n -> DiskStates] :
        /\ tt[0] = b /\ tt[n] = c
        /\ \A i \in 1 .. n : tt[i - 1] \in X /\ tt[i] = Written(tt[i - 1], w[i])
  BY DEF Leads
<1>4. v \o w \in Seq(Writes) /\ Len(v \o w) = m + n
  BY <1>1
<1>5. \A i \in 1 .. m + n : (v \o w)[i] = IF i <= m THEN v[i] ELSE w[i - m]
  BY <1>1
<1> HIDE DEF m, n
<1> DEFINE u == [i \in 0 .. m + n |-> IF i <= m THEN st[i] ELSE tt[i - m]]
<1>6. u \in [0 .. m + n -> DiskStates]
  <2> SUFFICES ASSUME NEW i \in 0 .. m + n PROVE (IF i <= m THEN st[i] ELSE tt[i - m]) \in DiskStates
    OBVIOUS
  <2>1. CASE i <= m
    BY <1>1, <1>2, <2>1
  <2>2. CASE ~(i <= m)
    <3>1. i - m \in 0 .. n
      BY <1>1, <2>2
    <3> QED
      BY <1>3, <2>2, <3>1
  <2> QED
    BY <2>1, <2>2
<1>7. \A i \in 0 .. m : u[i] = st[i]
  BY <1>1
<1>8. \A i \in m .. m + n : u[i] = tt[i - m]
  <2> SUFFICES ASSUME NEW i \in m .. m + n PROVE u[i] = tt[i - m]
    OBVIOUS
  <2>1. CASE i = m
    <3>1. u[i] = st[m] /\ i - m = 0
      BY <1>1, <1>7, <2>1
    <3> QED
      BY <1>2, <1>3, <3>1
  <2>2. CASE i # m
    <3>1. ~(i <= m) /\ i \in 0 .. m + n
      BY <1>1, <2>2
    <3> QED
      BY <3>1
  <2> QED
    BY <2>1, <2>2
<1> HIDE DEF u
<1>9. u[0] = a /\ u[m + n] = c
  <2>1. 0 \in 0 .. m /\ m + n \in m .. m + n /\ (m + n) - m = n
    BY <1>1
  <2> QED
    BY <1>2, <1>3, <1>7, <1>8, <2>1
<1>10. ASSUME NEW i \in 1 .. m + n PROVE u[i - 1] \in X /\ u[i] = Written(u[i - 1], (v \o w)[i])
  <2>1. CASE i <= m
    <3>1. i \in 1 .. m /\ i \in 0 .. m /\ i - 1 \in 0 .. m
      BY <1>1, <2>1
    <3>2. u[i] = st[i] /\ u[i - 1] = st[i - 1] /\ (v \o w)[i] = v[i]
      BY <1>5, <1>7, <2>1, <3>1
    <3> QED
      BY <1>2, <3>1, <3>2
  <2>2. CASE ~(i <= m)
    <3>1. i - m \in 1 .. n /\ i \in m .. m + n /\ i - 1 \in m .. m + n /\ (i - 1) - m = (i - m) - 1
      BY <1>1, <2>2
    <3>2. u[i] = tt[i - m] /\ u[i - 1] = tt[(i - m) - 1] /\ (v \o w)[i] = w[i - m]
      BY <1>5, <1>8, <2>2, <3>1
    <3> QED
      BY <1>3, <3>1, <3>2
  <2> QED
    BY <2>1, <2>2
<1> QED
  BY <1>4, <1>6, <1>9, <1>10 DEF Leads

\* One write is made.
LEMMA LeadsOn ==
  ASSUME NEW d, NEW ws, NEW e, NEW X, Leads(d, ws, e, X), ws # << >>
  PROVE  /\ d \in X /\ d \in DiskStates
         /\ Leads(Written(d, Head(ws)), Tail(ws), e, X)
<1> DEFINE n == Len(ws)
<1>1. ws \in Seq(Writes) /\ n \in Nat \ {0} /\ Head(ws) = ws[1]
  BY DEF Leads
<1>2. Tail(ws) \in Seq(Writes) /\ Len(Tail(ws)) = n - 1 /\ \A i \in 1 .. n - 1 : Tail(ws)[i] = ws[i + 1]
  BY <1>1
<1>3. PICK st \in [0 .. n -> DiskStates] :
        /\ st[0] = d /\ st[n] = e
        /\ \A i \in 1 .. n : st[i - 1] \in X /\ st[i] = Written(st[i - 1], ws[i])
  BY DEF Leads
<1> HIDE DEF n
<1>4. 1 \in 1 .. n /\ 1 - 1 = 0 /\ 0 \in 0 .. n
  BY <1>1
<1>5. d \in X /\ d \in DiskStates /\ st[1] = Written(d, Head(ws))
  BY <1>1, <1>3, <1>4
<1> DEFINE u == [i \in 0 .. n - 1 |-> st[i + 1]]
<1>6. u \in [0 .. n - 1 -> DiskStates] /\ u[0] = st[1] /\ u[n - 1] = e
  <2>1. \A i \in 0 .. n - 1 : i + 1 \in 0 .. n
    BY <1>1
  <2>2. 0 \in 0 .. n - 1 /\ n - 1 \in 0 .. n - 1 /\ (n - 1) + 1 = n /\ 0 + 1 = 1
    BY <1>1
  <2> QED
    BY <1>3, <2>1, <2>2
<1>7. ASSUME NEW i \in 1 .. n - 1 PROVE u[i - 1] \in X /\ u[i] = Written(u[i - 1], Tail(ws)[i])
  <2>1. i - 1 \in 0 .. n - 1 /\ i \in 0 .. n - 1 /\ i + 1 \in 1 .. n /\ (i - 1) + 1 = (i + 1) - 1
    BY <1>1
  <2>2. u[i] = st[i + 1] /\ u[i - 1] = st[(i + 1) - 1] /\ Tail(ws)[i] = ws[i + 1]
    BY <1>2, <2>1
  <2> HIDE DEF u
  <2> QED
    BY <1>3, <2>1, <2>2
<1> HIDE DEF u
<1> QED
  BY <1>2, <1>5, <1>6, <1>7 DEF Leads

\* All have been made.
LEMMA LeadsDone ==
  ASSUME NEW d, NEW e, NEW X, Leads(d, << >>, e, X)
  PROVE  d = e /\ d \in DiskStates
<1>1. Len(<< >>) = 0
  OBVIOUS
<1>2. PICK st \in [0 .. 0 -> DiskStates] : st[0] = d /\ st[0] = e
  BY <1>1 DEF Leads
<1> QED
  BY <1>2

\* Two writes to make.
LEMMA LeadsTwo ==
  ASSUME NEW X, NEW d \in DiskStates, d \in X, NEW v \in Writes,
         NEW e \in DiskStates, e \in X, e = Written(d, v), NEW w \in Writes,
         NEW g \in DiskStates, g = Written(e, w)
  PROVE  Leads(d, <<v, w>>, g, X)
<1>1. Leads(d, <<v>>, e, X) /\ Leads(e, <<w>>, g, X)
  BY LeadsOne
<1>2. Leads(d, <<v>> \o <<w>>, g, X)
  BY <1>1, LeadsThen
<1>3. <<v>> \o <<w>> = <<v, w>>
  <2>1. <<v>> \in Seq(Writes) /\ <<w>> \in Seq(Writes) /\ <<v, w>> \in Seq(Writes)
    OBVIOUS
  <2>2. Len(<<v>>) = 1 /\ Len(<<w>>) = 1 /\ Len(<<v, w>>) = 2
    OBVIOUS
  <2>3. <<v>> \o <<w>> \in Seq(Writes) /\ Len(<<v>> \o <<w>>) = 2
    BY <2>1, <2>2
  <2>4. (<<v>> \o <<w>>)[1] = v /\ (<<v>> \o <<w>>)[2] = w
    BY <2>1, <2>2
  <2>5. \A i \in 1 .. Len(<<v, w>>) : (<<v>> \o <<w>>)[i] = <<v, w>>[i]
    <3> SUFFICES ASSUME NEW i \in 1 .. 2 PROVE (<<v>> \o <<w>>)[i] = <<v, w>>[i]
      BY <2>2
    <3>1. i = 1 \/ i = 2
      OBVIOUS
    <3> QED
      BY <2>4, <3>1
  <2> QED
    BY <2>1, <2>2, <2>3, <2>5, SeqEqual
<1> QED
  BY <1>2, <1>3

\* Clusters are zeroed one by one.
LEMMA LeadsZeros ==
  ASSUME NEW f \in [Clusters -> Links], NEW r \in Links, NEW sl \in SlotMap,
         NEW k \in Nat, NEW z \in [1 .. k -> Clusters],
         NEW ws, ws = [i \in 1 .. k |-> Zero(z[i])], NEW X,
         \A Z \in SUBSET {z[j] : j \in 1 .. k} : DiskOf(Formatted, f, r, Zeroed(sl, Z)) \in X
  PROVE  Leads(DiskOf(Formatted, f, r, sl), ws,
               DiskOf(Formatted, f, r, Zeroed(sl, {z[j] : j \in 1 .. k})), X)
<1> DEFINE Z(n) == {z[j] : j \in 1 .. n}
           st == [n \in 0 .. k |-> DiskOf(Formatted, f, r, Zeroed(sl, Z(n)))]
<1>1. \A n \in 1 .. k : Zero(z[n]) \in Writes
  BY WriteZero
<1>2. ws \in Seq(Writes) /\ Len(ws) = k /\ \A n \in 1 .. k : ws[n] = Zero(z[n])
  <2>1. ws \in [1 .. k -> Writes] /\ \A n \in 1 .. k : ws[n] = Zero(z[n])
    BY <1>1
  <2>2. ws \in Seq(Writes)
    BY <2>1, SeqDef
  <2>3. Len(ws) \in Nat /\ DOMAIN ws = 1 .. Len(ws)
    BY <2>2, LenProperties
  <2>4. 1 .. Len(ws) = 1 .. k
    BY <2>1, <2>3
  <2>5. Len(ws) = k
    BY <2>3, <2>4
  <2> QED
    BY <2>1, <2>2, <2>5
<1>3. \A n \in 0 .. k : Zeroed(sl, Z(n)) \in SlotMap /\ Z(n) \in SUBSET {z[j] : j \in 1 .. k}
  BY ZeroedFewer
<1>4. st \in [0 .. k -> DiskStates] /\ \A n \in 0 .. k : st[n] = DiskOf(Formatted, f, r, Zeroed(sl, Z(n)))
  BY <1>3, FileStates, DiskParts
<1>5. st[0] = DiskOf(Formatted, f, r, sl)
  <2>1. Z(0) = {}
    OBVIOUS
  <2>2. Zeroed(sl, {}) = sl
    BY DEF Zeroed, SlotMap
  <2>3. st[0] = DiskOf(Formatted, f, r, Zeroed(sl, Z(0)))
    BY <1>4
  <2> HIDE DEF Z, st
  <2> QED
    BY <2>1, <2>2, <2>3
<1>6. ASSUME NEW n \in 1 .. k PROVE st[n - 1] \in X /\ st[n] = Written(st[n - 1], ws[n])
  <2>1. n - 1 \in 0 .. k /\ n \in 0 .. k
    OBVIOUS
  <2>2. st[n - 1] = DiskOf(Formatted, f, r, Zeroed(sl, Z(n - 1))) /\ st[n] = DiskOf(Formatted, f, r, Zeroed(sl, Z(n)))
    BY <1>4, <2>1
  <2>3. st[n - 1] \in X
    BY <1>3, <2>1, <2>2
  <2>4. \A x : x \in Z(n) <=> x \in Z(n - 1) \/ x = z[n]
    <3>1. \A j : j \in 1 .. n <=> j \in 1 .. n - 1 \/ j = n
      OBVIOUS
    <3> QED
      BY <3>1
  <2>5. z[n] \in Clusters
    OBVIOUS
  <2> HIDE DEF Z, st
  <2>7. Written(st[n - 1], Zero(z[n])) = DiskOf(Formatted, f, r, [Zeroed(sl, Z(n - 1)) EXCEPT ![z[n]] = ZeroCluster])
    BY <2>2, <2>5, WriteZero
  <2>6. [Zeroed(sl, Z(n - 1)) EXCEPT ![z[n]] = ZeroCluster] = Zeroed(sl, Z(n))
    BY <2>4 DEF Zeroed
  <2> QED
    BY <1>2, <2>2, <2>3, <2>7, <2>6
<1>7. st[k] = DiskOf(Formatted, f, r, Zeroed(sl, Z(k)))
  BY <1>4
<1> DEFINE e == DiskOf(Formatted, f, r, Zeroed(sl, {z[j] : j \in 1 .. k}))
<1>8. st[Len(ws)] = e
  BY <1>2, <1>7
<1>9. \A n \in 1 .. Len(ws) : st[n - 1] \in X /\ st[n] = Written(st[n - 1], ws[n])
  BY <1>2, <1>6
<1>10. st \in [0 .. Len(ws) -> DiskStates]
  BY <1>2, <1>4
<1> HIDE DEF st, e, Z
<1>11. Leads(DiskOf(Formatted, f, r, sl), ws, e, X)
  BY <1>2, <1>5, <1>8, <1>9, <1>10 DEF Leads
<1> QED
  BY <1>11 DEF e

-----------------------------------------------------------------------------
(* Taking clusters *)

\* The disk is in order at each stage of taking clusters: with the new superblock,
\* with the new table too, and with some of the clusters zeroed.
LEMMA PopSafe ==
  ASSUME NEW f, NEW r, NEW sl, Safe(f, r, sl, {}), r # END_OF_CHAIN,
         NEW k \in Nat \ {0}, k <= count_cluster_in_chain(f, r),
         NEW b, b = pop_free_clusters([fat |-> f, free |-> r], k),
         NEW Z, Z \subseteq Chain(f, r)
  PROVE  Safe(f, b.free, sl, {}) /\ Safe(b.fat, b.free, Zeroed(sl, Z), {})
<1> DEFINE K == HeadsOf(r, sl)
           last == nth_cluster(f, r, k - 1)
<1>1. /\ f \in [Clusters -> Links] /\ sl \in SlotMap /\ r \in Clusters
      /\ \A c \in Clusters : Ends(f, c)
  BY DEF Safe, Links
<1>2. Forest(f, K) /\ r \in K /\ InUse(sl) = K \ {r}
  BY SafeHeads
<1>3. PopResult(f, K, r, k, b) /\ Chain(f, r) = Chain(b.fat, r) \cup Chain(b.fat, b.free)
  BY <1>1, <1>2, PopFreeClusters, PopChains
<1>4. last \in Chain(f, r) /\ b.free = f[last]
  <2>1. k - 1 \in Nat /\ k - 1 < count_cluster_in_chain(f, r)
    BY <1>1, ChainFinite DEF Links
  <2> QED
    BY <1>1, <2>1, NthCluster DEF pop_free_clusters
<1>5. Chain(f, b.free) \subseteq Chain(f, r) /\ b.free \in Links
  <2>1. Chain(f, f[last]) \subseteq Chain(f, r) /\ f[last] \in Links
    BY <1>1, <1>4, ChainSub, ChainNext
  <2> QED
    BY <1>4, <2>1
<1>6. \A h \in InUse(sl) : h \in K /\ Chain(f, h) \cap Chain(f, r) = {}
  BY <1>2, SafeTree
<1>7. \A h, i \in InUse(sl) : h # i => Chain(f, h) \cap Chain(f, i) = {}
  BY <1>1, <1>2, ForestDisjoint
<1> HIDE DEF K, last
<1>8. Safe(f, b.free, sl, {})
  BY <1>1, <1>5, <1>6, <1>7, QuietSafe
<1>9. /\ b.fat \in [Clusters -> Links] /\ \A c \in Clusters : Ends(b.fat, c)
      /\ \A h \in InUse(sl) : Chain(b.fat, h) = Chain(f, h)
  BY <1>2, <1>3 DEF PopResult, Forest
<1>10. /\ Zeroed(sl, Z) \in SlotMap
       /\ \A p \in Places : \/ At(Zeroed(sl, Z), p) = At(sl, p)
                            \/ p[1] \in Chain(f, r) /\ At(Zeroed(sl, Z), p).name \notin Names
  <2>1. FreeSlot.name \notin Names
    BY FreeSlotType, SpecialNames DEF NoName
  <2> QED
    BY <1>1, <2>1, ZeroedFewer, ZeroedAt
<1>11. Chain(b.fat, b.free) \subseteq Chain(f, r)
  BY <1>3
<1>12. Safe(b.fat, b.free, Zeroed(sl, Z), {})
  BY <1>5, <1>6, <1>7, <1>9, <1>10, <1>11, QuietSafe
<1> QED
  BY <1>8, <1>12

\* The writes of pop_free_clusters.
LEMMA PopLeads ==
  ASSUME NEW f, NEW r, NEW sl, Safe(f, r, sl, {}), r # END_OF_CHAIN,
         NEW k \in Nat \ {0}, k <= count_cluster_in_chain(f, r),
         NEW b, b = pop_free_clusters([fat |-> f, free |-> r], k)
  PROVE  /\ Leads(DiskOf(Formatted, f, r, sl), pop_writes([fat |-> f, free |-> r], k),
                  DiskOf(Formatted, b.fat, b.free, Zeroed(sl, Chain(b.fat, r))), InOrder({}))
         /\ Safe(b.fat, b.free, Zeroed(sl, Chain(b.fat, r)), {})
<1> DEFINE last == nth_cluster(f, r, k - 1)
           z == [i \in 1 .. k |-> nth_cluster(f, r, i - 1)]
           Z == {z[j] : j \in 1 .. k}
           ws == [i \in 1 .. k |-> Zero(nth_cluster(f, r, i - 1))]
<1>1. /\ f \in [Clusters -> Links] /\ sl \in SlotMap /\ r \in Clusters /\ r \in Links
      /\ \A c \in Clusters : Ends(f, c) /\ count_cluster_in_chain(f, r) \in Nat
  BY ChainFinite DEF Safe, Links
<1>2. Forest(f, HeadsOf(r, sl)) /\ r \in HeadsOf(r, sl)
  BY SafeHeads
<1>3. \A i \in 1 .. k : nth_cluster(f, r, i - 1) \in Chain(f, r) /\ nth_cluster(f, r, i - 1) \in Clusters
  <2> SUFFICES ASSUME NEW i \in 1 .. k
               PROVE  nth_cluster(f, r, i - 1) \in Chain(f, r) /\ nth_cluster(f, r, i - 1) \in Clusters
    OBVIOUS
  <2>1. i - 1 \in Nat /\ i - 1 < count_cluster_in_chain(f, r)
    BY <1>1
  <2> QED
    BY <1>1, <2>1, NthCluster
<1>4. z \in [1 .. k -> Clusters] /\ ws = [i \in 1 .. k |-> Zero(z[i])] /\ Z \subseteq Chain(f, r)
  BY <1>3
<1>5. Chain(b.fat, r) = FirstClusters(f, r, k)
  BY <1>1, <1>2, PoppedClusters
<1>6. Chain(b.fat, r) = Z
  BY <1>5 DEF FirstClusters
<1>7. last \in Clusters
  BY <1>3
<1>8. b.fat = update_fat_entry(f, last, END_OF_CHAIN) /\ b.free = f[last] /\ b.free \in Links
  BY <1>1, <1>7 DEF pop_free_clusters
<1>9. pop_writes([fat |-> f, free |-> r], k) = <<Super(b.free), Link(f, last, END_OF_CHAIN)>> \o ws
  BY DEF pop_writes
<1> HIDE DEF z, Z, ws, last
<1>10. Safe(f, b.free, sl, {}) /\ \A S \in SUBSET Z : Safe(b.fat, b.free, Zeroed(sl, S), {})
  BY <1>4, PopSafe
<1>11. Zeroed(sl, {}) = sl
  BY <1>1 DEF Zeroed, SlotMap
<1>12. Safe(b.fat, b.free, sl, {})
  <2>1. Safe(b.fat, b.free, Zeroed(sl, {}), {})
    BY <1>10
  <2> QED
    BY <1>11, <2>1
<1>13. b.fat \in [Clusters -> Links]
  BY <1>12 DEF Safe
<1> DEFINE d0 == DiskOf(Formatted, f, r, sl)
           d1 == DiskOf(Formatted, f, b.free, sl)
           d2 == DiskOf(Formatted, b.fat, b.free, sl)
           d3 == DiskOf(Formatted, b.fat, b.free, Zeroed(sl, Z))
<1>14. d0 \in InOrder({}) /\ d1 \in InOrder({}) /\ d0 \in DiskStates /\ d1 \in DiskStates /\ d2 \in DiskStates
  BY <1>1, <1>8, <1>10, <1>13, OrderedDisk, DiskParts, FileStates
<1>15. d1 = Written(d0, Super(b.free)) /\ Super(b.free) \in Writes
  BY <1>8, WriteSuper
<1>16. d2 = Written(d1, Link(f, last, END_OF_CHAIN)) /\ Link(f, last, END_OF_CHAIN) \in Writes
  BY <1>1, <1>7, <1>8, WriteLink DEF Links
<1>17. \A S \in SUBSET Z : DiskOf(Formatted, b.fat, b.free, Zeroed(sl, S)) \in InOrder({})
  BY <1>10, OrderedDisk
<1>18. Leads(d2, ws, d3, InOrder({}))
  BY <1>1, <1>4, <1>8, <1>13, <1>17, LeadsZeros DEF Z
<1> HIDE DEF d0, d1, d2, d3
<1>19. Leads(d0, <<Super(b.free), Link(f, last, END_OF_CHAIN)>>, d2, InOrder({}))
  BY <1>14, <1>15, <1>16, LeadsTwo
<1>20. Leads(d0, pop_writes([fat |-> f, free |-> r], k), d3, InOrder({}))
  BY <1>9, <1>18, <1>19, LeadsThen
<1>21. Safe(b.fat, b.free, Zeroed(sl, Z), {})
  BY <1>10
<1> QED
  BY <1>6, <1>20, <1>21 DEF d0, d3

\* The writes of append_free_clusters.
LEMMA AppendLeads ==
  ASSUME NEW f, NEW r, NEW sl, Safe(f, r, sl, {}), r # END_OF_CHAIN, NEW c \in InUse(sl),
         NEW k \in Nat \ {0}, k <= count_cluster_in_chain(f, r),
         NEW a, a = pop_free_clusters([fat |-> f, free |-> r], k),
         NEW b, b = append_free_clusters([fat |-> f, free |-> r], c, k)
  PROVE  /\ Leads(DiskOf(Formatted, f, r, sl), append_writes([fat |-> f, free |-> r], c, k),
                  DiskOf(Formatted, b.fat, b.free, Zeroed(sl, Chain(a.fat, r))), InOrder({}))
         /\ Safe(b.fat, b.free, Zeroed(sl, Chain(a.fat, r)), {})
<1> DEFINE K == HeadsOf(r, sl)
           tl == Zeroed(sl, Chain(a.fat, r))
           x == get_last_cluster_in_chain(f, c)
           y == get_last_cluster_in_chain(a.fat, c)
<1>1. /\ f \in [Clusters -> Links] /\ sl \in SlotMap /\ r \in Clusters /\ r \in Links
      /\ \A h \in Clusters : Ends(f, h)
  BY DEF Safe, Links
<1>2. Forest(f, K) /\ r \in K /\ InUse(sl) = K \ {r} /\ c \in K /\ c # r /\ c \in Clusters
  BY SafeHeads DEF Forest
<1>3. /\ PopResult(f, K, r, k, a) /\ Chain(f, r) = Chain(a.fat, r) \cup Chain(a.fat, a.free)
      /\ AppendResult(f, K, r, c, k, b)
      /\ Chain(f, c) \subseteq Chain(b.fat, c)
      /\ Chain(f, c) \cup Chain(f, r) = Chain(b.fat, c) \cup Chain(b.fat, b.free)
  BY <1>1, <1>2, PopFreeClusters, PopChains, AppendFreeClusters, AppendChains
<1>4. /\ Leads(DiskOf(Formatted, f, r, sl), pop_writes([fat |-> f, free |-> r], k),
               DiskOf(Formatted, a.fat, a.free, tl), InOrder({}))
      /\ Safe(a.fat, a.free, tl, {})
  BY PopLeads
<1>5. /\ b.fat = update_fat_entry(a.fat, y, r) /\ b.free = a.free
      /\ append_writes([fat |-> f, free |-> r], c, k)
           = pop_writes([fat |-> f, free |-> r], k) \o <<Link(a.fat, x, r)>>
  BY DEF append_free_clusters, append_writes
<1> HIDE DEF K, tl, x, y
<1>6. /\ b.fat \in [Clusters -> Links] /\ b.free \in Links
      /\ Forest(b.fat, (K \ {r}) \cup ({b.free} \ {END_OF_CHAIN}))
      /\ \A h \in K \ {r, c} : Chain(b.fat, h) = Chain(f, h)
      /\ b.free \notin K
  BY <1>3 DEF AppendResult
<1>7. y = x
  <2>1. Chain(a.fat, c) = Chain(f, c) /\ a.fat \in [Clusters -> Links] /\ Ends(a.fat, c)
    BY <1>2, <1>3 DEF PopResult, Forest
  <2>2. /\ x \in Chain(f, c) /\ f[x] = END_OF_CHAIN
        /\ y \in Chain(f, c) /\ a.fat[y] = END_OF_CHAIN
    BY <1>1, <1>2, <2>1, LastCluster DEF x, y
  <2>3. y \in Clusters /\ y \notin Chain(f, r)
    BY <1>1, <1>2, <2>2, ChainNext, ForestDisjoint
  <2>4. nth_cluster(f, r, k - 1) \in Chain(f, r)
    <3>1. k - 1 \in Nat /\ k - 1 < count_cluster_in_chain(f, r)
      BY <1>1, ChainFinite
    <3> QED
      BY <1>1, <3>1, NthCluster
  <2>5. a.fat = update_fat_entry(f, nth_cluster(f, r, k - 1), END_OF_CHAIN)
    BY DEF pop_free_clusters
  <2>6. a.fat[y] = f[y]
    BY <1>1, <2>3, <2>4, <2>5 DEF update_fat_entry
  <2> QED
    BY <1>1, <1>2, <2>2, <2>6, OneEnd
<1>8. x \in Clusters
  BY <1>1, <1>2, LastCluster DEF x
<1>9. Chain(a.fat, r) \subseteq Chain(f, r)
  BY <1>3
<1>10. /\ tl \in SlotMap
       /\ \A p \in Places : \/ At(tl, p) = At(sl, p)
                            \/ p[1] \in Chain(f, r) /\ At(tl, p).name \notin Names
  <2>1. FreeSlot.name \notin Names
    BY FreeSlotType, SpecialNames DEF NoName
  <2> QED
    BY <1>1, <1>9, <2>1, ZeroedFewer, ZeroedAt DEF tl
<1> DEFINE M == (K \ {r}) \cup ({b.free} \ {END_OF_CHAIN})
<1>11. \A h \in K \ {r} : Chain(b.fat, h) \cap Chain(b.fat, b.free) = {}
  <2> SUFFICES ASSUME NEW h \in K \ {r} PROVE Chain(b.fat, h) \cap Chain(b.fat, b.free) = {}
    OBVIOUS
  <2>1. CASE b.free = END_OF_CHAIN
    BY <2>1, ChainOfZero
  <2>2. CASE b.free # END_OF_CHAIN
    <3>1. h \in M /\ b.free \in M /\ h # b.free
      BY <1>6, <2>2
    <3> QED
      BY <1>6, <3>1, ForestDisjoint
  <2> QED
    BY <2>1, <2>2
<1>12. \A h, i \in K \ {r} : h # i => Chain(b.fat, h) \cap Chain(b.fat, i) = {}
  <2> SUFFICES ASSUME NEW h \in K \ {r}, NEW i \in K \ {r}, h # i
               PROVE  Chain(b.fat, h) \cap Chain(b.fat, i) = {}
    OBVIOUS
  <2>1. h \in M /\ i \in M
    OBVIOUS
  <2> QED
    BY <1>6, <2>1, ForestDisjoint
<1>13. Chain(b.fat, b.free) \subseteq Chain(f, r)
  BY <1>2, <1>3, <1>11
<1>14. \A h \in InUse(sl) : /\ Chain(f, h) \subseteq Chain(b.fat, h)
                            /\ Chain(b.fat, h) \subseteq Chain(f, h) \cup Chain(f, r)
                            /\ Chain(b.fat, h) \cap Chain(b.fat, b.free) = {}
  <2> SUFFICES ASSUME NEW h \in K \ {r}
               PROVE  /\ Chain(f, h) \subseteq Chain(b.fat, h)
                      /\ Chain(b.fat, h) \subseteq Chain(f, h) \cup Chain(f, r)
    BY <1>2, <1>11
  <2>1. CASE h = c
    BY <1>3, <2>1
  <2>2. CASE h # c
    BY <1>6, <2>2
  <2> QED
    BY <2>1, <2>2
<1>15. Safe(b.fat, b.free, tl, {})
  <2>1. \A h \in Clusters : Ends(b.fat, h)
    BY <1>6 DEF Forest
  <2>2. \A h, i \in InUse(sl) : h # i => Chain(b.fat, h) \cap Chain(b.fat, i) = {}
    BY <1>2, <1>12
  <2> DEFINE g == b.fat
             t == b.free
  <2>3. /\ g \in [Clusters -> Links] /\ t \in Links /\ (\A h \in Clusters : Ends(g, h))
        /\ Chain(g, t) \subseteq Chain(f, r)
        /\ \A h \in InUse(sl) : /\ Chain(f, h) \subseteq Chain(g, h)
                                /\ Chain(g, h) \subseteq Chain(f, h) \cup Chain(f, r)
                                /\ Chain(g, h) \cap Chain(g, t) = {}
        /\ \A h, i \in InUse(sl) : h # i => Chain(g, h) \cap Chain(g, i) = {}
    BY <1>6, <1>13, <1>14, <2>1, <2>2
  <2> HIDE DEF g, t
  <2>4. Safe(g, t, tl, {})
    BY <1>10, <2>3, QuietSafe
  <2> QED
    BY <2>4 DEF g, t
<1> DEFINE d2 == DiskOf(Formatted, a.fat, a.free, tl)
           d3 == DiskOf(Formatted, b.fat, b.free, tl)
<1>16. d2 \in InOrder({}) /\ d2 \in DiskStates /\ d3 \in DiskStates /\ a.fat \in [Clusters -> Links]
  <2>1. a.fat \in [Clusters -> Links] /\ a.free \in Links
    BY <1>4 DEF Safe
  <2> QED
    BY <1>4, <1>6, <1>10, <2>1, OrderedDisk, DiskParts, FileStates
<1>17. d3 = Written(d2, Link(a.fat, x, r)) /\ Link(a.fat, x, r) \in Writes
  BY <1>1, <1>5, <1>7, <1>8, <1>16, WriteLink
<1> HIDE DEF d2, d3
<1>18. Leads(d2, <<Link(a.fat, x, r)>>, d3, InOrder({}))
  BY <1>16, <1>17, LeadsOne
<1>19. Leads(DiskOf(Formatted, f, r, sl), append_writes([fat |-> f, free |-> r], c, k), d3, InOrder({}))
  BY <1>4, <1>5, <1>18, LeadsThen DEF d2
<1> QED
  BY <1>15, <1>19 DEF d3, tl

-----------------------------------------------------------------------------
(* The "." and ".." of a new directory *)

DotEntry(c)         == NewEntry(Dot, DIR_ENTRY_TYPE_SUBDIR, c)
DotDotEntry(parent) == NewEntry(DotDot, DIR_ENTRY_TYPE_SUBDIR, parent)

\* An entry is put in the first free slot.
LEMMA PutFirst ==
  ASSUME NEW sl, NEW c, NEW e, NEW s \in Slots, sl[c][s].name = NoName,
         \A t \in Slots : t < s => sl[c][t].name # NoName
  PROVE  PutInCluster(sl, c, e) = PutEntry(sl, <<c, s>>, e)
<1> DEFINE P(t) == /\ sl[c][t].name = NoName
                   /\ \A u \in Slots : sl[c][u].name = NoName => t <= u
           z == CHOOSE t \in Slots : P(t)
<1>1. \A t, u \in Slots : t \in Nat /\ (t <= u \/ u < t)
  BY DEF Slots
<1>2. P(s)
  BY <1>1
<1>3. z \in Slots /\ P(z)
  BY <1>2
<1>4. z = s
  <2>1. z <= s /\ s <= z /\ z \in Nat /\ s \in Nat
    BY <1>1, <1>2, <1>3
  <2> QED
    BY <2>1
<1>5. PutInCluster(sl, c, e) = PutEntry(sl, <<c, z>>, e)
  BY DEF PutInCluster, NoName
<1> QED
  BY <1>4, <1>5

\* In a zeroed cluster they are its first two entries.
LEMMA DotSlots ==
  ASSUME NEW sl \in SlotMap, NEW c \in Clusters, sl[c] = ZeroCluster, NEW parent \in Clusters,
         NEW ml, ml = PutEntry(sl, <<c, 0>>, DotEntry(c))
  PROVE  /\ <<c, 0>> \in Places /\ <<c, 1>> \in Places
         /\ DotEntry(c) \in DirEntry /\ DotDotEntry(parent) \in DirEntry
         /\ ml \in SlotMap
         /\ AddDots(sl, DIR_ENTRY_TYPE_SUBDIR, c, parent) = PutEntry(ml, <<c, 1>>, DotDotEntry(parent))
         /\ dot_writes(c, parent) = <<Put(<<c, 0>>, DotEntry(c)), Put(<<c, 1>>, DotDotEntry(parent))>>
         /\ AddDots(sl, DIR_ENTRY_TYPE_SUBDIR, c, parent) \in SlotMap
<1>1. 0 \in Slots /\ 1 \in Slots
  <2>1. 1 \in 0 .. BYTE_PER_CLUSTER /\ 1 * DIR_ENTRY_SIZE < BYTE_PER_CLUSTER
    BY LayoutAssumption
  <2> QED
    BY <2>1, SlotZero DEF Slots
<1>2. <<c, 0>> \in Places /\ <<c, 1>> \in Places
  BY <1>1 DEF Places
<1>3. DotEntry(c) \in DirEntry /\ DotDotEntry(parent) \in DirEntry
  <2>1. Dot \in Names \cup {"", ".", ".."} /\ DotDot \in Names \cup {"", ".", ".."}
    BY DEF Dot, DotDot
  <2> QED
    BY <2>1, NewEntryType DEF DotEntry, DotDotEntry, Links
<1>4. \A s \in Slots : sl[c][s].name = NoName
  BY FreeSlotType DEF ZeroCluster, NoName
<1>5. PutInCluster(sl, c, DotEntry(c)) = ml
  <2>1. \A t \in Slots : ~(t < 0)
    BY DEF Slots
  <2> QED
    BY <1>1, <1>4, <2>1, PutFirst
<1>6. ml \in SlotMap /\ ml[c][0] = DotEntry(c) /\ ml[c][1] = sl[c][1]
  <2>1. At(ml, <<c, 0>>) = DotEntry(c) /\ At(ml, <<c, 1>>) = At(sl, <<c, 1>>) /\ ml \in SlotMap
    <3>1. <<c, 0>> # <<c, 1>>
      OBVIOUS
    <3> QED
      BY <1>2, <1>3, <3>1, PutAt
  <2> QED
    BY <2>1 DEF At
<1>7. PutInCluster(ml, c, DotDotEntry(parent)) = PutEntry(ml, <<c, 1>>, DotDotEntry(parent))
  <2>1. ml[c][1].name = NoName
    BY <1>1, <1>4, <1>6
  <2>2. DotEntry(c).name # NoName
    BY NewEntryFields, SpecialNames DEF DotEntry
  <2>3. \A t \in Slots : t < 1 => ml[c][t].name # NoName
    <3> SUFFICES ASSUME NEW t \in Slots, t < 1 PROVE ml[c][t].name # NoName
      OBVIOUS
    <3>1. t = 0
      BY DEF Slots
    <3> QED
      BY <1>6, <2>2, <3>1
  <2> QED
    BY <1>1, <2>1, <2>3, PutFirst
<1>8. AddDots(sl, DIR_ENTRY_TYPE_SUBDIR, c, parent) = PutInCluster(PutInCluster(sl, c, DotEntry(c)), c, DotDotEntry(parent))
  BY DEF AddDots, DotEntry, DotDotEntry, Dot, DotDot
<1>9. dot_writes(c, parent) = <<Put(<<c, 0>>, DotEntry(c)), Put(<<c, 1>>, DotDotEntry(parent))>>
  BY DEF dot_writes, DotEntry, DotDotEntry, Dot, DotDot
<1>10. PutEntry(ml, <<c, 1>>, DotDotEntry(parent)) \in SlotMap
  BY <1>2, <1>3, <1>6, PutAt
<1> QED
  BY <1>2, <1>3, <1>5, <1>6, <1>7, <1>8, <1>9, <1>10

\* They are written to a disk that is in order with and without them.
LEMMA DotLeads ==
  ASSUME NEW f, NEW r, NEW sl \in SlotMap, NEW c \in Clusters, sl[c] = ZeroCluster,
         NEW parent \in Clusters, NEW tl, tl = AddDots(sl, DIR_ENTRY_TYPE_SUBDIR, c, parent),
         Safe(f, r, tl, {})
  PROVE  /\ Leads(DiskOf(Formatted, f, r, sl), dot_writes(c, parent), DiskOf(Formatted, f, r, tl), InOrder({}))
         /\ Safe(f, r, sl, {})
<1> DEFINE ml == PutEntry(sl, <<c, 0>>, DotEntry(c))
           d0 == DiskOf(Formatted, f, r, sl)
           d1 == DiskOf(Formatted, f, r, ml)
           d2 == DiskOf(Formatted, f, r, tl)
           v  == Put(<<c, 0>>, DotEntry(c))
           w  == Put(<<c, 1>>, DotDotEntry(parent))
<1>1. f \in [Clusters -> Links] /\ r \in Links
  BY DEF Safe
<1>2. /\ <<c, 0>> \in Places /\ <<c, 1>> \in Places
      /\ DotEntry(c) \in DirEntry /\ DotDotEntry(parent) \in DirEntry
      /\ ml \in SlotMap
      /\ tl = PutEntry(ml, <<c, 1>>, DotDotEntry(parent))
      /\ dot_writes(c, parent) = <<v, w>>
      /\ tl \in SlotMap
  BY DotSlots
<1>3. /\ At(ml, <<c, 0>>) = DotEntry(c)
      /\ \A p \in Places : p # <<c, 0>> => At(ml, p) = At(sl, p)
      /\ At(tl, <<c, 1>>) = DotDotEntry(parent)
      /\ \A p \in Places : p # <<c, 1>> => At(tl, p) = At(ml, p)
  BY <1>2, PutAt
<1>4. DotEntry(c).name \notin Names /\ DotDotEntry(parent).name \notin Names
  BY NewEntryFields, SpecialNames DEF DotEntry, DotDotEntry
<1>5. \A s \in Slots : At(sl, <<c, s>>).name = NoName
  BY FreeSlotType DEF ZeroCluster, NoName, At
<1>6. 0 \in Slots /\ 1 \in Slots /\ <<c, 0>> # <<c, 1>>
  BY <1>2 DEF Places
<1>7. At(sl, <<c, 0>>).name = NoName /\ At(sl, <<c, 1>>).name = NoName /\ At(ml, <<c, 1>>).name = NoName
  BY <1>2, <1>3, <1>5, <1>6
<1>8. v \in Writes /\ w \in Writes /\ d1 = Written(d0, v) /\ d2 = Written(d1, w)
  BY <1>2, WritePut
<1> HIDE DEF ml, v, w, d0, d1, d2
<1>9. Safe(f, r, ml, {})
  <2>1. \A p \in Places : At(ml, p) = At(tl, p) \/ (At(ml, p).name = NoName /\ At(tl, p).name \notin Names)
    BY <1>3, <1>4, <1>7
  <2> QED
    BY <1>2, <2>1, UndottedSafe
<1>10. Safe(f, r, sl, {})
  <2>1. \A p \in Places : At(sl, p) = At(ml, p) \/ (At(sl, p).name = NoName /\ At(ml, p).name \notin Names)
    BY <1>3, <1>4, <1>7
  <2> QED
    BY <1>9, <2>1, UndottedSafe
<1>11. d0 \in InOrder({}) /\ d1 \in InOrder({}) /\ d0 \in DiskStates /\ d1 \in DiskStates /\ d2 \in DiskStates
  BY <1>1, <1>2, <1>9, <1>10, OrderedDisk, DiskParts, FileStates DEF d0, d1, d2
<1>12. Leads(d0, <<v, w>>, d2, InOrder({}))
  BY <1>8, <1>11, LeadsTwo
<1> QED
  BY <1>2, <1>10, <1>12 DEF d0, d2

-----------------------------------------------------------------------------
(* Handlers *)

\* What a handler leaves in memory is in order as well.
LEMMA SafeAfter ==
  ASSUME TreeInv'
  PROVE  Safe(fat', free', slots', {})
<1>1. (TreeInv => Safe(fat, free, slots, {}))'
  BY SafeIsTreeInv, PTL
<1> QED
  BY <1>1

\* Zeroing free clusters changes no entry.
LEMMA ZeroedInUse ==
  ASSUME NEW f, NEW r, NEW sl, Safe(f, r, sl, {}), NEW Z, Z \subseteq Chain(f, r)
  PROVE  InUse(Zeroed(sl, Z)) = InUse(sl)
<1> DEFINE tl == Zeroed(sl, Z)
<1>1. sl \in SlotMap
  BY DEF Safe
<1>2. \A p \in Places : p[1] \in Chain(f, r) => p \notin Named(sl)
  BY SafeTree
<1>3. FreeSlot.name \notin Names
  BY FreeSlotType, SpecialNames DEF NoName
<1>4. ASSUME NEW p \in Places
      PROVE  (p \in Named(tl) <=> p \in Named(sl)) /\ (p \in Named(sl) => At(tl, p) = At(sl, p))
  <2>1. CASE p[1] \in Z
    <3>1. At(tl, p) = FreeSlot
      BY <1>1, <2>1, ZeroedAt
    <3> QED
      BY <1>2, <1>3, <2>1, <3>1 DEF Named
  <2>2. CASE p[1] \notin Z
    <3>1. At(tl, p) = At(sl, p)
      BY <1>1, <2>2, ZeroedAt
    <3> QED
      BY <3>1 DEF Named
  <2> QED
    BY <2>1, <2>2
<1> HIDE DEF tl
<1>5. Named(tl) = Named(sl) /\ \A p \in Named(sl) : At(tl, p) = At(sl, p)
  BY <1>4 DEF Named
<1>6. EntriesOf(tl) = EntriesOf(sl) /\ \A p \in EntriesOf(sl) : At(tl, p) = At(sl, p)
  BY <1>5 DEF EntriesOf
<1>7. Firsts(tl) = Firsts(sl)
  BY <1>6 DEF Firsts
<1> QED
  BY <1>7 DEF InUse, tl

\* A search has one result.
LEMMA FoundOnce ==
  ASSUME NEW f \in [Clusters -> Links], \A x \in Clusters : Ends(f, x), NEW d \in Clusters, NEW sl, NEW name,
         NEW p \in Found(f, sl, d, name), NEW q \in Found(f, sl, d, name)
  PROVE  p = q
<1> DEFINE holding == {x \in Chain(f, d) : \E s \in Slots : sl[x][s].name = name}
<1>1. /\ p \in holding \X Slots /\ q \in holding \X Slots
      /\ holding \subseteq Chain(f, p[1]) /\ holding \subseteq Chain(f, q[1])
      /\ sl[p[1]][p[2]].name = name /\ sl[q[1]][q[2]].name = name
      /\ \A s \in Slots : sl[p[1]][s].name = name => p[2] <= s
      /\ \A s \in Slots : sl[q[1]][s].name = name => q[2] <= s
  BY DEF Found, At
<1>2. holding \subseteq Chain(f, d) /\ Chain(f, d) \subseteq Clusters
  BY ChainBasics
<1> HIDE DEF holding
<1>3. /\ p[1] \in holding /\ q[1] \in holding /\ p[2] \in Slots /\ q[2] \in Slots
      /\ p = <<p[1], p[2]>> /\ q = <<q[1], q[2]>>
  BY <1>1
<1>4. p[1] = q[1]
  BY <1>1, <1>2, <1>3, MutualChains
<1>5. p[2] <= q[2] /\ q[2] <= p[2]
  BY <1>1, <1>3, <1>4
<1>6. p[2] \in Nat /\ q[2] \in Nat
  BY <1>3 DEF Slots
<1>7. p[2] = q[2]
  BY <1>5, <1>6
<1> QED
  BY <1>3, <1>4, <1>7

\* The search for a free slot in memory.
LEMMA FreeSlotFound ==
  ASSUME TreeInv, NEW d \in Reach(fat, slots), NEW p \in FirstSlot(d, NoName)
  PROVE  /\ p \in Places /\ p[1] \notin Chain(fat, free)
         /\ \A q \in FirstSlot(d, NoName) : q = p
<1>1. fat \in [Clusters -> Links] /\ (\A x \in Clusters : Ends(fat, x)) /\ FatInv
  BY InvFacts DEF TreeInv, Forest
<1>2. d \in Clusters /\ d \in Heads \ {free}
  BY TreeFacts
<1>3. \A q \in FirstSlot(d, NoName) : q = p
  BY <1>1, <1>2, SearchIs, FoundOnce
<1>4. p \in Places
  BY <1>1, <1>2, FirstSlotPlace
<1>5. p[1] \in Chain(fat, d)
  BY DEF FirstSlot
<1>6. Chain(fat, d) \cap Chain(fat, free) = {}
  <2>1. CASE free = END_OF_CHAIN
    BY <2>1, ChainOfZero
  <2>2. CASE free # END_OF_CHAIN
    BY <1>1, <1>2, <2>2, InvFacts, TreeFacts
  <2> QED
    BY <2>1, <2>2
<1> QED
  BY <1>3, <1>4, <1>5, <1>6

\* The entry that add_dir_entry_to_cluster writes to slot p.
EntryFor(p, name, type, c) == IF Fits(p[2]) THEN NewEntry(name, type, c) ELSE TornEntry(name)

Survives == daemon' = "up"

\* The outcomes of add_dir_entry, as far as the disk tells them apart.
LEMMA InsertOutcomes ==
  ASSUME NEW d, NEW name, NEW type, NEW a, a = pop_free_clusters(Alloc, 1),
         NEW zl, zl = Zeroed(slots, {free}), add_dir_entry(d, name, type)
  PROVE  \/ /\ name \in LongNames \/ (name \in Names /\ FirstSlot(d, NoName) = {} /\ ~has_free_cluster(a))
            /\ fat' = a.fat /\ free' = a.free /\ slots' = AddDots(zl, type, free, d) /\ Survives
         \/ /\ name \in Names /\ fat' = a.fat /\ free' = a.free
            /\ \E p \in FirstSlot(d, NoName) :
                  \/ slots' = AddDots(PutEntry(zl, p, EntryFor(p, name, type, free)), type, free, d) /\ Survives
                  \/ slots' = PutEntry(zl, p, EntryFor(p, name, type, free)) /\ ~Survives
         \/ /\ name \in Names /\ FirstSlot(d, NoName) = {} /\ has_free_cluster(a)
            /\ fat' = add_free_cluster(a, d).fat /\ free' = add_free_cluster(a, d).free
            /\ slots' = AddDots(PutEntry(Zeroed(zl, {a.free}), <<a.free, 0>>, NewEntry(name, type, free)),
                                type, free, d)
            /\ Survives
<1>1. CASE InsertFails(d, name, type, free, a, zl)
  BY <1>1 DEF InsertFails, SetAlloc, NoName, Survives
<1>2. CASE InsertInSlot(d, name, type, free, a, zl)
  <2>1. PICK p \in FirstSlot(d, NoName) :
           Fits(p[2]) /\ slots' = AddDots(PutEntry(zl, p, NewEntry(name, type, free)), type, free, d)
    BY <1>2 DEF InsertInSlot, NoName
  <2>2. name \in Names /\ fat' = a.fat /\ free' = a.free /\ Survives
    BY <1>2 DEF InsertInSlot, SetAlloc, Survives
  <2>3. EntryFor(p, name, type, free) = NewEntry(name, type, free)
    BY <2>1 DEF EntryFor
  <2> QED
    BY <2>1, <2>2, <2>3
<1>3. CASE InsertTorn(d, name, type, free, a, zl)
  <2>1. PICK p \in FirstSlot(d, NoName) :
           /\ ~Fits(p[2])
           /\ \/ slots' = AddDots(PutEntry(zl, p, TornEntry(name)), type, free, d) /\ daemon' = "up"
              \/ slots' = PutEntry(zl, p, TornEntry(name)) /\ daemon' = "abort"
    BY <1>3 DEF InsertTorn, NoName
  <2>2. name \in Names /\ fat' = a.fat /\ free' = a.free
    BY <1>3 DEF InsertTorn, SetAlloc
  <2>3. EntryFor(p, name, type, free) = TornEntry(name)
    BY <2>1 DEF EntryFor
  <2>4. \/ slots' = AddDots(PutEntry(zl, p, TornEntry(name)), type, free, d) /\ Survives
        \/ slots' = PutEntry(zl, p, TornEntry(name)) /\ ~Survives
    BY <2>1 DEF Survives
  <2> QED
    BY <2>2, <2>3, <2>4
<1>4. CASE InsertInNewCluster(d, name, type, free, a, zl)
  BY <1>4 DEF InsertInNewCluster, SetAlloc, NoName, Survives
<1> QED
  BY <1>1, <1>2, <1>3, <1>4 DEF add_dir_entry

\* What add_dir_entry_to_cluster writes in each of them.
LEMMA InsertWrites ==
  ASSUME NEW d, NEW name, NEW type, NEW c, NEW a
  PROVE  /\ name \in LongNames => insert_writes(d, name, type, c, a) = << >>
         /\ name \in Names /\ FirstSlot(d, NoName) = {} =>
               insert_writes(d, name, type, c, a) =
                  IF has_free_cluster(a) THEN new_cluster_writes(d, NewEntry(name, type, c), a) ELSE << >>
         /\ \A p \in FirstSlot(d, NoName) :
               name \in Names /\ (\A q \in FirstSlot(d, NoName) : q = p) =>
                  insert_writes(d, name, type, c, a) = <<Put(p, EntryFor(p, name, type, c))>>
<1>1. name \in LongNames => insert_writes(d, name, type, c, a) = << >>
  BY RequestAssumption DEF insert_writes
<1>2. ASSUME name \in Names, FirstSlot(d, NoName) = {}
      PROVE  insert_writes(d, name, type, c, a) =
                  IF has_free_cluster(a) THEN new_cluster_writes(d, NewEntry(name, type, c), a) ELSE << >>
  BY <1>2 DEF insert_writes, NoName
<1>3. ASSUME NEW p \in FirstSlot(d, NoName), name \in Names, \A q \in FirstSlot(d, NoName) : q = p
      PROVE  insert_writes(d, name, type, c, a) = <<Put(p, EntryFor(p, name, type, c))>>
  <2> DEFINE z == CHOOSE q \in FirstSlot(d, NoName) : TRUE
  <2>1. z = p
    BY <1>3
  <2>2. FirstSlot(d, NoName) # {}
    BY <1>3
  <2>3. insert_writes(d, name, type, c, a) = <<Put(z, EntryFor(z, name, type, c))>>
    BY <1>3, <2>2 DEF insert_writes, NoName, EntryFor
  <2> HIDE DEF z
  <2> QED
    BY <2>1, <2>3
<1> QED
  BY <1>1, <1>2, <1>3

\* The writes add_dir_entry ends with.
dots_after(type, c, parent) == IF type = DIR_ENTRY_TYPE_SUBDIR THEN dot_writes(c, parent) ELSE << >>

\* "." and "..", for a directory only, complete a disk.
LEMMA FinishLeads ==
  ASSUME NEW f, NEW r, NEW sl \in SlotMap, NEW c \in Clusters, sl[c] = ZeroCluster,
         NEW parent \in Clusters, NEW type, NEW tl, tl = AddDots(sl, type, c, parent),
         Safe(f, r, tl, {})
  PROVE  /\ Leads(DiskOf(Formatted, f, r, sl), dots_after(type, c, parent),
                  DiskOf(Formatted, f, r, tl), InOrder({}))
         /\ Safe(f, r, sl, {})
<1>1. CASE type = DIR_ENTRY_TYPE_SUBDIR
  BY <1>1, DotLeads DEF dots_after
<1>2. CASE type # DIR_ENTRY_TYPE_SUBDIR
  <2>1. tl = sl /\ dots_after(type, c, parent) = << >>
    BY <1>2 DEF AddDots, dots_after
  <2>2. DiskOf(Formatted, f, r, sl) \in DiskStates
    BY <2>1, DiskParts, FileStates DEF Safe
  <2> QED
    BY <2>1, <2>2, LeadsNone
<1> QED
  BY <1>1, <1>2

\* An entry is put into a disk in order.
LEMMA PutLeads ==
  ASSUME NEW f, NEW r, NEW sl, NEW Q, Safe(f, r, sl, Q), NEW p \in Places, NEW e \in DirEntry
  PROVE  Leads(DiskOf(Formatted, f, r, sl), <<Put(p, e)>>, DiskOf(Formatted, f, r, PutEntry(sl, p, e)), InOrder(Q))
<1>1. f \in [Clusters -> Links] /\ r \in Links /\ sl \in SlotMap
  BY DEF Safe
<1>2. PutEntry(sl, p, e) \in SlotMap
  BY <1>1, PutAt
<1> DEFINE d0 == DiskOf(Formatted, f, r, sl)
           d1 == DiskOf(Formatted, f, r, PutEntry(sl, p, e))
<1>3. d0 \in DiskStates /\ d1 \in DiskStates /\ d0 \in InOrder(Q)
  BY <1>1, <1>2, DiskParts, FileStates, OrderedDisk
<1>4. Put(p, e) \in Writes /\ d1 = Written(d0, Put(p, e))
  BY WritePut
<1> HIDE DEF d0, d1
<1>5. Leads(d0, <<Put(p, e)>>, d1, InOrder(Q))
  BY <1>3, <1>4, LeadsOne
<1> QED
  BY <1>5 DEF d0, d1

\* A cluster that is neither the one of the slot written nor changed otherwise.
LEMMA PutElsewhere ==
  ASSUME NEW sl \in SlotMap, NEW p \in Places, NEW e, NEW c \in Clusters, p[1] # c
  PROVE  PutEntry(sl, p, e)[c] = sl[c]
  BY DEF PutEntry, Places, SlotMap

\* The writes of add_dir_entry lead to what it leaves in memory.
LEMMA CreateLeads ==
  ASSUME TreeInv, TreeInv', has_free_cluster(Alloc), NEW d \in Reach(fat, slots),
         NEW name \in Names \cup LongNames,
         NEW type \in {DIR_ENTRY_TYPE_FILE, DIR_ENTRY_TYPE_SUBDIR},
         add_dir_entry(d, name, type)
  PROVE  Leads(DiskOf(Formatted, fat, free, slots), create_writes(d, name, type, Survives),
               DiskOf(Formatted, fat', free', slots'), InOrder({}))
<1> DEFINE a  == pop_free_clusters(Alloc, 1)
           zl == Zeroed(slots, {free})
           ends == IF Survives /\ type = DIR_ENTRY_TYPE_SUBDIR THEN dot_writes(free, d) ELSE << >>
           ins == insert_writes(d, name, type, free, a)
           d0 == DiskOf(Formatted, fat, free, slots)
           d1 == DiskOf(Formatted, a.fat, a.free, zl)
           dn == DiskOf(Formatted, fat', free', slots')
<1>1. /\ FatInv /\ Safe(fat, free, slots, {}) /\ Safe(fat', free', slots', {})
      /\ slots \in SlotMap /\ fat \in [Clusters -> Links]
  BY SafeIsTreeInv, SafeAfter, InvFacts DEF TreeInv
<1>2. free # END_OF_CHAIN /\ free \in Clusters /\ free \in Chain(fat, free) /\ free \in Links
  <2>1. free # END_OF_CHAIN /\ free \in Links
    BY <1>1, ClusterAssumption DEF has_free_cluster, Alloc, END_OF_CHAIN, Safe
  <2>2. free \in Clusters
    BY <2>1 DEF Links
  <2> QED
    BY <1>1, <2>1, <2>2, ChainBasics
<1>3. 1 <= count_cluster_in_chain(fat, free) /\ d \in Clusters
  BY <1>1, <1>2, InvFacts, PopOne, TreeFacts
<1>4. Alloc = [fat |-> fat, free |-> free] /\ 1 \in Nat \ {0}
  BY DEF Alloc
<1>5. Chain(a.fat, free) = {free}
  BY <1>1, <1>2, <1>3, PopOneChain
<1>6. Leads(d0, pop_writes(Alloc, 1), d1, InOrder({})) /\ Safe(a.fat, a.free, zl, {})
  BY <1>1, <1>2, <1>3, <1>4, <1>5, PopLeads
<1>7. zl \in SlotMap /\ zl[free] = ZeroCluster
  BY <1>1, <1>2, ZeroedFewer DEF Zeroed
<1>8. create_writes(d, name, type, Survives) = (pop_writes(Alloc, 1) \o ins) \o ends
  BY DEF create_writes
<1>9. Survives => ends = dots_after(type, free, d)
  BY DEF dots_after
<1>10. a = [fat |-> a.fat, free |-> a.free]
  BY DEF pop_free_clusters
<1>11. name \in Names => NewEntry(name, type, free) \in DirEntry /\ TornEntry(name) \in DirEntry
  BY <1>2, NewEntryType DEF TornEntry, Links, END_OF_CHAIN
<1> HIDE DEF ends, ins
<1>12. ASSUME NEW m, Leads(d1, ins, m, InOrder({})), Leads(m, ends, dn, InOrder({}))
       PROVE  Leads(d0, create_writes(d, name, type, Survives), dn, InOrder({}))
  <2> HIDE DEF a, zl, d0, d1, dn
  <2>1. Leads(d0, pop_writes(Alloc, 1) \o ins, m, InOrder({}))
    BY <1>6, <1>12, LeadsThen
  <2> QED
    BY <1>8, <1>12, <2>1, LeadsThen
<1>13. d1 \in DiskStates /\ dn \in DiskStates
  <2>1. a.fat \in [Clusters -> Links] /\ a.free \in Links
    BY <1>6 DEF Safe
  <2>2. fat' \in [Clusters -> Links] /\ free' \in Links /\ slots' \in SlotMap
    BY <1>1 DEF Safe
  <2> HIDE DEF a, zl
  <2>3. d1 \in DiskStates
    BY <1>7, <2>1, DiskParts, FileStates
  <2>4. dn \in DiskStates
    BY <2>2, DiskParts, FileStates
  <2> QED
    BY <2>3, <2>4
<1>14. ASSUME name \in LongNames \/ (name \in Names /\ FirstSlot(d, NoName) = {} /\ ~has_free_cluster(a)),
              fat' = a.fat, free' = a.free, slots' = AddDots(zl, type, free, d), Survives
       PROVE  Leads(d0, create_writes(d, name, type, Survives), dn, InOrder({}))
  <2>1. ins = << >>
    BY <1>14, InsertWrites DEF ins
  <2>2. Leads(d1, ins, d1, InOrder({}))
    BY <1>13, <2>1, LeadsNone
  <2>3. Safe(a.fat, a.free, AddDots(zl, type, free, d), {})
    BY <1>1, <1>14
  <2> HIDE DEF a, zl
  <2>4. Leads(d1, dots_after(type, free, d), DiskOf(Formatted, a.fat, a.free, AddDots(zl, type, free, d)), InOrder({}))
    BY <1>2, <1>3, <1>7, <2>3, FinishLeads
  <2>5. Leads(d1, ends, dn, InOrder({}))
    BY <1>9, <1>14, <2>4
  <2> QED
    BY <1>12, <2>2, <2>5
<1>15. ASSUME name \in Names, fat' = a.fat, free' = a.free, NEW p \in FirstSlot(d, NoName),
              NEW e, e = EntryFor(p, name, type, free), NEW ml, ml = PutEntry(zl, p, e),
              (slots' = AddDots(ml, type, free, d) /\ Survives) \/ (slots' = ml /\ ~Survives)
       PROVE  Leads(d0, create_writes(d, name, type, Survives), dn, InOrder({}))
  <2>1. p \in Places /\ p[1] # free /\ \A q \in FirstSlot(d, NoName) : q = p
    BY <1>2, FreeSlotFound
  <2>2. ins = <<Put(p, e)>> /\ e \in DirEntry
    BY <1>11, <1>15, <2>1, InsertWrites DEF ins, EntryFor
  <2> HIDE DEF a, zl
  <2>3. Leads(d1, ins, DiskOf(Formatted, a.fat, a.free, ml), InOrder({}))
    BY <1>6, <1>15, <2>1, <2>2, PutLeads
  <2>4. ml \in SlotMap /\ ml[free] = ZeroCluster
    BY <1>2, <1>7, <1>15, <2>1, <2>2, PutAt, PutElsewhere
  <2>5. Leads(DiskOf(Formatted, a.fat, a.free, ml), ends, dn, InOrder({}))
    <3>1. CASE slots' = AddDots(ml, type, free, d) /\ Survives
      <4>1. Safe(a.fat, a.free, AddDots(ml, type, free, d), {})
        BY <1>1, <1>15, <3>1
      <4>2. Leads(DiskOf(Formatted, a.fat, a.free, ml), dots_after(type, free, d),
                  DiskOf(Formatted, a.fat, a.free, AddDots(ml, type, free, d)), InOrder({}))
        BY <1>2, <1>3, <2>4, <4>1, FinishLeads
      <4> QED
        BY <1>9, <1>15, <3>1, <4>2
    <3>2. CASE slots' = ml /\ ~Survives
      <4>1. ends = << >>
        BY <3>2 DEF ends
      <4>2. dn = DiskOf(Formatted, a.fat, a.free, ml)
        BY <1>15, <3>2
      <4> QED
        BY <1>13, <4>1, <4>2, LeadsNone
    <3> QED
      BY <1>15, <3>1, <3>2
  <2> QED
    BY <1>12, <2>3, <2>5
<1>16. ASSUME name \in Names, FirstSlot(d, NoName) = {}, has_free_cluster(a),
              NEW b, b = add_free_cluster(a, d), fat' = b.fat, free' = b.free,
              NEW e, e = NewEntry(name, type, free),
              NEW yl, yl = Zeroed(zl, {a.free}), NEW ml, ml = PutEntry(yl, <<a.free, 0>>, e),
              slots' = AddDots(ml, type, free, d), Survives
       PROVE  Leads(d0, create_writes(d, name, type, Survives), dn, InOrder({}))
  <2>1. ins = append_writes(a, d, 1) \o <<Put(<<a.free, 0>>, e)>>
    BY <1>16, InsertWrites DEF ins, new_cluster_writes
  <2>2. a.free # END_OF_CHAIN /\ a.free \in Clusters
    <3>1. a.free # END_OF_CHAIN /\ a.free \in Links
      BY <1>6, <1>16, ClusterAssumption DEF has_free_cluster, END_OF_CHAIN, Safe
    <3> QED
      BY <3>1 DEF Links
  <2>3. a.free # free
    BY <1>1, <1>2, <1>3, InvFacts, Popped
  <2>4. d \in InUse(zl)
    <3>1. d \in InUse(slots)
      BY <1>1, SafeTree
    <3>2. {free} \subseteq Chain(fat, free)
      BY <1>2
    <3> QED
      BY <1>1, <3>1, <3>2, ZeroedInUse
  <2> HIDE DEF zl
  <2> DEFINE g == a.fat
             s == a.free
  <2>5. Safe(g, s, zl, {}) /\ a = [fat |-> g, free |-> s]
    BY <1>6, <1>10
  <2>6. /\ g \in [Clusters -> Links] /\ s \in Clusters /\ s # END_OF_CHAIN /\ s # free
        /\ b = append_free_clusters([fat |-> g, free |-> s], d, 1)
        /\ ins = append_writes([fat |-> g, free |-> s], d, 1) \o <<Put(<<s, 0>>, e)>>
        /\ yl = Zeroed(zl, {s}) /\ ml = PutEntry(yl, <<s, 0>>, e)
        /\ d1 = DiskOf(Formatted, g, s, zl)
    BY <1>16, <2>1, <2>2, <2>3, <2>5 DEF add_free_cluster, Safe
  <2> HIDE DEF a, g, s, d1
  <2>7. Forest(g, HeadsOf(s, zl)) /\ s \in HeadsOf(s, zl)
    BY <2>5, <2>6, SafeHeads
  <2>8. 1 <= count_cluster_in_chain(g, s) /\ 1 \in Nat \ {0}
    BY <2>6, <2>7, PopOne
  <2> DEFINE t == pop_free_clusters([fat |-> g, free |-> s], 1)
  <2>9. Chain(t.fat, s) = {s}
    <3>1. Chain(t.fat, s) = FirstClusters(g, s, 1)
      BY <2>6, <2>7, <2>8, PoppedClusters
    <3>2. FirstClusters(g, s, 1) = {nth_cluster(g, s, 0)}
      BY DEF FirstClusters
    <3>3. s \in Chain(t.fat, s)
      <4>1. t.fat \in [Clusters -> Links]
        <5>1. PopResult(g, HeadsOf(s, zl), s, 1, t)
          BY <2>6, <2>7, <2>8, PopFreeClusters
        <5> HIDE DEF t
        <5> QED
          BY <5>1 DEF PopResult
      <4> QED
        BY <2>6, <4>1, ChainBasics
    <3> HIDE DEF t
    <3> QED
      BY <3>1, <3>2, <3>3
  <2>10. /\ Leads(d1, append_writes([fat |-> g, free |-> s], d, 1),
                   DiskOf(Formatted, b.fat, b.free, Zeroed(zl, Chain(t.fat, s))), InOrder({}))
         /\ Safe(b.fat, b.free, Zeroed(zl, Chain(t.fat, s)), {})
    BY <2>4, <2>5, <2>6, <2>8, AppendLeads
  <2> HIDE DEF t
  <2>11. /\ Leads(d1, append_writes([fat |-> g, free |-> s], d, 1), DiskOf(Formatted, b.fat, b.free, yl), InOrder({}))
         /\ Safe(b.fat, b.free, yl, {})
    BY <2>6, <2>9, <2>10
  <2>12. <<s, 0>> \in Places /\ e \in DirEntry /\ yl \in SlotMap /\ yl[free] = ZeroCluster /\ <<s, 0>>[1] # free
    <3>1. yl \in SlotMap /\ yl[free] = ZeroCluster
      BY <1>2, <1>7, <2>6, ZeroedFewer DEF Zeroed
    <3>2. <<s, 0>> \in Places
      BY <2>6, SlotZero DEF Places
    <3> QED
      BY <1>11, <1>16, <2>6, <3>1, <3>2
  <2>13. Leads(DiskOf(Formatted, b.fat, b.free, yl), <<Put(<<s, 0>>, e)>>,
               DiskOf(Formatted, b.fat, b.free, ml), InOrder({}))
    BY <2>6, <2>11, <2>12, PutLeads
  <2>14. Leads(d1, ins, DiskOf(Formatted, b.fat, b.free, ml), InOrder({}))
    BY <2>6, <2>11, <2>13, LeadsThen
  <2>15. ml \in SlotMap /\ ml[free] = ZeroCluster
    BY <1>2, <2>6, <2>12, PutAt, PutElsewhere
  <2>16. Safe(b.fat, b.free, AddDots(ml, type, free, d), {})
    BY <1>1, <1>16
  <2>17. Leads(DiskOf(Formatted, b.fat, b.free, ml), dots_after(type, free, d),
               DiskOf(Formatted, b.fat, b.free, AddDots(ml, type, free, d)), InOrder({}))
    BY <1>2, <1>3, <2>15, <2>16, FinishLeads
  <2>18. Leads(DiskOf(Formatted, b.fat, b.free, ml), ends, dn, InOrder({}))
    BY <1>9, <1>16, <2>17
  <2> QED
    BY <1>12, <2>14, <2>18
<1> HIDE DEF a, zl, dn, d0
<1> DEFINE fa == name \in LongNames \/ (name \in Names /\ FirstSlot(d, NoName) = {} /\ ~has_free_cluster(a))
<1>17. \/ fa /\ fat' = a.fat /\ free' = a.free /\ slots' = AddDots(zl, type, free, d) /\ Survives
       \/ /\ name \in Names /\ fat' = a.fat /\ free' = a.free
          /\ \E p \in FirstSlot(d, NoName) :
                \/ slots' = AddDots(PutEntry(zl, p, EntryFor(p, name, type, free)), type, free, d) /\ Survives
                \/ slots' = PutEntry(zl, p, EntryFor(p, name, type, free)) /\ ~Survives
       \/ /\ name \in Names /\ FirstSlot(d, NoName) = {} /\ has_free_cluster(a)
          /\ fat' = add_free_cluster(a, d).fat /\ free' = add_free_cluster(a, d).free
          /\ slots' = AddDots(PutEntry(Zeroed(zl, {a.free}), <<a.free, 0>>, NewEntry(name, type, free)),
                              type, free, d)
          /\ Survives
  BY InsertOutcomes DEF a, zl
<1> QED
  BY <1>14, <1>15, <1>16, <1>17 DEF dn, d0

-----------------------------------------------------------------------------
(* Growing *)

\* Whole multiples of a number do not change the remainder.
LEMMA ModTimes ==
  ASSUME NEW m \in Nat \ {0}, NEW y \in Nat, NEW k \in Nat
  PROVE  (y + m * k) % m = y % m
<1>1. y % m \in 0 .. m - 1 /\ y \div m \in Nat /\ y = m * (y \div m) + (y % m)
  BY SMT
<1>2. \A q, j, n, i \in Nat : j < m /\ i < m /\ m * q + j = m * n + i => j = i
  <2> SUFFICES ASSUME NEW q \in Nat, NEW j \in Nat, NEW n \in Nat, NEW i \in Nat,
                      j < m, i < m, m * q + j = m * n + i
               PROVE  j = i
    OBVIOUS
  <2>0. m * q \in Nat /\ m * n \in Nat
    BY TimesMonotone
  <2>1. CASE q < n
    <3>1. m * (q + 1) <= m * n
      BY <2>1, TimesMonotone
    <3>2. m * (q + 1) = m * q + m
      BY SMT
    <3> QED
      BY <2>0, <3>1, <3>2
  <2>2. CASE n < q
    <3>1. m * (n + 1) <= m * q
      BY <2>2, TimesMonotone
    <3>2. m * (n + 1) = m * n + m
      BY SMT
    <3> QED
      BY <2>0, <3>1, <3>2
  <2>3. CASE n = q
    BY <2>0, <2>3
  <2> QED
    BY <2>1, <2>2, <2>3
<1> DEFINE z == y + m * k
<1>3. z \in Nat /\ m * k \in Nat
  BY TimesMonotone
<1>4. z % m \in 0 .. m - 1 /\ z \div m \in Nat /\ z = m * (z \div m) + (z % m)
  <2> HIDE DEF z
  <2> QED
    BY <1>3, SMT
<1>5. z = m * ((y \div m) + k) + (y % m)
  <2>1. m * ((y \div m) + k) = m * (y \div m) + m * k
    BY <1>1, SMT
  <2>2. m * (y \div m) \in Nat
    BY <1>1, TimesMonotone
  <2> QED
    BY <1>1, <1>3, <2>1, <2>2
<1> HIDE DEF z
<1>6. (y \div m) + k \in Nat /\ y % m \in Nat /\ z % m \in Nat /\ y % m < m /\ z % m < m
  BY <1>1, <1>4
<1>7. m * (z \div m) + (z % m) = m * ((y \div m) + k) + (y % m)
  BY <1>4, <1>5
<1>8. z % m = y % m
  BY <1>2, <1>4, <1>6, <1>7
<1> QED
  BY <1>8 DEF z

\* Extending ends with the byte before the new size, whatever the old one.
LEMMA FinalByte ==
  ASSUME NEW size \in Nat, NEW old \in Nat, size > old, NEW zeros, zeros = (size + UINT_RANGE - old) % UINT_RANGE
  PROVE  (old + zeros + UINT_RANGE - 1) % UINT_RANGE = (size + UINT_RANGE - 1) % UINT_RANGE
<1> DEFINE R == UINT_RANGE
           x == size + R - old
           q == x \div R
           u == old + zeros + R - 1
           v == size + R - 1
<1>1. R \in Nat \ {0}
  BY RequestAssumption
<1>2. x \in Nat
  BY <1>1
<1>3. zeros \in Nat /\ q \in Nat /\ x = R * q + zeros
  <2>1. zeros = x % R
    OBVIOUS
  <2> HIDE DEF x, R
  <2> QED
    BY <1>1, <1>2, <2>1, SMT
<1>4. u \in Nat /\ v \in Nat /\ R * q \in Nat /\ R * 1 = R
  BY <1>1, <1>3, TimesMonotone
<1>5. u + R * q = v + R * 1
  <2>1. R * q + zeros = size + R - old
    BY <1>3
  <2> HIDE DEF q, R
  <2> QED
    BY <1>1, <1>3, <1>4, <2>1
<1>6. (u + R * q) % R = u % R /\ (v + R * 1) % R = v % R
  BY <1>1, <1>3, <1>4, ModTimes
<1> QED
  BY <1>5, <1>6

\* The end of what update_file writes, and the clusters it lacks.
NewEnd(final) == (final + 1) % UINT_RANGE
Lacking(p, final) == ((final \div BYTE_PER_CLUSTER) + 1) - count_cluster_in_chain(fat, EntryAt(p).first)

\* The slots with the size of the file updated.
Regrown(sl, p, final) ==
  PutEntry(sl, p, WithSize(EntryAt(p), IF NewEnd(final) > EntryAt(p).size THEN NewEnd(final) ELSE EntryAt(p).size))

Unaborted == daemon' = "segv" \/ daemon' = daemon

\* The outcomes of update_file, as far as the disk tells them apart.
LEMMA UpdateOutcomes ==
  ASSUME NEW p, NEW size, NEW offset, NEW ok, NEW fail, update_file(p, size, offset, ok, fail),
         NEW final, final = (offset + size + UINT_RANGE - 1) % UINT_RANGE,
         NEW more, more = Lacking(p, final),
         NEW zl, zl = Zeroed(slots, Chain(pop_free_clusters(Alloc, more).fat, free))
  PROVE  \/ more <= 0 /\ slots' = Regrown(slots, p, final) /\ fat' = fat /\ free' = free
         \/ /\ more \in 1 .. free_count(Alloc) /\ EntryAt(p).first # 0
            /\ SetAlloc(append_free_clusters(Alloc, EntryAt(p).first, more))
            /\ slots' = Regrown(zl, p, final)
         \/ /\ more \in 1 .. free_count(Alloc) /\ EntryAt(p).first = 0
            /\ SetAlloc(pop_free_clusters(Alloc, more)) /\ slots' = zl /\ Aborts
         \/ /\ more > 0 /\ (more = free_count(Alloc) + 1 \/ more > free_count(Alloc) + 1)
            /\ fat' = fat /\ free' = free /\ slots' = slots
            /\ Unaborted
<1> DEFINE e      == EntryAt(p)
           last   == (offset + size + UINT_RANGE - 1) % UINT_RANGE
           end    == (last + 1) % UINT_RANGE
           need   == (last \div BYTE_PER_CLUSTER) + 1
           have   == count_cluster_in_chain(fat, e.first)
           lack   == need - have
           start  == (offset % UINT_RANGE) \div BYTE_PER_CLUSTER
           wraps  == (offset % UINT_RANGE) + (size % UINT_RANGE) > UINT_RANGE
           popped == pop_free_clusters(Alloc, lack)
           zeros  == Zeroed(slots, Chain(popped.fat, free))
           n      == IF end > e.size THEN end ELSE e.size
           WriteData ==
             \/ ~wraps /\ reply' = ok /\ daemon' = "up"
             \/ /\ wraps /\ start > need /\ start > have
                /\ reply' = "none" /\ daemon' = "segv"
             \/ /\ wraps /\ (start <= need \/ start <= have)
                /\ reply' = "none"
                /\ daemon' \in {"lost", IF offset % BYTE_PER_CLUSTER = 0 THEN "abort" ELSE "segv"}
<1>1. \/ /\ lack <= 0
         /\ slots' = PutEntry(slots, p, WithSize(e, n))
         /\ WriteData
         /\ UNCHANGED <<fat, free>>
      \/ /\ lack \in 1 .. free_count(Alloc)
         /\ e.first # 0
         /\ SetAlloc(append_free_clusters(Alloc, e.first, lack))
         /\ slots' = PutEntry(zeros, p, WithSize(e, n))
         /\ WriteData
      \/ /\ lack \in 1 .. free_count(Alloc)
         /\ e.first = 0
         /\ SetAlloc(popped)
         /\ slots' = zeros
         /\ reply' = "none"
         /\ daemon' = "abort"
      \/ lack > 0 /\ pop_reads_wild(Alloc, lack) /\ WildRead
      \/ lack > 0 /\ pop_reports_shortage(Alloc, lack) /\ Return(fail)
  BY DEF update_file
<1>4. lack = more
  <2>1. last = final
    OBVIOUS
  <2> HIDE DEF last
  <2>2. lack = Lacking(p, last)
    BY DEF Lacking
  <2> HIDE DEF lack
  <2> QED
    BY <2>1, <2>2
<1>5. zeros = zl
  BY <1>4
<1>6. \A sl : PutEntry(sl, p, WithSize(e, n)) = Regrown(sl, p, final)
  BY DEF Regrown, NewEnd
<1>7. popped = pop_free_clusters(Alloc, more)
  BY <1>4
<1> HIDE DEF lack, zeros, n, popped, WriteData, last, end, need, have, start, wraps
<1>2. WildRead => UNCHANGED <<fat, free, slots>> /\ Unaborted
  BY DEF WildRead, Unaborted
<1>3. Return(fail) => UNCHANGED <<fat, free, slots>> /\ Unaborted
  BY DEF Return, Unaborted
<1>8. pop_reads_wild(Alloc, more) <=> more = free_count(Alloc) + 1
  BY DEF pop_reads_wild
<1>9. pop_reports_shortage(Alloc, more) <=> more > free_count(Alloc) + 1
  BY DEF pop_reports_shortage
<1> HIDE DEF e
<1> QED
  BY <1>1, <1>2, <1>3, <1>4, <1>5, <1>6, <1>7, <1>8, <1>9 DEF Aborts, e

size_writes(p, final) ==
  IF NewEnd(final) > EntryAt(p).size THEN <<Put(p, WithSize(EntryAt(p), NewEnd(final)))>> ELSE << >>

\* What it writes in each of them.
LEMMA GrowWrites ==
  ASSUME NEW p, NEW final, NEW more, more = Lacking(p, final)
  PROVE  grow_writes(p, final) =
            IF more <= 0 THEN size_writes(p, final)
            ELSE IF more > free_count(Alloc) THEN << >>
            ELSE IF EntryAt(p).first = 0 THEN pop_writes(Alloc, more)
            ELSE append_writes(Alloc, EntryAt(p).first, more) \o size_writes(p, final)
  BY DEF grow_writes, Lacking, size_writes, NewEnd

\* The entry with its new size is written last, and only if it changes.
LEMMA SizeLeads ==
  ASSUME NEW f, NEW r, NEW sl, Safe(f, r, sl, {}), NEW p \in Places, EntryAt(p) \in DirEntry,
         At(sl, p) = EntryAt(p), NEW final \in Nat
  PROVE  Leads(DiskOf(Formatted, f, r, sl), size_writes(p, final),
               DiskOf(Formatted, f, r, Regrown(sl, p, final)), InOrder({}))
<1> DEFINE e == EntryAt(p)
           n == NewEnd(final)
<1>1. f \in [Clusters -> Links] /\ r \in Links /\ sl \in SlotMap
  BY DEF Safe
<1>2. n \in Nat /\ e.size \in Nat
  <2>1. final + 1 \in Nat
    OBVIOUS
  <2>2. n \in Nat
    BY <2>1, ModBound, RequestAssumption DEF NewEnd
  <2>3. e.size \in Nat
    BY DEF DirEntry
  <2> QED
    BY <2>2, <2>3
<1>3. CASE n > e.size
  <2>1. size_writes(p, final) = <<Put(p, WithSize(e, n))>> /\ Regrown(sl, p, final) = PutEntry(sl, p, WithSize(e, n))
    BY <1>3 DEF size_writes, Regrown
  <2>2. WithSize(e, n) \in DirEntry
    BY <1>2, WithSizeFields
  <2> HIDE DEF e, n
  <2> QED
    BY <2>1, <2>2, PutLeads
<1>4. CASE ~(n > e.size)
  <2>1. size_writes(p, final) = << >> /\ Regrown(sl, p, final) = PutEntry(sl, p, WithSize(e, e.size))
    BY <1>4 DEF size_writes, Regrown
  <2>2. WithSize(e, e.size) = e
    BY DEF WithSize, DirEntry
  <2>3. PutEntry(sl, p, e) = sl
    BY <1>1 DEF PutEntry, At, Places, SlotMap
  <2>4. DiskOf(Formatted, f, r, sl) \in DiskStates
    BY <1>1, DiskParts, FileStates
  <2> HIDE DEF e, n
  <2> QED
    BY <2>1, <2>2, <2>3, <2>4, LeadsNone
<1> QED
  BY <1>3, <1>4

\* The writes of update_file lead to what it leaves in memory.
LEMMA GrowLeads ==
  ASSUME TreeInv, TreeInv', NEW p \in Named(slots),
         NEW size \in Nat, NEW offset \in Nat, NEW ok, NEW fail, update_file(p, size, offset, ok, fail),
         NEW final, final = (offset + size + UINT_RANGE - 1) % UINT_RANGE
  PROVE  Leads(DiskOf(Formatted, fat, free, slots), grow_writes(p, final),
               DiskOf(Formatted, fat', free', slots'), InOrder({}))
<1> DEFINE more == Lacking(p, final)
           c  == EntryAt(p).first
           a  == pop_free_clusters(Alloc, more)
           zl == Zeroed(slots, Chain(a.fat, free))
           d0 == DiskOf(Formatted, fat, free, slots)
           dn == DiskOf(Formatted, fat', free', slots')
<1>1. /\ FatInv /\ Safe(fat, free, slots, {}) /\ Safe(fat', free', slots', {})
      /\ slots \in SlotMap /\ fat \in [Clusters -> Links] /\ free \in Links
  BY SafeIsTreeInv, SafeAfter, InvFacts DEF TreeInv
<1>2. p \in Places /\ EntryAt(p) \in DirEntry /\ At(slots, p) = EntryAt(p) /\ c \in Links
  <2>1. p \in Places /\ EntryAt(p) \in DirEntry /\ At(slots, p) = EntryAt(p)
    BY <1>1 DEF Named, EntryAt, At, SlotMap, Places
  <2> QED
    BY <2>1 DEF DirEntry
<1>3. final \in Nat
  <2>1. UINT_RANGE \in Nat \ {0}
    BY RequestAssumption
  <2>2. offset + size + UINT_RANGE - 1 \in Nat
    BY <2>1
  <2> QED
    BY <2>1, <2>2, ModBound
<1>4. more \in Int
  <2>1. final \div BYTE_PER_CLUSTER \in Nat
    BY <1>3, ClusterSize, DivBound
  <2>2. count_cluster_in_chain(fat, c) \in Nat
    BY <1>1, <1>2, ChainFinite
  <2> QED
    BY <2>1, <2>2 DEF Lacking
<1>5. Alloc = [fat |-> fat, free |-> free] /\ free_count(Alloc) = count_cluster_in_chain(fat, free)
      /\ free_count(Alloc) \in Nat
  BY <1>1, ChainFinite DEF Alloc, free_count
<1>6. more \in 1 .. free_count(Alloc) =>
         more \in Nat \ {0} /\ more <= count_cluster_in_chain(fat, free) /\ free # END_OF_CHAIN
  <2>1. free = END_OF_CHAIN => count_cluster_in_chain(fat, free) = 0
    BY CountZero
  <2> HIDE DEF more
  <2> QED
    BY <1>4, <1>5, <2>1
<1>7. d0 \in DiskStates
  BY <1>1, DiskParts, FileStates
<1>8. grow_writes(p, final) =
            IF more <= 0 THEN size_writes(p, final)
            ELSE IF more > free_count(Alloc) THEN << >>
            ELSE IF c = 0 THEN pop_writes(Alloc, more)
            ELSE append_writes(Alloc, c, more) \o size_writes(p, final)
  BY GrowWrites
<1>9. \/ more <= 0 /\ slots' = Regrown(slots, p, final) /\ fat' = fat /\ free' = free
      \/ /\ more \in 1 .. free_count(Alloc) /\ c # 0
         /\ SetAlloc(append_free_clusters(Alloc, c, more))
         /\ slots' = Regrown(zl, p, final)
      \/ /\ more \in 1 .. free_count(Alloc) /\ c = 0
         /\ SetAlloc(a) /\ slots' = zl
      \/ /\ more > 0 /\ (more = free_count(Alloc) + 1 \/ more > free_count(Alloc) + 1)
         /\ fat' = fat /\ free' = free /\ slots' = slots
  BY UpdateOutcomes
<1> HIDE DEF more, zl, d0, dn
<1>10. CASE more <= 0 /\ slots' = Regrown(slots, p, final) /\ fat' = fat /\ free' = free
  <2>1. Leads(d0, size_writes(p, final), DiskOf(Formatted, fat, free, Regrown(slots, p, final)), InOrder({}))
    BY <1>1, <1>2, <1>3, SizeLeads DEF d0
  <2> QED
    BY <1>8, <1>10, <2>1 DEF dn, d0
<1>11. CASE /\ more \in 1 .. free_count(Alloc) /\ c # 0
            /\ SetAlloc(append_free_clusters(Alloc, c, more))
            /\ slots' = Regrown(zl, p, final)
  <2> DEFINE b == append_free_clusters(Alloc, c, more)
  <2>1. c \in InUse(slots)
    BY <1>2, <1>11 DEF InUse, Firsts, EntriesOf
  <2>2. /\ Leads(d0, append_writes(Alloc, c, more), DiskOf(Formatted, b.fat, b.free, zl), InOrder({}))
        /\ Safe(b.fat, b.free, zl, {})
    <3> HIDE DEF c
    <3> QED
      BY <1>1, <1>5, <1>6, <1>11, <2>1, AppendLeads DEF d0, zl
  <2>3. At(zl, p) = EntryAt(p)
    <3>1. Chain(a.fat, free) \subseteq Chain(fat, free)
      <4>1. free \in HeadsOf(free, slots) /\ Forest(fat, HeadsOf(free, slots))
        BY <1>1, <1>6, <1>11, SafeHeads
      <4>2. Chain(fat, free) = Chain(a.fat, free) \cup Chain(a.fat, a.free)
        <5> DEFINE aa == a
        <5>1. aa = pop_free_clusters([fat |-> fat, free |-> free], more)
          BY <1>5
        <5> HIDE DEF aa
        <5>2. Chain(fat, free) = Chain(aa.fat, free) \cup Chain(aa.fat, aa.free)
          BY <1>1, <1>6, <1>11, <4>1, <5>1, PopChains
        <5> QED
          BY <5>2 DEF aa
      <4> QED
        BY <4>2
    <3>2. p[1] \notin Chain(fat, free)
      BY <1>1, <1>2, SafeTree
    <3>3. p[1] \notin Chain(a.fat, free)
      BY <3>1, <3>2
    <3> QED
      BY <1>1, <1>2, <3>3, ZeroedAt DEF zl
  <2>4. fat' = b.fat /\ free' = b.free
    BY <1>11 DEF SetAlloc
  <2> HIDE DEF b
  <2>5. Leads(DiskOf(Formatted, b.fat, b.free, zl), size_writes(p, final),
              DiskOf(Formatted, b.fat, b.free, Regrown(zl, p, final)), InOrder({}))
    BY <1>2, <1>3, <2>2, <2>3, SizeLeads
  <2>6. Leads(d0, append_writes(Alloc, c, more) \o size_writes(p, final), dn, InOrder({}))
    BY <1>11, <2>2, <2>4, <2>5, LeadsThen DEF dn
  <2>7. grow_writes(p, final) = append_writes(Alloc, c, more) \o size_writes(p, final)
    <3>1. ~(more <= 0) /\ ~(more > free_count(Alloc))
      BY <1>4, <1>5, <1>11
    <3> QED
      BY <1>8, <1>11, <3>1
  <2> QED
    BY <2>6, <2>7 DEF d0, dn
<1>12. CASE more \in 1 .. free_count(Alloc) /\ c = 0 /\ SetAlloc(a) /\ slots' = zl
  <2>1. Leads(d0, pop_writes(Alloc, more), DiskOf(Formatted, a.fat, a.free, zl), InOrder({}))
    <3> DEFINE aa == a
    <3>1. aa = pop_free_clusters([fat |-> fat, free |-> free], more) /\ zl = Zeroed(slots, Chain(aa.fat, free))
      BY <1>5 DEF zl
    <3> HIDE DEF aa
    <3>2. Leads(d0, pop_writes(Alloc, more), DiskOf(Formatted, aa.fat, aa.free, zl), InOrder({}))
      BY <1>1, <1>5, <1>6, <1>12, <3>1, PopLeads DEF d0
    <3> QED
      BY <3>2 DEF aa
  <2>2. fat' = a.fat /\ free' = a.free
    BY <1>12 DEF SetAlloc
  <2>3. grow_writes(p, final) = pop_writes(Alloc, more)
    BY <1>4, <1>5, <1>8, <1>12
  <2> QED
    BY <1>12, <2>1, <2>2, <2>3 DEF d0, dn
<1>13. CASE /\ more > 0 /\ (more = free_count(Alloc) + 1 \/ more > free_count(Alloc) + 1)
            /\ fat' = fat /\ free' = free /\ slots' = slots
  <2>1. ~(more <= 0) /\ more > free_count(Alloc)
    BY <1>4, <1>5, <1>13
  <2>2. grow_writes(p, final) = << >>
    BY <1>8, <2>1
  <2> QED
    BY <1>7, <1>13, <2>2, LeadsNone DEF d0, dn
<1> QED
  BY <1>9, <1>10, <1>11, <1>12, <1>13

-----------------------------------------------------------------------------
(* Removing *)

RepliesZero == reply' = "0"

\* A removal does its work, or answers with an error and does nothing.
LEMMA RemoveOutcomes ==
  ASSUME NEW p, fat_rmdir(p) \/ fat_unlink(p)
  PROVE  \/ RepliesZero /\ RemoveObject(p) /\ EntryAt(p).first # 0
         \/ ~RepliesZero /\ UNCHANGED <<fat, free, slots>>
<1>1. RemoveObject(p) => RepliesZero
  BY DEF RemoveObject, RepliesZero
<1>2. WildRead \/ AssertionFails => ~RepliesZero /\ UNCHANGED <<fat, free, slots>>
  BY DEF WildRead, AssertionFails, RepliesZero
<1>3. Return("ENOTEMPTY") \/ Return("ENOTDIR") \/ Return("-1") => ~RepliesZero /\ UNCHANGED <<fat, free, slots>>
  BY DEF Return, RepliesZero
<1>4. CASE fat_rmdir(p)
  BY <1>1, <1>2, <1>3, <1>4 DEF fat_rmdir
<1>5. CASE fat_unlink(p)
  BY <1>1, <1>2, <1>3, <1>5 DEF fat_unlink
<1> QED
  BY <1>4, <1>5

\* The writes of a removal lead to what it leaves in memory.
LEMMA RemoveLeads ==
  ASSUME TreeInv, NEW p \in EntriesOf(slots), RemoveObject(p)
  PROVE  Leads(DiskOf(Formatted, fat, free, slots), remove_writes(p),
               DiskOf(Formatted, fat', free', slots'), InOrder({p}))
<1> DEFINE c  == EntryAt(p).first
           K  == HeadsOf(free, slots)
           b  == free_cluster_chain(Alloc, c)
           g  == b.fat
           x  == get_last_cluster_in_chain(fat, c)
           d0 == DiskOf(Formatted, fat, free, slots)
           d1 == DiskOf(Formatted, g, free, slots)
           d2 == DiskOf(Formatted, g, c, slots)
           d3 == DiskOf(Formatted, g, c, PutEntry(slots, p, FreeSlot))
<1>1. /\ Safe(fat, free, slots, {})
      /\ slots \in SlotMap /\ fat \in [Clusters -> Links] /\ free \in Links
      /\ (\A h \in Clusters : Ends(fat, h))
  BY SafeIsTreeInv DEF Safe
<1>2. /\ Forest(fat, K) /\ free \in K \cup {END_OF_CHAIN} /\ InUse(slots) = K \ {free}
      /\ At(slots, p).first \in K \ {ROOT_CLUSTER_START, free}
  BY <1>1, SafeHeads
<1>3. c = At(slots, p).first /\ p \in Places
  BY DEF EntryAt, At, EntriesOf, Named
<1>4. c \in K /\ c # free /\ c \in Clusters /\ c \in Links
  BY <1>2, <1>3 DEF Forest, Links
<1>5. /\ b = [fat |-> g, free |-> c]
      /\ g = update_fat_entry(fat, x, free)
      /\ b = free_cluster_chain([fat |-> fat, free |-> free], c)
  BY DEF free_cluster_chain, Alloc
<1> HIDE DEF K, c, b, x
<1>6. /\ g \in [Clusters -> Links] /\ Forest(g, K \ {free})
      /\ \A h \in K \ {c} : Chain(g, h) = Chain(fat, h)
      /\ Chain(g, c) = Chain(fat, c) \cup Chain(fat, free)
  <2>1. b.fat \in [Clusters -> Links] /\ Forest(b.fat, K \ {free})
    BY <1>1, <1>2, <1>4, <1>5, FreeClusterChain
  <2>2. \A h \in K \ {c} : Chain(b.fat, h) = Chain(fat, h)
    BY <1>1, <1>2, <1>4, <1>5, FreeClusterChainOthers
  <2>3. Chain(b.fat, c) = Chain(fat, c) \cup Chain(fat, free)
    BY <1>1, <1>2, <1>4, <1>5, FreeChains
  <2> QED
    BY <2>1, <2>2, <2>3
<1>7. Chain(g, free) = Chain(fat, free)
  <2>1. CASE free = END_OF_CHAIN
    BY <2>1, ChainOfZero
  <2>2. CASE free # END_OF_CHAIN
    BY <1>2, <1>4, <1>6, <2>2
  <2> QED
    BY <2>1, <2>2
<1>8. x \in Clusters
  BY <1>1, <1>4, LastCluster DEF x
<1> HIDE DEF g
<1>9. Safe(g, free, slots, {p}) /\ Safe(g, c, slots, {p})
  <2>1. \A h \in Clusters : Ends(g, h)
    BY <1>6 DEF Forest
  <2>2. \A h \in InUse(slots) \ {c} : Chain(g, h) = Chain(fat, h)
    BY <1>2, <1>6
  <2>3. Safe(g, free, slots, {p})
    BY <1>1, <1>3, <1>6, <1>7, <2>1, <2>2, DoubtSafe
  <2>4. Safe(g, c, slots, {p})
    BY <1>1, <1>3, <1>4, <1>6, <2>1, <2>2, DoubtSafe
  <2> QED
    BY <2>3, <2>4
<1>10. Leads(d2, <<Put(p, FreeSlot)>>, d3, InOrder({p}))
  BY <1>3, <1>9, PutLeads, FreeSlotType
<1>11. /\ d0 \in DiskStates /\ d1 \in DiskStates /\ d2 \in DiskStates
       /\ d0 \in InOrder({p}) /\ d1 \in InOrder({p})
  <2>1. Safe(fat, free, slots, {p})
    BY <1>1, SafeInDoubt
  <2> QED
    BY <1>1, <1>4, <1>6, <1>9, <2>1, OrderedDisk, DiskParts, FileStates
<1>12. Link(fat, x, free) \in Writes /\ d1 = Written(d0, Link(fat, x, free))
  BY <1>1, <1>5, <1>8, WriteLink
<1>13. Super(c) \in Writes /\ d2 = Written(d1, Super(c))
  BY <1>4, WriteSuper
<1>14. remove_writes(p) = <<Link(fat, x, free), Super(c)>> \o <<Put(p, FreeSlot)>>
  BY DEF remove_writes, free_writes, Alloc, c, x
<1>15. fat' = g /\ free' = c /\ slots' = PutEntry(slots, p, FreeSlot)
  BY <1>5 DEF RemoveObject, SetAlloc, b, c, g
<1> HIDE DEF d0, d1, d2
<1>16. Leads(d0, <<Link(fat, x, free), Super(c)>>, d2, InOrder({p}))
  BY <1>11, <1>12, <1>13, LeadsTwo
<1>17. Leads(d0, remove_writes(p), d3, InOrder({p}))
  BY <1>10, <1>14, <1>16, LeadsThen
<1> QED
  BY <1>15, <1>17 DEF d0

-----------------------------------------------------------------------------
(* Shrinking *)

\* The writes of the shrinking fat_truncate lead to what it leaves in memory.
LEMMA ShrinkLeads ==
  ASSUME TreeInv, NEW p \in EntriesOf(slots), EntryAt(p).type = DIR_ENTRY_TYPE_FILE,
         NEW size \in Nat, size < EntryAt(p).size,
         SetAlloc(cut_chain(Alloc, EntryAt(p).first, size \div BYTE_PER_CLUSTER)),
         slots' = PutEntry(slots, p, WithSize(EntryAt(p), size))
  PROVE  Leads(DiskOf(Formatted, fat, free, slots), shrink_writes(p, size),
               DiskOf(Formatted, fat', free', slots'), InOrder({p}))
<1> DEFINE e     == EntryAt(p)
           c     == e.first
           K     == HeadsOf(free, slots)
           n     == size \div BYTE_PER_CLUSTER
           last  == nth_cluster(fat, c, n)
           after == fat[last]
           g     == update_fat_entry(fat, last, END_OF_CHAIN)
           w     == WithSize(e, size)
           d0    == DiskOf(Formatted, fat, free, slots)
           d1    == DiskOf(Formatted, g, free, slots)
<1>1. /\ Safe(fat, free, slots, {}) /\ FatInv
      /\ slots \in SlotMap /\ fat \in [Clusters -> Links] /\ free \in Links
      /\ (\A h \in Clusters : Ends(fat, h))
  BY SafeIsTreeInv DEF Safe, TreeInv
<1>2. /\ Forest(fat, K) /\ free \in K \cup {END_OF_CHAIN} /\ InUse(slots) = K \ {free}
      /\ At(slots, p).first \in K \ {ROOT_CLUSTER_START, free}
  BY <1>1, SafeHeads
<1>3. e = At(slots, p) /\ c = At(slots, p).first /\ p \in Places /\ e \in DirEntry /\ p \in Entries
  <2>1. e = At(slots, p) /\ p \in Places /\ p \in Entries
    BY SearchIs DEF EntryAt, At, EntriesOf, Named
  <2> QED
    BY <1>1, <2>1, EntryFirst
<1>4. c \in K /\ c # free /\ c \in Clusters /\ c \in Links
  BY <1>2, <1>3 DEF Forest, Links
<1>5. n \in Nat /\ n < count_cluster_in_chain(fat, c)
  <2>1. e.size <= BYTE_PER_CLUSTER * count_cluster_in_chain(fat, c)
    BY <1>1, <1>3 DEF FatInv, SizeCovered, count_cluster_in_chain
  <2>2. count_cluster_in_chain(fat, c) \in Nat /\ e.size \in Nat
    BY <1>1, <1>3, <1>4, ChainFinite DEF DirEntry
  <2>3. BYTE_PER_CLUSTER \in Nat \ {0} /\ BYTE_PER_CLUSTER * count_cluster_in_chain(fat, c) \in Nat
    BY <2>2, ClusterSize, TimesMonotone
  <2>4. size < BYTE_PER_CLUSTER * count_cluster_in_chain(fat, c)
    <3> HIDE DEF c
    <3> QED
      BY <2>1, <2>2, <2>3
  <2> QED
    BY <2>2, <2>3, <2>4, DivLess, DivBound
<1>6. last \in Chain(fat, c) /\ last \in Clusters
  BY <1>1, <1>4, <1>5, NthCluster
<1>7. after \in Links
  BY <1>1, <1>6
<1>8. shrink_writes(p, size) = (<<Link(fat, last, END_OF_CHAIN)>>
         \o (IF after = END_OF_CHAIN THEN << >> ELSE free_writes([fat |-> g, free |-> free], after))) \o <<Put(p, w)>>
  BY DEF shrink_writes
<1>9. /\ fat' = (IF after = END_OF_CHAIN THEN g ELSE free_cluster_chain([fat |-> g, free |-> free], after).fat)
      /\ free' = (IF after = END_OF_CHAIN THEN free ELSE after)
  BY DEF SetAlloc, cut_chain, Alloc, free_cluster_chain
<1>10. w \in DirEntry
  BY <1>3, WithSizeFields
<1> HIDE DEF e, c, K, n, last, after, w
<1>11. /\ g \in [Clusters -> Links] /\ Forest(g, K \cup ({after} \ {END_OF_CHAIN}))
       /\ after \in Links \ K
       /\ Chain(fat, c) = Chain(g, c) \cup Chain(fat, after)
       /\ Chain(fat, c) = Chain(g, c) \cup Chain(g, after)
  <2>1. g \in [Clusters -> Links] /\ Forest(g, K \cup ({after} \ {END_OF_CHAIN})) /\ after \in Links \ K
    BY <1>1, <1>2, <1>4, <1>6, CutForest DEF after
  <2>2. Chain(fat, c) = Chain(g, c) \cup Chain(fat, after)
    BY <1>1, <1>2, <1>4, <1>6, CutChain DEF after
  <2>3. Chain(fat, c) = Chain(g, c) \cup Chain(g, after)
    BY <1>1, <1>2, <1>4, <1>6, CutRest DEF after
  <2> QED
    BY <2>1, <2>2, <2>3
<1>12. \A h \in K \ {c} : Chain(g, h) = Chain(fat, h)
  <2> SUFFICES ASSUME NEW h \in K \ {c} PROVE Chain(g, h) = Chain(fat, h)
    OBVIOUS
  <2>1. h \in Clusters /\ last \notin Chain(fat, h)
    <3>1. Chain(fat, h) \cap Chain(fat, c) = {}
      BY <1>1, <1>2, <1>4, ForestDisjoint
    <3> QED
      BY <1>2, <1>6, <3>1 DEF Forest
  <2> QED
    BY <1>1, <1>6, <2>1, OtherChain DEF Links
<1>13. Chain(g, free) = Chain(fat, free)
  <2>1. CASE free = END_OF_CHAIN
    BY <2>1, ChainOfZero
  <2>2. CASE free # END_OF_CHAIN
    BY <1>2, <1>4, <1>12, <2>2
  <2> QED
    BY <2>1, <2>2
<1>14. Link(fat, last, END_OF_CHAIN) \in Writes /\ d1 = Written(d0, Link(fat, last, END_OF_CHAIN))
  BY <1>1, <1>6, WriteLink DEF Links
<1>15. EntryAt(p).type # DIR_ENTRY_TYPE_SUBDIR /\ At(slots, p).type # DIR_ENTRY_TYPE_SUBDIR
  BY <1>3 DEF DIR_ENTRY_TYPE_FILE, DIR_ENTRY_TYPE_SUBDIR, e
<1> HIDE DEF g
<1>16. \A h \in InUse(slots) \ {c} : Chain(g, h) = Chain(fat, h)
  BY <1>2, <1>12
<1>17. Safe(g, free, slots, {p})
  <2>1. \A h \in Clusters : Ends(g, h)
    BY <1>11 DEF Forest
  <2>2. Chain(g, c) \subseteq Chain(fat, c) \cup Chain(fat, free)
    BY <1>11
  <2> QED
    BY <1>1, <1>3, <1>11, <1>13, <1>15, <1>16, <2>1, <2>2, DoubtSafe
<1>18. Safe(fat, free, slots, {p})
  BY <1>1, SafeInDoubt
<1>19. d0 \in DiskStates /\ d1 \in DiskStates /\ d0 \in InOrder({p}) /\ d1 \in InOrder({p})
  BY <1>1, <1>11, <1>17, <1>18, OrderedDisk, DiskParts, FileStates
<1> HIDE DEF d0, d1
<1>20. Leads(d0, <<Link(fat, last, END_OF_CHAIN)>>, d1, InOrder({p}))
  BY <1>14, <1>19, LeadsOne
<1>21. CASE after = END_OF_CHAIN
  <2>1. Leads(d1, <<Put(p, w)>>, DiskOf(Formatted, g, free, PutEntry(slots, p, w)), InOrder({p}))
    BY <1>3, <1>10, <1>17, PutLeads DEF d1
  <2>2. <<Link(fat, last, END_OF_CHAIN)>> \o << >> = <<Link(fat, last, END_OF_CHAIN)>>
    BY <1>14, ConcatEmptySeq
  <2>3. Leads(d0, <<Link(fat, last, END_OF_CHAIN)>> \o <<Put(p, w)>>,
              DiskOf(Formatted, g, free, PutEntry(slots, p, w)), InOrder({p}))
    BY <1>20, <2>1, LeadsThen
  <2>4. shrink_writes(p, size) = <<Link(fat, last, END_OF_CHAIN)>> \o <<Put(p, w)>>
    BY <1>8, <1>21, <2>2
  <2>5. fat' = g /\ free' = free /\ slots' = PutEntry(slots, p, w)
    BY <1>9, <1>21 DEF w, e
  <2> QED
    BY <2>3, <2>4, <2>5 DEF d0
<1>22. CASE after # END_OF_CHAIN
  <2> DEFINE M == K \cup {after}
             x == get_last_cluster_in_chain(g, after)
             b == free_cluster_chain([fat |-> g, free |-> free], after)
             h == b.fat
             d2 == DiskOf(Formatted, h, free, slots)
             d3 == DiskOf(Formatted, h, after, slots)
             d4 == DiskOf(Formatted, h, after, PutEntry(slots, p, w))
  <2>1. /\ Forest(g, M) /\ after \in M /\ after # free /\ free \in M \cup {END_OF_CHAIN}
        /\ c \in M /\ c # after /\ after \in Clusters
    BY <1>2, <1>4, <1>7, <1>11, <1>22 DEF Forest, Links
  <2>2. h = update_fat_entry(g, x, free) /\ b = free_cluster_chain([fat |-> g, free |-> free], after)
    BY DEF free_cluster_chain
  <2>3. x \in Clusters
    <3>1. Ends(g, after)
      BY <2>1 DEF Forest
    <3> QED
      BY <1>11, <2>1, <3>1, LastCluster
  <2> HIDE DEF M, x, b
  <2>4. b.fat \in [Clusters -> Links] /\ Forest(b.fat, M \ {free})
    <3>1. g \in [Clusters -> Links]
      BY <1>11
    <3> HIDE DEF g
    <3> QED
      BY <2>1, <3>1, FreedForest DEF b
  <2>5. \A i \in M \ {after} : Chain(b.fat, i) = Chain(g, i)
    BY <1>11, <2>1, <2>2, FreeClusterChainOthers
  <2>6. Chain(b.fat, after) = Chain(g, after) \cup Chain(g, free)
    BY <1>11, <2>1, <2>2, FreeChains
  <2>7. /\ h \in [Clusters -> Links] /\ (\A i \in Clusters : Ends(h, i))
        /\ \A i \in M \ {after} : Chain(h, i) = Chain(g, i)
        /\ Chain(h, after) = Chain(g, after) \cup Chain(g, free)
    BY <2>4, <2>5, <2>6 DEF Forest
  <2>8. Link(g, x, free) \in Writes /\ d2 = Written(d1, Link(g, x, free))
    BY <1>1, <1>11, <2>2, <2>3, WriteLink DEF d1
  <2>9. Super(after) \in Writes /\ d3 = Written(d2, Super(after))
    BY <1>7, WriteSuper
  <2>10. fat' = h /\ free' = after /\ slots' = PutEntry(slots, p, w)
    BY <1>9, <1>22 DEF w, e, b
  <2> HIDE DEF h
  <2>11. Chain(h, free) = Chain(g, free)
    <3>1. CASE free = END_OF_CHAIN
      BY <3>1, ChainOfZero
    <3>2. CASE free # END_OF_CHAIN
      BY <2>1, <2>7, <3>2
    <3> QED
      BY <3>1, <3>2
  <2>12. Chain(h, c) = Chain(g, c)
    BY <2>1, <2>7
  <2>13. \A i \in InUse(slots) \ {c} : Chain(h, i) = Chain(fat, i)
    <3>1. \A i \in K : i \in M /\ i # after
      BY <1>11 DEF M
    <3> QED
      BY <1>2, <1>16, <2>7, <3>1
  <2>14. /\ Chain(h, c) \subseteq Chain(fat, c) \cup Chain(fat, free)
         /\ Chain(h, free) \subseteq Chain(fat, c) \cup Chain(fat, free)
         /\ Chain(h, after) \subseteq Chain(fat, c) \cup Chain(fat, free)
    BY <1>11, <1>13, <2>7, <2>11, <2>12
  <2>15. Safe(h, free, slots, {p})
    BY <1>1, <1>3, <1>15, <2>7, <2>13, <2>14, DoubtSafe
  <2>16. Safe(h, after, slots, {p})
    BY <1>1, <1>3, <1>7, <1>15, <2>7, <2>13, <2>14, DoubtSafe
  <2>17. d2 \in DiskStates /\ d3 \in DiskStates /\ d2 \in InOrder({p})
    BY <1>1, <1>7, <2>7, <2>15, OrderedDisk, DiskParts, FileStates
  <2>18. Leads(d3, <<Put(p, w)>>, d4, InOrder({p}))
    BY <1>3, <1>10, <2>16, PutLeads
  <2>19. free_writes([fat |-> g, free |-> free], after) = <<Link(g, x, free), Super(after)>>
    BY DEF free_writes, x
  <2> HIDE DEF d2, d3, d4
  <2>20. Leads(d1, <<Link(g, x, free), Super(after)>>, d3, InOrder({p}))
    BY <1>19, <2>8, <2>9, <2>17, LeadsTwo
  <2>21. Leads(d0, <<Link(fat, last, END_OF_CHAIN)>> \o <<Link(g, x, free), Super(after)>>, d3, InOrder({p}))
    BY <1>20, <2>20, LeadsThen
  <2>22. Leads(d0, (<<Link(fat, last, END_OF_CHAIN)>> \o <<Link(g, x, free), Super(after)>>) \o <<Put(p, w)>>, d4, InOrder({p}))
    BY <2>18, <2>21, LeadsThen
  <2>23. shrink_writes(p, size) = (<<Link(fat, last, END_OF_CHAIN)>> \o <<Link(g, x, free), Super(after)>>) \o <<Put(p, w)>>
    BY <1>8, <1>22, <2>19
  <2> QED
    BY <2>10, <2>22, <2>23 DEF d0, d4
<1> QED
  BY <1>21, <1>22

-----------------------------------------------------------------------------
(* Requests *)

\* fat_truncate extends, shrinks, or does nothing.
LEMMA TruncateOutcomes ==
  ASSUME NEW p, NEW size \in Nat, EntryAt(p).size \in Nat, fat_truncate(p, size)
  PROVE  \/ /\ size > EntryAt(p).size \/ EntryAt(p).first = 0
            /\ \E old \in Nat : \E zeros, ok, fail :
                  /\ size > old /\ zeros = (size + UINT_RANGE - old) % UINT_RANGE
                  /\ update_file(p, zeros, old, ok, fail)
         \/ /\ size < EntryAt(p).size /\ EntryAt(p).first # 0
            /\ EntryAt(p).type = DIR_ENTRY_TYPE_FILE
            /\ SetAlloc(cut_chain(Alloc, EntryAt(p).first, size \div BYTE_PER_CLUSTER))
            /\ slots' = PutEntry(slots, p, WithSize(EntryAt(p), size))
         \/ /\ size = EntryAt(p).size \/ EntryAt(p).first = 0
            /\ UNCHANGED <<fat, free, slots>> /\ Unaborted
<1> DEFINE c == EntryAt(p).first
<1>1. PICK old \in SizeRead(EntryAt(p)) :
         \/ size = old /\ Return("0")
         \/ /\ size > old
            /\ LET num_zeros == (size + UINT_RANGE - old) % UINT_RANGE
               IN  update_file(p, num_zeros, old, "0",
                               IF num_zeros = UINT_RANGE - ENOMEM THEN "0" ELSE "-1")
         \/ size < old /\ c = 0 /\ WildRead
         \/ /\ size < old
            /\ c # 0
            /\ SetAlloc(cut_chain(Alloc, c, size \div BYTE_PER_CLUSTER))
            /\ slots' = PutEntry(slots, p, WithSize(EntryAt(p), size))
            /\ reply' = "0"
            /\ UNCHANGED daemon
  BY DEF fat_truncate
<1>2. EntryAt(p).type = DIR_ENTRY_TYPE_FILE
  BY DEF fat_truncate
<1>3. old \in Nat /\ (c # 0 => old = EntryAt(p).size)
  <2>1. CASE c = 0
    BY <2>1, RequestAssumption DEF SizeRead
  <2>2. CASE c # 0
    BY <2>2 DEF SizeRead
  <2> QED
    BY <2>1, <2>2
<1>4. CASE size = old /\ Return("0")
  <2>1. UNCHANGED <<fat, free, slots>> /\ Unaborted
    BY <1>4 DEF Return, Unaborted
  <2> QED
    BY <1>3, <1>4, <2>1
<1>5. CASE size > old
  <2> DEFINE zeros == (size + UINT_RANGE - old) % UINT_RANGE
             fail  == IF zeros = UINT_RANGE - ENOMEM THEN "0" ELSE "-1"
  <2>1. update_file(p, zeros, old, "0", fail)
    <3>1. ~(size = old) /\ ~(size < old)
      BY <1>3, <1>5
    <3> QED
      BY <1>1, <3>1
  <2> HIDE DEF fail
  <2>2. \E z, ok, no : size > old /\ z = (size + UINT_RANGE - old) % UINT_RANGE /\ update_file(p, z, old, ok, no)
    BY <1>5, <2>1
  <2> QED
    BY <1>3, <1>5, <2>2
<1>6. CASE size < old /\ c = 0 /\ WildRead
  BY <1>6 DEF WildRead, Unaborted
<1>7. CASE /\ size < old /\ c # 0
           /\ SetAlloc(cut_chain(Alloc, c, size \div BYTE_PER_CLUSTER))
           /\ slots' = PutEntry(slots, p, WithSize(EntryAt(p), size))
  BY <1>2, <1>3, <1>7
<1> QED
  BY <1>1, <1>4, <1>5, <1>6, <1>7

\* The object a search by name finds.
LEMMA ObjectFound ==
  ASSUME TreeInv, NEW d \in Dirs, NEW name \in Names, NEW p \in find_dir_entry_by_name(d, name)
  PROVE  /\ p \in Named(slots) /\ p \in Places /\ EntryAt(p) \in DirEntry /\ EntryAt(p).size \in Nat
         /\ EntryAt(p).first # 0 => p \in EntriesOf(slots)
<1>1. FatInv /\ d \in Clusters
  BY DirsHeads DEF TreeInv
<1>2. p \in FirstSlot(d, name)
  BY DEF find_dir_entry_by_name
<1>3. p \in Places /\ EntryAt(p).name = name /\ EntryAt(p) \in DirEntry
  BY <1>1, <1>2, FirstSlotPlace
<1>4. EntryAt(p) = At(slots, p)
  BY DEF EntryAt, At
<1>5. p \in Named(slots)
  BY <1>3, <1>4 DEF Named
<1>6. EntryAt(p).first # 0 => p \in EntriesOf(slots)
  BY <1>4, <1>5 DEF EntriesOf
<1> QED
  BY <1>3, <1>5, <1>6 DEF DirEntry

\* A request is one of Fat and leaves the memory in order.
LEMMA RequestTree ==
  ASSUME TreeInv, daemon = "up", CreateRequest \/ ObjectRequest
  PROVE  TreeInv'
<1>1. Next
  BY DEF Next
<1> QED
  BY <1>1, NextTree

\* The disk that memory asks for, and the one after the step.
OnDisk    == DiskOf(Formatted, fat, free, slots)
OnDiskNow == DiskOf(Formatted, fat', free', slots')

\* The disk after a step that has written over the superblock.
OnDiskLost == DiskOf("zeroed", fat', free', slots')
LosesDisk  == daemon' = "lost"

\* A handler that may lose the disk makes the writes ws.
GrowsBy(ws) ==
  \/ Leads(OnDisk, ws, OnDiskNow, InOrder({}))
  \/ LosesDisk /\ Leads(OnDisk, ws, OnDiskLost, InOrder({}))

\* Up to the write over the superblock the disk is in order.
LEMMA DataLeads ==
  ASSUME TreeInv', NEW ws, Leads(OnDisk, ws, OnDiskNow, InOrder({}))
  PROVE  GrowsBy(ws \o data_writes(LosesDisk))
<1>1. /\ Safe(fat', free', slots', {})
      /\ fat' \in [Clusters -> Links] /\ free' \in Links /\ slots' \in SlotMap
  BY SafeAfter DEF Safe
<1>2. CASE LosesDisk
  <2>1. data_writes(LosesDisk) = <<Clear>>
    BY <1>2 DEF data_writes
  <2>2. Clear \in Writes /\ OnDiskLost = Written(OnDiskNow, Clear)
    BY WriteFile DEF OnDiskNow, OnDiskLost
  <2>3. OnDiskNow \in InOrder({}) /\ OnDiskNow \in DiskStates
    BY <1>1, OrderedDisk, FileStates, DiskParts DEF OnDiskNow
  <2>4. OnDiskLost \in DiskStates
    <3>1. "zeroed" \in Files
      BY DEF Files
    <3> QED
      BY <1>1, <3>1, DiskParts DEF OnDiskLost
  <2>5. Leads(OnDiskNow, <<Clear>>, OnDiskLost, InOrder({}))
    BY <2>2, <2>3, <2>4, LeadsOne
  <2>6. Leads(OnDisk, ws \o <<Clear>>, OnDiskLost, InOrder({}))
    BY <2>5, LeadsThen
  <2> QED
    BY <1>2, <2>1, <2>6 DEF GrowsBy
<1>3. CASE ~LosesDisk
  <2>1. data_writes(LosesDisk) = << >>
    BY <1>3 DEF data_writes
  <2>2. ws \o << >> = ws
    BY ConcatEmptySeq DEF Leads
  <2> QED
    BY <2>1, <2>2 DEF GrowsBy
<1> QED
  BY <1>2, <1>3

\* A handler that leaves memory as it is and makes no write.
LEMMA NothingLeads ==
  ASSUME TreeInv, UNCHANGED <<fat, free, slots>>, NEW X
  PROVE  Leads(OnDisk, << >>, OnDiskNow, X)
<1>1. OnDisk \in DiskStates
  BY SafeIsTreeInv, DiskParts, FileStates DEF OnDisk, Safe
<1>2. OnDisk = OnDiskNow
  BY DEF OnDisk, OnDiskNow
<1> QED
  BY <1>1, <1>2, LeadsNone

\* The writes of a handler that was asked to create something.
LEMMA CreateRun ==
  ASSUME TreeInv, RunCreate
  PROVE  TreeInv' /\ \E ws : Runs("create", << >>, ws) /\ Leads(OnDisk, ws, OnDiskNow, InOrder({}))
<1>1. daemon = "up"
  BY DEF RunCreate
<1>2. PICK d \in Dirs, name \in Names \cup LongNames :
          \/ /\ fat_mkdir(d, name)
             /\ Runs("create", << >>, create_writes(d, name, DIR_ENTRY_TYPE_SUBDIR, daemon' = "up"))
          \/ /\ fat_mknod(d, name, TRUE) \/ fat_create(d, name)
             /\ Runs("create", << >>, create_writes(d, name, DIR_ENTRY_TYPE_FILE, daemon' = "up"))
          \/ fat_mknod(d, name, FALSE) /\ Runs("create", << >>, << >>)
  BY DEF RunCreate
<1>3. CreateRequest
  BY <1>2 DEF CreateRequest
<1>4. TreeInv'
  BY <1>1, <1>3, RequestTree
<1>5. d \in Reach(fat, slots)
  BY DirsAreReach
<1>6. ASSUME NEW type \in {DIR_ENTRY_TYPE_FILE, DIR_ENTRY_TYPE_SUBDIR},
             \/ has_free_cluster(Alloc) /\ add_dir_entry(d, name, type)
             \/ ~has_free_cluster(Alloc) /\ UNCHANGED <<fat, free, slots>>
      PROVE  Leads(OnDisk, create_writes(d, name, type, daemon' = "up"), OnDiskNow, InOrder({}))
  <2>1. CASE has_free_cluster(Alloc) /\ add_dir_entry(d, name, type)
    <3>1. Leads(OnDisk, create_writes(d, name, type, Survives), OnDiskNow, InOrder({}))
      BY <1>4, <1>5, <2>1, CreateLeads DEF OnDisk, OnDiskNow
    <3> QED
      BY <3>1 DEF Survives
  <2>2. CASE ~has_free_cluster(Alloc) /\ UNCHANGED <<fat, free, slots>>
    <3>1. create_writes(d, name, type, daemon' = "up") = << >>
      BY <2>2 DEF create_writes
    <3> QED
      BY <2>2, <3>1, NothingLeads
  <2> QED
    BY <1>6, <2>1, <2>2
<1>7. \A r : Return(r) => UNCHANGED <<fat, free, slots>>
  BY DEF Return
<1>8. CASE /\ fat_mkdir(d, name)
           /\ Runs("create", << >>, create_writes(d, name, DIR_ENTRY_TYPE_SUBDIR, daemon' = "up"))
  <2>1. \/ has_free_cluster(Alloc) /\ add_dir_entry(d, name, DIR_ENTRY_TYPE_SUBDIR)
        \/ ~has_free_cluster(Alloc) /\ UNCHANGED <<fat, free, slots>>
    BY <1>7, <1>8 DEF fat_mkdir
  <2> QED
    BY <1>4, <1>6, <1>8, <2>1
<1>9. CASE /\ fat_mknod(d, name, TRUE) \/ fat_create(d, name)
           /\ Runs("create", << >>, create_writes(d, name, DIR_ENTRY_TYPE_FILE, daemon' = "up"))
  <2>1. \/ has_free_cluster(Alloc) /\ add_dir_entry(d, name, DIR_ENTRY_TYPE_FILE)
        \/ ~has_free_cluster(Alloc) /\ UNCHANGED <<fat, free, slots>>
    BY <1>7, <1>9 DEF fat_mknod, fat_create
  <2> QED
    BY <1>4, <1>6, <1>9, <2>1
<1>10. CASE fat_mknod(d, name, FALSE) /\ Runs("create", << >>, << >>)
  <2>1. UNCHANGED <<fat, free, slots>>
    BY <1>7, <1>10 DEF fat_mknod
  <2> QED
    BY <1>4, <1>10, <2>1, NothingLeads
<1> QED
  BY <1>2, <1>8, <1>9, <1>10

\* The writes of a truncation.
LEMMA TruncateRun ==
  ASSUME TreeInv, TreeInv', daemon = "up", NEW p \in Named(slots), p \in Places,
         EntryAt(p).size \in Nat, EntryAt(p).first # 0 => p \in EntriesOf(slots), RunTruncate(p)
  PROVE  \E ws : \/ Runs("shrink", p, ws) /\ Leads(OnDisk, ws, OnDiskNow, InOrder({p}))
                 \/ Runs("grow", p, ws) /\ GrowsBy(ws)
<1> DEFINE e == EntryAt(p)
<1>1. PICK size \in TruncateSizes :
        /\ fat_truncate(p, size)
        /\ CASE e.first = 0 /\ daemon' = "abort" -> Runs("grow", p, grow_writes(p, (size + UINT_RANGE - 1) % UINT_RANGE) \o data_writes(LosesDisk))
             [] e.first = 0 /\ daemon' # "abort" -> Runs("grow", p, << >>)
             [] e.first # 0 /\ size > e.size     -> Runs("grow", p, grow_writes(p, (size + UINT_RANGE - 1) % UINT_RANGE) \o data_writes(LosesDisk))
             [] e.first # 0 /\ size < e.size     -> Runs("shrink", p, shrink_writes(p, size))
             [] e.first # 0 /\ size = e.size     -> Runs("shrink", p, << >>)
  BY DEF RunTruncate, LosesDisk
<1> DEFINE grows == grow_writes(p, (size + UINT_RANGE - 1) % UINT_RANGE) \o data_writes(LosesDisk)
<1>2. size \in Nat /\ e.size \in Nat
  BY RequestAssumption
<1>3. /\ e.first = 0 /\ Aborts => Runs("grow", p, grows)
      /\ e.first = 0 /\ ~Aborts => Runs("grow", p, << >>)
      /\ e.first # 0 /\ size > e.size => Runs("grow", p, grows)
      /\ e.first # 0 /\ size < e.size => Runs("shrink", p, shrink_writes(p, size))
      /\ e.first # 0 /\ size = e.size => Runs("shrink", p, << >>)
  <2>1. CASE e.first = 0 /\ Aborts
    <3>1. Runs("grow", p, grows)
      BY <1>1, <2>1 DEF Aborts
    <3> QED
      BY <2>1, <3>1
  <2>2. CASE e.first = 0 /\ ~Aborts
    <3>1. Runs("grow", p, << >>)
      BY <1>1, <2>2 DEF Aborts
    <3> QED
      BY <2>2, <3>1
  <2>3. CASE e.first # 0 /\ size > e.size
    <3>1. ~(size < e.size) /\ ~(size = e.size)
      BY <1>2, <2>3
    <3>2. Runs("grow", p, grows)
      BY <1>1, <2>3, <3>1
    <3> QED
      BY <2>3, <3>1, <3>2
  <2>4. CASE e.first # 0 /\ size < e.size
    <3>1. ~(size > e.size) /\ ~(size = e.size)
      BY <1>2, <2>4
    <3>2. Runs("shrink", p, shrink_writes(p, size))
      BY <1>1, <2>4, <3>1
    <3> QED
      BY <2>4, <3>1, <3>2
  <2>5. CASE e.first # 0 /\ size = e.size
    <3>1. ~(size < e.size) /\ ~(size > e.size)
      BY <1>2, <2>5
    <3>2. Runs("shrink", p, << >>)
      BY <1>1, <2>5, <3>1
    <3> QED
      BY <2>5, <3>1, <3>2
  <2> HIDE DEF grows
  <2> QED
    BY <1>2, <2>1, <2>2, <2>3, <2>4, <2>5
<1>4. \/ /\ size > e.size \/ e.first = 0
         /\ \E old \in Nat : \E zeros, ok, fail :
               /\ size > old /\ zeros = (size + UINT_RANGE - old) % UINT_RANGE
               /\ update_file(p, zeros, old, ok, fail)
      \/ /\ size < e.size /\ e.first # 0
         /\ e.type = DIR_ENTRY_TYPE_FILE
         /\ SetAlloc(cut_chain(Alloc, e.first, size \div BYTE_PER_CLUSTER))
         /\ slots' = PutEntry(slots, p, WithSize(e, size))
      \/ /\ size = e.size \/ e.first = 0
         /\ UNCHANGED <<fat, free, slots>> /\ Unaborted
  BY <1>1, <1>2, TruncateOutcomes
<1>5. ASSUME size > e.size \/ e.first = 0, NEW old \in Nat, NEW zeros, NEW ok, NEW fail,
             size > old, zeros = (size + UINT_RANGE - old) % UINT_RANGE, update_file(p, zeros, old, ok, fail)
      PROVE  \E ws : Runs("grow", p, ws) /\ GrowsBy(ws)
  <2>1. zeros \in Nat
    <3>1. UINT_RANGE \in Nat \ {0}
      BY RequestAssumption
    <3>2. size + UINT_RANGE - old \in Nat
      BY <1>2, <1>5, <3>1
    <3> QED
      BY <1>5, <3>1, <3>2, ModBound
  <2>2. (old + zeros + UINT_RANGE - 1) % UINT_RANGE = (size + UINT_RANGE - 1) % UINT_RANGE
    BY <1>2, <1>5, FinalByte
  <2> DEFINE final == (size + UINT_RANGE - 1) % UINT_RANGE
  <2>3. Leads(OnDisk, grow_writes(p, final), OnDiskNow, InOrder({}))
    <3>1. final = (old + zeros + UINT_RANGE - 1) % UINT_RANGE
      BY <2>2
    <3> HIDE DEF final
    <3> QED
      BY <1>5, <2>1, <3>1, GrowLeads DEF OnDisk, OnDiskNow
  <2>4. CASE e.first # 0 \/ Aborts
    <3>1. Runs("grow", p, grows)
      BY <1>3, <1>5, <2>4
    <3>2. GrowsBy(grows)
      BY <2>3, DataLeads
    <3> QED
      BY <3>1, <3>2
  <2>5. CASE e.first = 0 /\ ~Aborts
    <3>1. Runs("grow", p, << >>)
      BY <1>3, <2>5
    <3> DEFINE last == (old + zeros + UINT_RANGE - 1) % UINT_RANGE
               more == Lacking(p, last)
               zl   == Zeroed(slots, Chain(pop_free_clusters(Alloc, more).fat, free))
    <3>2. \/ more <= 0 /\ slots' = Regrown(slots, p, last) /\ fat' = fat /\ free' = free
          \/ /\ more \in 1 .. free_count(Alloc) /\ e.first # 0
             /\ SetAlloc(append_free_clusters(Alloc, e.first, more))
             /\ slots' = Regrown(zl, p, last)
          \/ /\ more \in 1 .. free_count(Alloc) /\ e.first = 0
             /\ SetAlloc(pop_free_clusters(Alloc, more)) /\ slots' = zl /\ Aborts
          \/ /\ more > 0 /\ (more = free_count(Alloc) + 1 \/ more > free_count(Alloc) + 1)
             /\ fat' = fat /\ free' = free /\ slots' = slots
             /\ Unaborted
      BY <1>5, UpdateOutcomes
    <3>3. last \in Nat
      <4>1. UINT_RANGE \in Nat \ {0}
        BY RequestAssumption
      <4>2. old + zeros + UINT_RANGE - 1 \in Nat
        BY <2>1, <4>1
      <4> QED
        BY <4>1, <4>2, ModBound
    <3> HIDE DEF last
    <3>4. more \in Nat \ {0}
      <4>1. count_cluster_in_chain(fat, e.first) = 0
        BY <2>5, CountZero DEF END_OF_CHAIN
      <4>2. last \div BYTE_PER_CLUSTER \in Nat
        BY <3>3, ClusterSize, DivBound
      <4> QED
        BY <4>1, <4>2 DEF Lacking
    <3>5. ~(more <= 0)
      <4> HIDE DEF more
      <4> QED
        BY <3>4
    <3>6. UNCHANGED <<fat, free, slots>>
      <4> HIDE DEF more, zl
      <4> QED
        BY <2>5, <3>2, <3>5
    <3> QED
      BY <3>1, <3>6, NothingLeads DEF GrowsBy
  <2> QED
    BY <2>4, <2>5
<1>6. CASE /\ size < e.size /\ e.first # 0
           /\ e.type = DIR_ENTRY_TYPE_FILE
           /\ SetAlloc(cut_chain(Alloc, e.first, size \div BYTE_PER_CLUSTER))
           /\ slots' = PutEntry(slots, p, WithSize(e, size))
  <2>1. Runs("shrink", p, shrink_writes(p, size))
    BY <1>3, <1>6
  <2>2. Leads(OnDisk, shrink_writes(p, size), OnDiskNow, InOrder({p}))
    BY <1>2, <1>6, ShrinkLeads DEF OnDisk, OnDiskNow
  <2> QED
    BY <2>1, <2>2
<1>7. CASE (size = e.size \/ e.first = 0) /\ UNCHANGED <<fat, free, slots>> /\ Unaborted
  <2>1. ~Aborts
    BY <1>7 DEF Unaborted, Aborts
  <2>2. Runs("grow", p, << >>) \/ Runs("shrink", p, << >>)
    BY <1>3, <1>7, <2>1
  <2> QED
    BY <1>7, <2>2, NothingLeads DEF GrowsBy
<1> HIDE DEF e
<1> QED
  BY <1>4, <1>5, <1>6, <1>7

\* The writes of a handler that was asked to do something to an object.
LEMMA ObjectRun ==
  ASSUME TreeInv, RunOnObject
  PROVE  /\ TreeInv'
         /\ \E p \in Places : \E ws :
               \/ Runs("remove", p, ws) /\ Leads(OnDisk, ws, OnDiskNow, InOrder({p}))
               \/ Runs("shrink", p, ws) /\ Leads(OnDisk, ws, OnDiskNow, InOrder({p}))
               \/ Runs("grow", p, ws) /\ GrowsBy(ws)
<1>1. daemon = "up"
  BY DEF RunOnObject
<1>2. PICK d \in Dirs, name \in Names : \E p \in find_dir_entry_by_name(d, name) :
          RunRemove(p) \/ RunWrite(p) \/ RunTruncate(p)
  BY DEF RunOnObject
<1>3. PICK p \in find_dir_entry_by_name(d, name) : RunRemove(p) \/ RunWrite(p) \/ RunTruncate(p)
  BY <1>2
<1>4. /\ p \in Named(slots) /\ p \in Places /\ EntryAt(p) \in DirEntry /\ EntryAt(p).size \in Nat
      /\ EntryAt(p).first # 0 => p \in EntriesOf(slots)
  BY ObjectFound
<1>5. ObjectRequest
  <2>1. RunRemove(p) => fat_rmdir(p) \/ fat_unlink(p)
    BY DEF RunRemove
  <2>2. RunWrite(p) => \E size \in WriteSizes, offset \in WriteOffsets : fat_write(p, size, offset)
    BY DEF RunWrite
  <2>3. RunTruncate(p) => \E size \in TruncateSizes : fat_truncate(p, size)
    BY DEF RunTruncate
  <2> QED
    BY <1>3, <2>1, <2>2, <2>3 DEF ObjectRequest
<1>6. TreeInv'
  BY <1>1, <1>5, RequestTree
<1>7. CASE RunRemove(p)
  <2>1. fat_rmdir(p) \/ fat_unlink(p)
    BY <1>7 DEF RunRemove
  <2>2. Runs("remove", p, IF RepliesZero THEN remove_writes(p) ELSE << >>)
    BY <1>7 DEF RunRemove, RepliesZero
  <2>3. CASE RepliesZero /\ RemoveObject(p) /\ EntryAt(p).first # 0
    <3>1. Leads(OnDisk, remove_writes(p), OnDiskNow, InOrder({p}))
      BY <1>4, <2>3, RemoveLeads DEF OnDisk, OnDiskNow
    <3> QED
      BY <1>4, <1>6, <2>2, <2>3, <3>1
  <2>4. CASE ~RepliesZero /\ UNCHANGED <<fat, free, slots>>
    BY <1>4, <1>6, <2>2, <2>4, NothingLeads
  <2> QED
    BY <2>1, <2>3, <2>4, RemoveOutcomes
<1>8. CASE RunWrite(p)
  <2>1. PICK size \in WriteSizes, offset \in WriteOffsets :
           /\ fat_write(p, size, offset)
           /\ Runs("grow", p, grow_writes(p, (offset + size + UINT_RANGE - 1) % UINT_RANGE)
                              \o data_writes(LosesDisk))
    BY <1>8 DEF RunWrite, LosesDisk
  <2>2. size \in Nat /\ offset \in Nat
    BY RequestAssumption
  <2>3. update_file(p, size, offset, "size", "ENOMEM")
    BY <2>1 DEF fat_write
  <2> DEFINE final == (offset + size + UINT_RANGE - 1) % UINT_RANGE
  <2>4. PICK x : x = final
    OBVIOUS
  <2> HIDE DEF final
  <2>5. Leads(OnDisk, grow_writes(p, x), OnDiskNow, InOrder({}))
    BY <1>4, <1>6, <2>2, <2>3, <2>4, GrowLeads DEF OnDisk, OnDiskNow, final
  <2>6. Runs("grow", p, grow_writes(p, x) \o data_writes(LosesDisk))
    BY <2>1, <2>4 DEF final
  <2>7. GrowsBy(grow_writes(p, x) \o data_writes(LosesDisk))
    BY <1>6, <2>5, DataLeads
  <2> QED
    BY <1>4, <1>6, <2>6, <2>7
<1>9. CASE RunTruncate(p)
  <2>1. \E ws : \/ Runs("shrink", p, ws) /\ Leads(OnDisk, ws, OnDiskNow, InOrder({p}))
                \/ Runs("grow", p, ws) /\ GrowsBy(ws)
    BY <1>1, <1>4, <1>6, <1>9, TruncateRun
  <2> QED
    BY <1>4, <1>6, <2>1
<1> QED
  BY <1>3, <1>7, <1>8, <1>9

-----------------------------------------------------------------------------
(* Formatting *)

\* Without entries the root directory and the free list are all there is.
LEMMA EmptySafe ==
  ASSUME NEW f \in [Clusters -> Links], \A c \in Clusters : Ends(f, c),
         NEW r \in Links \ {ROOT_CLUSTER_START},
         Chain(f, ROOT_CLUSTER_START) \cap Chain(f, r) = {},
         NEW sl, sl = [c \in Clusters |-> ZeroCluster]
  PROVE  sl \in SlotMap /\ Safe(f, r, sl, {})
<1>1. sl \in SlotMap /\ \A q \in Places : At(sl, q) = FreeSlot
  BY FreeSlotType DEF SlotMap, ZeroCluster, Places, At
<1>2. FreeSlot.name \notin Names
  BY FreeSlotType, SpecialNames DEF NoName
<1>3. Named(sl) = {}
  BY <1>1, <1>2 DEF Named
<1>4. EntriesOf(sl) = {}
  BY <1>3 DEF EntriesOf
<1>5. TreeOK(f, sl)
  BY <1>3 DEF TreeOK, SubdirsHaveCluster, NamesOnce, SubdirsIn
<1> QED
  BY <1>1, <1>4, <1>5 DEF Safe

\* The disk before it is formatted: its table ends every walk at once.
LEMMA BlankParts ==
  /\ Blank = DiskOf(Absent, Blank.fat, Blank.free, Blank.slots)
  /\ Blank.fat \in [Clusters -> Links] /\ Blank.free = END_OF_CHAIN
  /\ Blank.slots = [c \in Clusters |-> ZeroCluster]
  /\ \A c \in Clusters : Ends(Blank.fat, c) /\ Chain(Blank.fat, c) = {c}
  /\ Safe(Blank.fat, END_OF_CHAIN, Blank.slots, {})
  /\ Safe(Blank.fat, FREE_CLUSTER_START, Blank.slots, {})
<1>1. Blank = DiskOf(Absent, Blank.fat, Blank.free, Blank.slots)
  BY DEF Blank, DiskOf, Absent
<1>2. /\ Blank.fat = [c \in Clusters |-> END_OF_CHAIN] /\ Blank.free = END_OF_CHAIN
      /\ Blank.slots = [c \in Clusters |-> ZeroCluster]
  BY DEF Blank
<1> DEFINE f == Blank.fat
<1>3. f \in [Clusters -> Links] /\ \A c \in Clusters : f[c] = END_OF_CHAIN
  BY <1>2 DEF Links
<1> HIDE DEF f
<1>4. ASSUME NEW c \in Clusters PROVE Ends(f, c) /\ Chain(f, c) = {c}
  <2>1. Chain(f, c) = {c} \cup Chain(f, END_OF_CHAIN)
    BY <1>3, ChainStep
  <2>2. Chain(f, c) = {c}
    BY <2>1, ChainOfZero
  <2> QED
    BY <1>3, <2>2 DEF Ends
<1>5. /\ ROOT_CLUSTER_START \in Clusters /\ FREE_CLUSTER_START \in Clusters
      /\ FREE_CLUSTER_START # ROOT_CLUSTER_START /\ END_OF_CHAIN # ROOT_CLUSTER_START
  BY RootCluster, ZeroNoCluster
<1>6. Chain(f, ROOT_CLUSTER_START) \cap Chain(f, END_OF_CHAIN) = {}
  BY ChainOfZero
<1>7. Chain(f, ROOT_CLUSTER_START) \cap Chain(f, FREE_CLUSTER_START) = {}
  BY <1>4, <1>5
<1>8. Safe(f, END_OF_CHAIN, Blank.slots, {}) /\ Safe(f, FREE_CLUSTER_START, Blank.slots, {})
  <2>1. END_OF_CHAIN \in Links /\ FREE_CLUSTER_START \in Links
    BY <1>5 DEF Links
  <2> QED
    BY <1>2, <1>3, <1>4, <1>5, <1>6, <1>7, <2>1, EmptySafe
<1> QED
  BY <1>1, <1>2, <1>3, <1>4, <1>8 DEF f

\* Killed while it formats, the daemon leaves no disk file, one that no mount
\* takes for a file system, or an empty file system.
LEMMA FormatLeads ==
  ASSUME NEW tl, tl = AddDots(Blank.slots, DIR_ENTRY_TYPE_SUBDIR, ROOT_CLUSTER_START, ROOT_CLUSTER_START),
         Safe(init_fat, FREE_CLUSTER_START, tl, {})
  PROVE  Leads(Blank, format_writes, DiskOf(Formatted, init_fat, FREE_CLUSTER_START, tl), InOrder({}))
<1> DEFINE f  == Blank.fat
           sl == Blank.slots
           r  == FREE_CLUSTER_START
           R  == ROOT_CLUSTER_START
           d1 == DiskOf("empty", f, END_OF_CHAIN, sl)
           d2 == DiskOf("zeroed", f, END_OF_CHAIN, sl)
           d3 == DiskOf(Formatted, f, r, sl)
           d4 == DiskOf(Formatted, init_fat, r, sl)
           d5 == DiskOf(Formatted, init_fat, r, tl)
           w1 == [op |-> "create"]
           w2 == [op |-> "size"]
           w3 == Super(r)
           w4 == [op |-> "table"]
<1>1. /\ Blank = DiskOf(Absent, f, END_OF_CHAIN, sl)
      /\ f \in [Clusters -> Links] /\ sl = [c \in Clusters |-> ZeroCluster]
      /\ Safe(f, END_OF_CHAIN, sl, {}) /\ Safe(f, r, sl, {})
  BY BlankParts
<1>2. sl \in SlotMap /\ END_OF_CHAIN \in Links /\ r \in Links
  BY <1>1 DEF Safe
<1>3. R \in Clusters /\ sl[R] = ZeroCluster
  BY <1>1, RootCluster
<1>4. Leads(d4, dot_writes(R, R), d5, InOrder({})) /\ Safe(init_fat, r, sl, {})
  BY <1>2, <1>3, DotLeads
<1>5. /\ w1 \in Writes /\ d1 = Written(Blank, w1)
      /\ w2 \in Writes /\ d2 = Written(d1, w2)
      /\ w4 \in Writes /\ d4 = Written(d3, w4)
  <2>1. Written(DiskOf(Absent, f, END_OF_CHAIN, sl), w1) = d1
    BY WriteFile
  <2> QED
    BY <1>1, <2>1, WriteFile
<1>6. w3 \in Writes /\ d3 = Written(d2, w3)
  BY <1>2, WriteSuper
<1>7. "empty" \in Files /\ "zeroed" \in Files /\ "empty" # Absent /\ "zeroed" # Absent
  BY DEF Files, Absent
<1>8. Blank \in DiskStates /\ Blank.file = Absent /\ Blank \in InOrder({})
  <2>1. /\ Blank \in DiskStates /\ Blank.fat = f /\ Blank.free = END_OF_CHAIN /\ Blank.slots = sl
    BY <1>1, <1>2, FileStates, DiskParts
  <2>2. Blank.file = Absent
    BY DEF Blank, Absent
  <2> QED
    BY <1>1, <2>1, <2>2 DEF InOrder
<1>9. d1 \in InOrder({}) /\ d2 \in InOrder({})
  <2>1. /\ d1 \in DiskStates /\ d1.file = "empty" /\ d1.fat = f /\ d1.free = END_OF_CHAIN /\ d1.slots = sl
        /\ d2 \in DiskStates /\ d2.file = "zeroed" /\ d2.fat = f /\ d2.free = END_OF_CHAIN /\ d2.slots = sl
    BY <1>1, <1>2, <1>7, DiskParts
  <2> HIDE DEF d1, d2, f, sl
  <2> QED
    BY <1>1, <1>7, <2>1 DEF InOrder
<1>10. d3 \in InOrder({}) /\ d4 \in InOrder({})
  BY <1>1, <1>4, OrderedDisk
<1>11. d1 \in DiskStates /\ d2 \in DiskStates /\ d3 \in DiskStates /\ d4 \in DiskStates
  BY <1>9, <1>10 DEF InOrder
<1>12. format_writes = <<w1, w2>> \o (<<w3, w4>> \o dot_writes(R, R))
  <2>1. PICK dots \in Seq(Writes) : dots = dot_writes(R, R)
    BY <1>4 DEF Leads
  <2> HIDE DEF w1, w2, w3, w4
  <2>2. <<w1, w2, w3, w4>> \o dots = <<w1, w2>> \o (<<w3, w4>> \o dots)
    <3>1. <<w1, w2, w3, w4>> = <<w1, w2>> \o <<w3, w4>>
      BY <1>5, <1>6
    <3>2. <<w1, w2>> \in Seq(Writes) /\ <<w3, w4>> \in Seq(Writes)
      BY <1>5, <1>6
    <3> QED
      BY <2>1, <3>1, <3>2, ConcatAssociative, SMTT(30)
  <2>3. format_writes = <<w1, w2, w3, w4>> \o dots
    BY <2>1 DEF format_writes, w1, w2, w3, w4
  <2> QED
    BY <2>1, <2>2, <2>3
<1> HIDE DEF d1, d2, d3, d4, d5, w1, w2, w3, w4
<1>13. Leads(Blank, <<w1, w2>>, d2, InOrder({}))
  BY <1>5, <1>8, <1>9, <1>11, LeadsTwo
<1>14. Leads(d2, <<w3, w4>>, d4, InOrder({}))
  BY <1>5, <1>6, <1>9, <1>10, <1>11, LeadsTwo
<1>15. Leads(d2, <<w3, w4>> \o dot_writes(R, R), d5, InOrder({}))
  BY <1>4, <1>14, LeadsThen
<1>16. Leads(Blank, <<w1, w2>> \o (<<w3, w4>> \o dot_writes(R, R)), d5, InOrder({}))
  BY <1>13, <1>15, LeadsThen
<1> QED
  BY <1>12, <1>16 DEF d5

-----------------------------------------------------------------------------
(* The inductive invariant *)

\* The object that a handler of kind k puts in doubt when it is about slot p.
Doubted(k, p) == IF k \in {"remove", "shrink"} THEN {p} ELSE {}

\* The daemon is not killed inside removing and shrinking: both give clusters
\* back to the free list before the entry lets them go, and a daemon mounted
\* on what lies between hands them out again.
OrderlyCrashes == CrashIn \cap {"remove", "shrink"} = {}

\* What the daemon has in memory is in order, and so is every disk it makes on
\* the way there, write by write.
DiskInv ==
  /\ Safe(fat, free, slots, {})
  /\ daemon \in Daemon \cup {"killed"} /\ reply \in Reply
  /\ kind \in Kinds \cup {"none"} /\ (at = << >> \/ at \in Places)
  /\ crashes \in 0 .. MaxCrashes
  /\ \E F \in Files :
        /\ Leads(disk, todo, DiskOf(F, fat, free, slots), InOrder(InDoubt))
        /\ daemon = "up" => F = Formatted
        /\ F = Absent => todo = << >> /\ disk = Blank

\* What is in doubt is so because of the running handler.
LEMMA DoubtKinds ==
  /\ InDoubt = Doubted(kind, at)
  /\ \A k, p : k = "none" => Doubted(k, p) = {}
  /\ OrderlyCrashes => \A k \in CrashIn : \A p : Doubted(k, p) = {}
  /\ \A p : /\ Doubted("remove", p) = {p} /\ Doubted("shrink", p) = {p}
            /\ Doubted("create", p) = {} /\ Doubted("grow", p) = {} /\ Doubted("format", p) = {}
  BY DEF InDoubt, Doubted, OrderlyCrashes

\* A handler that starts to write.
LEMMA RunsLead ==
  ASSUME NEW k \in Kinds, NEW p, NEW ws, Runs(k, p, ws), NEW e, Leads(disk, ws, e, InOrder(Doubted(k, p))),
         p = << >> \/ p \in Places
  PROVE  /\ Leads(disk', todo', e, InOrder(InDoubt'))
         /\ kind' \in Kinds \cup {"none"} /\ (at' = << >> \/ at' \in Places)
         /\ crashes' = crashes
<1>1. /\ todo' = ws /\ disk' = disk /\ crashes' = crashes
      /\ kind' = IF ws = << >> THEN "none" ELSE k
      /\ at' = IF ws = << >> THEN << >> ELSE p
  BY DEF Runs
<1>2. InDoubt' = Doubted(kind', at')
  BY DEF InDoubt, Doubted
<1>3. CASE ws = << >>
  <2>1. disk = e /\ disk \in DiskStates
    BY <1>3, LeadsDone
  <2>2. Leads(disk, << >>, disk, InOrder(InDoubt'))
    BY <2>1, LeadsNone
  <2> QED
    BY <1>1, <1>3, <2>1, <2>2
<1>4. CASE ws # << >>
  <2>1. kind' = k /\ at' = p
    BY <1>1, <1>4
  <2> QED
    BY <1>1, <1>2, <2>1
<1> QED
  BY <1>3, <1>4

\* A disk nothing is being written to is what the daemon has in memory.
LEMMA DiskAtRest ==
  ASSUME DiskInv, todo = << >>
  PROVE  /\ disk \in InOrder({})
         /\ disk.fat = fat /\ disk.free = free /\ disk.slots = slots
         /\ daemon = "up" => disk = OnDisk /\ disk.file = Formatted
<1>1. PICK F \in Files :
        /\ Leads(disk, todo, DiskOf(F, fat, free, slots), InOrder(InDoubt))
        /\ daemon = "up" => F = Formatted
        /\ F = Absent => todo = << >> /\ disk = Blank
  BY DEF DiskInv
<1>2. disk = DiskOf(F, fat, free, slots) /\ disk \in DiskStates
  BY <1>1, LeadsDone
<1>3. fat \in [Clusters -> Links] /\ free \in Links /\ slots \in SlotMap /\ Safe(fat, free, slots, {})
  BY DEF DiskInv, Safe
<1>4. disk.file = F /\ disk.fat = fat /\ disk.free = free /\ disk.slots = slots
  BY <1>2, <1>3, DiskParts
<1>5. disk \in InOrder({})
  BY <1>1, <1>2, <1>3, <1>4 DEF InOrder
<1> QED
  BY <1>1, <1>2, <1>4, <1>5 DEF OnDisk

\* At every moment the disk is in order but for the object in doubt.
LEMMA DiskAlways ==
  ASSUME DiskInv
  PROVE  disk \in InOrder(InDoubt)
<1>1. CASE todo = << >>
  <2>1. disk \in InOrder({})
    BY <1>1, DiskAtRest
  <2> QED
    BY <2>1, SafeInDoubt DEF InOrder
<1>2. CASE todo # << >>
  BY <1>2, LeadsOn DEF DiskInv
<1> QED
  BY <1>1, <1>2

LEMMA DiskInitInv == DiskInit => DiskInv
<1> SUFFICES ASSUME DiskInit PROVE DiskInv
  OBVIOUS
<1>1. /\ fat = Blank.fat /\ free = Blank.free /\ slots = Blank.slots
      /\ disk = Blank /\ todo = << >> /\ at = << >> /\ crashes = 0
  BY DEF DiskInit
<1>2. daemon = "killed" /\ reply \in Reply /\ kind \in Kinds \cup {"none"}
  BY DEF DiskInit, Reply
<1>3. crashes \in 0 .. MaxCrashes
  BY <1>1, CrashAssumption
<1>4. Blank = DiskOf(Absent, Blank.fat, Blank.free, Blank.slots) /\ Safe(Blank.fat, Blank.free, Blank.slots, {})
  BY BlankParts
<1>5. Blank \in DiskStates
  <2>1. Blank.fat \in [Clusters -> Links] /\ Blank.free \in Links /\ Blank.slots \in SlotMap
    BY <1>4 DEF Safe
  <2> QED
    BY <1>4, <2>1, DiskParts, FileStates
<1>6. Leads(disk, todo, DiskOf(Absent, fat, free, slots), InOrder(InDoubt))
  BY <1>1, <1>4, <1>5, LeadsNone
<1>7. daemon # "up"
  BY <1>2
<1> QED
  BY <1>1, <1>2, <1>3, <1>4, <1>6, <1>7, FileStates DEF DiskInv

\* A handler that begins to write what it leaves in memory.
LEMMA HandlerInv ==
  ASSUME DiskInv, TreeInv', OnDisk = disk, NEW k \in Kinds, NEW p, p = << >> \/ p \in Places,
         NEW F \in Files, F # Absent, daemon' = "up" => F = Formatted,
         NEW ws, Runs(k, p, ws), Leads(OnDisk, ws, DiskOf(F, fat', free', slots'), InOrder(Doubted(k, p)))
  PROVE  DiskInv'
<1>1. /\ Leads(disk', todo', DiskOf(F, fat', free', slots'), InOrder(InDoubt'))
      /\ kind' \in Kinds \cup {"none"} /\ (at' = << >> \/ at' \in Places)
      /\ crashes' = crashes
  BY RunsLead
<1>2. Safe(fat', free', slots', {})
  BY SafeAfter
<1>3. daemon' \in Daemon /\ reply' \in Reply
  BY DEF TreeInv, FatInv, TypeOK, Daemon, Reply
<1>4. crashes' \in 0 .. MaxCrashes
  BY <1>1 DEF DiskInv
<1> QED
  BY <1>1, <1>2, <1>3, <1>4 DEF DiskInv

\* A daemon that is up and makes no writes has in memory what is on the disk.
LEMMA IdleTree ==
  ASSUME DiskInv, daemon = "up", todo = << >>
  PROVE  TreeInv /\ OnDisk = disk
<1>1. daemon \in Daemon
  BY DEF Daemon
<1>2. TreeInv
  BY <1>1, SafeIsTreeInv DEF DiskInv
<1> QED
  BY <1>2, DiskAtRest

LEMMA CreateKeepsDisk == DiskInv /\ RunCreate => DiskInv'
<1> SUFFICES ASSUME DiskInv, RunCreate PROVE DiskInv'
  OBVIOUS
<1>1. daemon = "up" /\ todo = << >>
  BY DEF RunCreate, Running
<1>2. TreeInv /\ OnDisk = disk
  BY <1>1, IdleTree
<1>3. PICK ws : Runs("create", << >>, ws) /\ Leads(OnDisk, ws, OnDiskNow, InOrder({}))
  BY <1>2, CreateRun
<1>4. TreeInv'
  BY <1>2, CreateRun
<1>5. Doubted("create", << >>) = {} /\ "create" \in Kinds
  BY DoubtKinds DEF Kinds
<1> QED
  BY <1>2, <1>3, <1>4, <1>5, FileStates, HandlerInv DEF OnDiskNow

LEMMA ObjectKeepsDisk == DiskInv /\ RunOnObject => DiskInv'
<1> SUFFICES ASSUME DiskInv, RunOnObject PROVE DiskInv'
  OBVIOUS
<1>1. daemon = "up" /\ todo = << >>
  BY DEF RunOnObject, Running
<1>2. TreeInv /\ OnDisk = disk
  BY <1>1, IdleTree
<1>3. TreeInv'
  BY <1>2, ObjectRun
<1>4. PICK p \in Places : \E ws :
         \/ Runs("remove", p, ws) /\ Leads(OnDisk, ws, OnDiskNow, InOrder({p}))
         \/ Runs("shrink", p, ws) /\ Leads(OnDisk, ws, OnDiskNow, InOrder({p}))
         \/ Runs("grow", p, ws) /\ GrowsBy(ws)
  BY <1>2, ObjectRun
<1>5. PICK ws :
         \/ Runs("remove", p, ws) /\ Leads(OnDisk, ws, OnDiskNow, InOrder({p}))
         \/ Runs("shrink", p, ws) /\ Leads(OnDisk, ws, OnDiskNow, InOrder({p}))
         \/ Runs("grow", p, ws) /\ GrowsBy(ws)
  BY <1>4
<1>6. PICK k \in Kinds, F \in Files :
         /\ F # Absent /\ (daemon' = "up" => F = Formatted)
         /\ Runs(k, p, ws) /\ Leads(OnDisk, ws, DiskOf(F, fat', free', slots'), InOrder(Doubted(k, p)))
  <2>1. "remove" \in Kinds /\ "shrink" \in Kinds /\ "grow" \in Kinds
    BY DEF Kinds
  <2>2. CASE \E k \in Kinds : Runs(k, p, ws) /\ Leads(OnDisk, ws, OnDiskNow, InOrder(Doubted(k, p)))
    BY <2>2, FileStates DEF OnDiskNow
  <2>3. CASE Runs("grow", p, ws) /\ LosesDisk /\ Leads(OnDisk, ws, OnDiskLost, InOrder({}))
    <3>1. "zeroed" \in Files /\ "zeroed" # Absent
      BY DEF Files, Absent
    <3>2. daemon' # "up"
      BY <2>3 DEF LosesDisk
    <3> QED
      BY <2>1, <2>3, <3>1, <3>2, DoubtKinds DEF OnDiskLost
  <2> QED
    BY <1>5, <2>1, <2>2, <2>3, DoubtKinds DEF GrowsBy
<1> QED
  BY <1>2, <1>3, <1>6, HandlerInv

LEMMA WriteKeepsDisk == DiskInv /\ Write => DiskInv'
<1> SUFFICES ASSUME DiskInv, Write PROVE DiskInv'
  OBVIOUS
<1>1. PICK F \in Files :
        /\ Leads(disk, todo, DiskOf(F, fat, free, slots), InOrder(InDoubt))
        /\ daemon = "up" => F = Formatted
        /\ F = Absent => todo = << >> /\ disk = Blank
  BY DEF DiskInv
<1>2. /\ todo # << >> /\ disk' = Written(disk, Head(todo)) /\ todo' = Tail(todo)
      /\ kind' = IF todo' = << >> THEN "none" ELSE kind
      /\ at' = IF todo' = << >> THEN << >> ELSE at
      /\ UNCHANGED <<fat, free, slots, daemon, reply, crashes>>
  BY DEF Write, Running
<1>3. Leads(disk', todo', DiskOf(F, fat, free, slots), InOrder(InDoubt))
  BY <1>1, <1>2, LeadsOn
<1>4. Leads(disk', todo', DiskOf(F, fat', free', slots'), InOrder(InDoubt'))
  <2>1. CASE todo' = << >>
    <3>1. disk' = DiskOf(F, fat, free, slots) /\ disk' \in DiskStates
      BY <1>3, <2>1, LeadsDone
    <3> QED
      BY <1>2, <2>1, <3>1, LeadsNone
  <2>2. CASE todo' # << >>
    <3>1. kind' = kind /\ at' = at
      BY <1>2, <2>2
    <3>2. InDoubt' = InDoubt
      BY <3>1 DEF InDoubt
    <3> QED
      BY <1>2, <1>3, <3>2
  <2> QED
    BY <2>1, <2>2
<1>5. kind' \in Kinds \cup {"none"} /\ (at' = << >> \/ at' \in Places)
  BY <1>2 DEF DiskInv
<1>6. /\ Safe(fat', free', slots', {}) /\ crashes' \in 0 .. MaxCrashes
      /\ daemon' \in Daemon \cup {"killed"} /\ reply' \in Reply
  BY <1>2 DEF DiskInv
<1>7. (daemon' = "up" => F = Formatted) /\ F # Absent
  BY <1>1, <1>2
<1> QED
  BY <1>4, <1>5, <1>6, <1>7 DEF DiskInv

\* The disk a killed daemon leaves is the state the next one mounts.
LEMMA CrashKeepsDisk == OrderlyCrashes /\ DiskInv /\ Crash => DiskInv'
<1> SUFFICES ASSUME OrderlyCrashes, DiskInv, Crash PROVE DiskInv'
  OBVIOUS
<1>1. /\ kind \in CrashIn /\ crashes < MaxCrashes /\ crashes' = crashes + 1
      /\ fat' = disk.fat /\ free' = disk.free /\ slots' = disk.slots
      /\ todo' = << >> /\ at' = << >> /\ disk' = disk
  BY DEF Crash
<1>2. daemon' = "killed" /\ daemon' # "up" /\ reply' \in Reply /\ kind' \in Kinds \cup {"none"}
  BY DEF Crash, Reply
<1>3. InDoubt = {}
  BY <1>1, DoubtKinds
<1>4. disk \in InOrder({})
  BY <1>3, DiskAlways
<1>5. disk \in DiskStates /\ Safe(disk.fat, disk.free, disk.slots, {}) /\ (disk.file = Absent => disk = Blank)
  BY <1>4 DEF InOrder
<1>6. disk = DiskOf(disk.file, disk.fat, disk.free, disk.slots) /\ disk.file \in Files
  BY <1>5, DiskIsParts
<1>7. Leads(disk', todo', DiskOf(disk.file, fat', free', slots'), InOrder(InDoubt'))
  BY <1>1, <1>5, <1>6, LeadsNone
<1>8. crashes' \in 0 .. MaxCrashes
  BY <1>1, CrashAssumption DEF DiskInv
<1>9. \E F \in Files :
        /\ Leads(disk', todo', DiskOf(F, fat', free', slots'), InOrder(InDoubt'))
        /\ daemon' = "up" => F = Formatted
        /\ F = Absent => todo' = << >> /\ disk' = Blank
  BY <1>1, <1>2, <1>5, <1>6, <1>7
<1> QED
  BY <1>1, <1>2, <1>5, <1>8, <1>9 DEF DiskInv

LEMMA FormatKeepsDisk == DiskInv /\ Format => DiskInv'
<1> SUFFICES ASSUME DiskInv, Format PROVE DiskInv'
  OBVIOUS
<1>1. /\ todo = << >> /\ disk.file = Absent
      /\ fat' = init_fat /\ free' = FREE_CLUSTER_START
      /\ slots' = AddDots(slots, DIR_ENTRY_TYPE_SUBDIR, ROOT_CLUSTER_START, ROOT_CLUSTER_START)
      /\ Runs("format", << >>, format_writes)
  BY DEF Format, Running, Absent
<1>2. daemon' = "up" /\ reply' = "none"
  BY DEF Format
<1>3. disk = Blank /\ slots = Blank.slots
  <2>1. disk \in InOrder({}) /\ disk.slots = slots
    BY <1>1, DiskAtRest
  <2> QED
    BY <1>1, <2>1 DEF InOrder
<1>4. slots = [c \in Clusters |-> ZeroCluster]
  BY <1>3, BlankParts
<1>5. TreeInv'
  <2>1. Init'
    BY <1>1, <1>2, <1>4 DEF Init
  <2>2. (Init => TreeInv)'
    BY InitTree, PTL
  <2> QED
    BY <2>1, <2>2
<1>6. Safe(fat', free', slots', {})
  BY <1>5, SafeAfter
<1>7. Leads(disk, format_writes, OnDiskNow, InOrder({}))
  BY <1>1, <1>3, <1>6, FormatLeads DEF OnDiskNow
<1>8. Doubted("format", << >>) = {} /\ "format" \in Kinds
  BY DoubtKinds DEF Kinds
<1>9. /\ Leads(disk', todo', OnDiskNow, InOrder(InDoubt'))
      /\ kind' \in Kinds \cup {"none"} /\ (at' = << >> \/ at' \in Places)
      /\ crashes' = crashes
  BY <1>1, <1>7, <1>8, RunsLead
<1>10. daemon' \in Daemon /\ reply' \in Reply
  BY <1>2 DEF Daemon, Reply
<1>11. crashes' \in 0 .. MaxCrashes
  BY <1>9 DEF DiskInv
<1> QED
  BY <1>6, <1>9, <1>10, <1>11, FileStates DEF DiskInv, OnDiskNow

LEMMA MountKeepsDisk == DiskInv /\ Mount => DiskInv'
<1> SUFFICES ASSUME DiskInv, Mount PROVE DiskInv'
  OBVIOUS
<1>1. PICK F \in Files :
        /\ Leads(disk, todo, DiskOf(F, fat, free, slots), InOrder(InDoubt))
        /\ daemon = "up" => F = Formatted
        /\ F = Absent => todo = << >> /\ disk = Blank
  BY DEF DiskInv
<1>2. /\ todo = << >> /\ UNCHANGED <<fat, free, slots, disk, todo, kind, at, crashes>>
      /\ daemon' = "up" => disk.file # "absent" /\ disk.file # "empty" /\ disk.file # "zeroed"
  BY DEF Mount, Running
<1>3. daemon' \in Daemon /\ reply' \in Reply
  BY DEF Mount, Daemon, Reply
<1>4. disk = DiskOf(F, fat, free, slots)
  BY <1>1, <1>2, LeadsDone
<1>5. disk.file = F
  <2>1. fat \in [Clusters -> Links] /\ free \in Links /\ slots \in SlotMap
    BY DEF DiskInv, Safe
  <2> QED
    BY <1>4, <2>1, DiskParts
<1>6. daemon' = "up" => F = Formatted
  BY <1>2, <1>5 DEF Files, Formatted
<1>7. InDoubt' = InDoubt
  BY <1>2 DEF InDoubt
<1>8. Leads(disk', todo', DiskOf(F, fat', free', slots'), InOrder(InDoubt'))
  BY <1>1, <1>2, <1>7
<1>9. F = Absent => todo' = << >> /\ disk' = Blank
  BY <1>1, <1>2
<1> QED
  BY <1>2, <1>3, <1>6, <1>8, <1>9 DEF DiskInv

LEMMA DiskNextInv == OrderlyCrashes /\ DiskInv /\ [DiskNext]_diskVars => DiskInv'
<1> SUFFICES ASSUME OrderlyCrashes, DiskInv, [DiskNext]_diskVars PROVE DiskInv'
  OBVIOUS
<1>1. CASE UNCHANGED diskVars
  <2>1. /\ UNCHANGED <<fat, free, slots, daemon, reply, disk, todo, kind, at, crashes>>
    BY <1>1 DEF diskVars
  <2>2. InDoubt' = InDoubt
    BY <2>1 DEF InDoubt
  <2> QED
    BY <2>1, <2>2 DEF DiskInv
<1> QED
  BY <1>1, CreateKeepsDisk, ObjectKeepsDisk, WriteKeepsDisk, CrashKeepsDisk, FormatKeepsDisk, MountKeepsDisk
  DEF DiskNext

-----------------------------------------------------------------------------
(* What follows from it *)

\* What Fat says of its state, in the words used here, said of the disk.
LEMMA SearchOnDisk ==
  /\ D!Entries = EntriesOf(disk.slots)
  /\ \A p : D!EntryAt(p) = At(disk.slots, p)
  /\ \A f, c : D!Chain(f, c) = Chain(f, c) /\ D!Ends(f, c) = Ends(f, c)
  /\ D!Clusters = Clusters
  /\ \A d, name : D!find_dir_entry_by_name(d, name) = Found(disk.fat, disk.slots, d, name)
  /\ D!Dirs = DirsFound(disk.fat, disk.slots)
<1>1. D!Clusters = Clusters /\ D!Slots = Slots
  BY DEF D!Clusters, Clusters, D!Slots, Slots
<1>2. \A p : D!EntryAt(p) = At(disk.slots, p)
  BY DEF D!EntryAt, At
<1>3. \A f, c : D!Chain(f, c) = Chain(f, c)
  BY <1>1 DEF D!Chain, Chain, D!Closed, Closed, D!END_OF_CHAIN, END_OF_CHAIN
<1>4. \A f, c : D!Ends(f, c) = Ends(f, c)
  BY <1>3 DEF D!Ends, Ends, D!END_OF_CHAIN, END_OF_CHAIN
<1>5. D!Entries = EntriesOf(disk.slots)
  BY <1>1, <1>2 DEF D!Entries, EntriesOf, Named, Places
<1>6. \A d, name : D!find_dir_entry_by_name(d, name) = Found(disk.fat, disk.slots, d, name)
  BY <1>1, <1>2, <1>3 DEF D!find_dir_entry_by_name, D!FirstSlot, Found
<1>7. \A d : D!Subdirs(d) = SubdirsFound(disk.fat, disk.slots, d)
  BY <1>2, <1>6 DEF D!Subdirs, SubdirsFound, D!DIR_ENTRY_TYPE_SUBDIR, DIR_ENTRY_TYPE_SUBDIR
<1>8. D!Dirs = DirsFound(disk.fat, disk.slots)
  <2> DEFINE heads == {ROOT_CLUSTER_START} \cup Firsts(disk.slots)
             sub   == [d \in heads |-> SubdirsFound(disk.fat, disk.slots, d)]
  <2>1. {ROOT_CLUSTER_START} \cup {D!EntryAt(p).first : p \in D!Entries} = heads
    BY <1>2, <1>5 DEF Firsts
  <2>2. [d \in heads |-> D!Subdirs(d)] = sub
    BY <1>7
  <2>3. D!Dirs = heads \ UNION {heads \ S : S \in {S \in SUBSET heads :
                                     ROOT_CLUSTER_START \in S /\ \A d \in S : sub[d] \subseteq S}}
    <3> HIDE DEF heads, sub
    <3> QED
      BY <2>1, <2>2 DEF D!Dirs
  <2> QED
    BY <2>3 DEF DirsFound
<1> QED
  BY <1>1, <1>2, <1>3, <1>4, <1>5, <1>6, <1>8

\* A disk in order is one on which the damage is local.
LEMMA InvIsLocal == DiskInv => CrashDamageLocal /\ EntriesReachable
<1> SUFFICES ASSUME DiskInv PROVE CrashDamageLocal /\ EntriesReachable
  OBVIOUS
<1>1. disk \in DiskStates /\ Safe(disk.fat, disk.free, disk.slots, InDoubt)
  BY DiskAlways DEF InOrder
<1> DEFINE f  == disk.fat
           r  == disk.free
           sl == disk.slots
<1>2. /\ D!Entries = EntriesOf(sl) /\ D!Clusters = Clusters
      /\ \A p : D!EntryAt(p) = At(sl, p)
      /\ \A c : D!Chain(f, c) = Chain(f, c) /\ D!Ends(f, c) = Ends(f, c)
      /\ D!Dirs = DirsFound(f, sl)
  BY SearchOnDisk
<1>3. f \in [Clusters -> Links] /\ sl \in SlotMap /\ Safe(f, r, sl, InDoubt)
  BY <1>1 DEF Safe
<1> HIDE DEF f, r, sl
<1>4. D!ChainsEnd
  BY <1>2, <1>3 DEF D!ChainsEnd, Safe, f
<1>5. Chain(f, ROOT_CLUSTER_START) \cap Chain(f, r) = {}
  BY <1>3 DEF Safe
<1>6. ASSUME NEW p \in D!Entries
      PROVE  /\ Chain(f, D!EntryAt(p).first) \cap Chain(f, ROOT_CLUSTER_START) = {}
             /\ \A q \in D!Entries : p # q => Chain(f, D!EntryAt(p).first) \cap Chain(f, D!EntryAt(q).first) = {}
             /\ p \notin InDoubt =>
                   /\ Chain(f, D!EntryAt(p).first) \cap Chain(f, r) = {}
                   /\ D!EntryAt(p).type = DIR_ENTRY_TYPE_FILE =>
                         D!EntryAt(p).size <= BYTE_PER_CLUSTER * Cardinality(Chain(f, D!EntryAt(p).first))
  BY <1>2, <1>3 DEF Safe, Held, Covered
<1>7. CrashDamageLocal
  BY <1>4, <1>5, <1>6 DEF CrashDamageLocal, f, r
<1>8. EntriesReachable
  <2>1. TreeOK(f, sl)
    BY <1>3 DEF Safe
  <2>2. D!Dirs = Reach(f, sl)
    BY <1>2, <1>3, <2>1, DirsFoundAll
  <2>3. \A p \in D!Entries : \E d \in D!Dirs : p[1] \in D!Chain(f, d)
    BY <1>2, <2>1, <2>2 DEF TreeOK, EntriesOf
  <2> QED
    BY <2>3 DEF EntriesReachable, D!TreeConnected, f
<1> QED
  BY <1>7, <1>8

\* From the invariant, for the four properties of FatDisk.
LEMMA DiskProperties == DiskInv => DiskTypeOK /\ DiskCurrent
<1> SUFFICES ASSUME DiskInv PROVE DiskTypeOK /\ DiskCurrent
  OBVIOUS
<1>1. DiskCurrent
  BY DiskAtRest DEF DiskCurrent, Running, Formatted
<1>2. disk \in DiskStates /\ Safe(disk.fat, disk.free, disk.slots, InDoubt)
  BY DiskAlways DEF InOrder
<1>3. disk.file \in Files /\ disk.fat \in [Clusters -> Links] /\ disk.slots \in SlotMap
  BY <1>2, DiskIsParts
<1>4. disk.free \in Links \ {ROOT_CLUSTER_START}
  BY <1>2 DEF Safe
<1>5. todo \in Seq(Writes)
  BY DEF DiskInv, Leads
<1>6. \A i \in 1 .. Len(todo) : todo[i].op \in {"create", "size", "table", "super", "link", "zero", "put", "clear"}
  BY <1>5, WriteOps
<1>7. /\ daemon \in Daemon \cup {"killed"} /\ kind \in Kinds \cup {"none"}
      /\ (at = << >> \/ at \in Places) /\ crashes \in 0 .. MaxCrashes
  BY DEF DiskInv
<1>8. daemon \in {"up", "segv", "abort", "lost", "killed"}
  BY <1>7 DEF Daemon
<1> QED
  BY <1>1, <1>3, <1>4, <1>6, <1>7, <1>8 DEF DiskTypeOK, Files, SlotMap, Places

LEMMA DiskInvHolds == OrderlyCrashes => (DiskSpec => []DiskInv)
<1> SUFFICES ASSUME OrderlyCrashes PROVE DiskSpec => []DiskInv
  OBVIOUS
<1>1. DiskInv /\ [DiskNext]_diskVars => DiskInv'
  BY DiskNextInv
<1> QED
  BY <1>1, DiskInitInv, PTL DEF DiskSpec

-----------------------------------------------------------------------------
(* Theorems *)

\* Disk file, pending writes and handler keep their types, and the root
\* directory never heads the free list of the disk.
THEOREM DiskTyped == OrderlyCrashes => (DiskSpec => []DiskTypeOK)
  BY DiskInvHolds, DiskProperties, PTL

\* The writes of every handler, one by one as its calls make them, add up to
\* what it does in memory: when it has ended, a mount would find the same.
THEOREM DiskStaysCurrent == OrderlyCrashes => (DiskSpec => []DiskCurrent)
  BY DiskInvHolds, DiskProperties, PTL

\* Between any two writes of any handler, on a disk that earlier crashes have
\* left or not, nothing is damaged but the object that is being removed or
\* shrunk.
THEOREM CrashDamageStaysLocal == OrderlyCrashes => (DiskSpec => []CrashDamageLocal)
  BY DiskInvHolds, InvIsLocal, PTL

\* Nor is an entry ever on the disk in a cluster no directory has yet.
THEOREM EntriesStayReachable == OrderlyCrashes => (DiskSpec => []EntriesReachable)
  BY DiskInvHolds, InvIsLocal, PTL

=============================================================================
