------------------------------ MODULE FatProofs ------------------------------
(***************************************************************************)
(* FatInv is an inductive invariant of Fat: whatever the requests, names   *)
(* and sizes, on a disk of any number of clusters.  TypeOK, NoCrossLink,   *)
(* ChainsEnd and SizeCovered follow.  So is TreeInv, which adds to it what *)
(* holds of the directories; TreeConnected and DotsCorrect follow, and     *)
(* LossOnlyByFailedInsertion for every step from a state that has it.      *)
(*                                                                         *)
(* First come the lemmas about the operators of FatTable, for every table. *)
(* A chain is the least set of clusters that contains its head and is      *)
(* closed under the links, so an induction along a chain is the            *)
(* construction of a closed set: each lemma names the set it uses.         *)
(***************************************************************************)
EXTENDS Fat, FiniteSetTheorems, TLAPS

\* The clusters that start a chain something refers to.
Heads ==
    ({ROOT_CLUSTER_START, free} \ {END_OF_CHAIN}) \cup {EntryAt(p).first : p \in Entries}

\* The inductive invariant: every walk ends, the chains of the root directory,
\* of the free list and of the entries are disjoint, and no two of them have
\* the same head.  Clusters that nothing refers to may link anywhere: a daemon
\* killed behind the write of the superblock leaves popped ones linked into the
\* free list.  Shrinking a file relies on its size being covered by its chain.
FatInv ==
    /\ TypeOK
    /\ Forest(fat, Heads)
    /\ \A p \in Entries :
          /\ EntryAt(p).first \notin {ROOT_CLUSTER_START, free}
          /\ \A q \in Entries : EntryAt(p).first = EntryAt(q).first => p = q
    /\ SizeCovered

-----------------------------------------------------------------------------
(* The table and its chains. *)

\* The mark of a chain's end is no cluster of the table.
LEMMA ZeroNoCluster == END_OF_CHAIN \notin Clusters
  BY ClusterAssumption DEF END_OF_CHAIN, Clusters

\* Membership in a chain, as membership in every closed set with its head.
LEMMA ChainMember ==
  ASSUME NEW f, NEW c \in Clusters, NEW x
  PROVE  x \in Chain(f, c) <=>
           /\ x \in Clusters
           /\ \A S \in SUBSET Clusters : c \in S /\ Closed(f, S) => x \in S
  BY ZeroNoCluster DEF Chain

\* The chain contains its head and is closed.
LEMMA ChainBasics ==
  ASSUME NEW f \in [Clusters -> Links], NEW c \in Clusters
  PROVE  /\ c \in Chain(f, c)
         /\ Chain(f, c) \subseteq Clusters
         /\ Closed(f, Chain(f, c))
<1>1. c \in Chain(f, c) /\ Chain(f, c) \subseteq Clusters
  BY ChainMember
<1>2. ASSUME NEW x \in Chain(f, c), f[x] # END_OF_CHAIN
      PROVE  f[x] \in Chain(f, c)
  <2>1. x \in Clusters /\ f[x] \in Clusters
    BY <1>1, <1>2 DEF Links
  <2>2. ASSUME NEW S \in SUBSET Clusters, c \in S, Closed(f, S)
        PROVE  f[x] \in S
    <3>1. x \in S
      BY <2>2, ChainMember
    <3> QED
      BY <3>1, <2>2, <1>2 DEF Closed
  <2> QED
    BY <2>1, <2>2, ChainMember
<1> QED
  BY <1>1, <1>2 DEF Closed

\* It is the least such set.
LEMMA ChainLeast ==
  ASSUME NEW f, NEW c \in Clusters,
         NEW S \in SUBSET Clusters, c \in S, Closed(f, S)
  PROVE  Chain(f, c) \subseteq S
  BY ChainMember

\* A walk from END_OF_CHAIN visits nothing.
LEMMA ChainOfZero ==
  ASSUME NEW f PROVE Chain(f, END_OF_CHAIN) = {}
  BY DEF Chain

\* Behind a cluster of a chain there is its end or a cluster of the chain.
LEMMA ChainNext ==
  ASSUME NEW f \in [Clusters -> Links], NEW c \in Clusters,
         NEW x \in Chain(f, c)
  PROVE  /\ x \in Clusters
         /\ f[x] \in Links
         /\ f[x] # END_OF_CHAIN => f[x] \in Chain(f, c) /\ f[x] \in Clusters
  BY ChainBasics DEF Closed, Links

\* A walk from a cluster of the chain stays in the chain.
LEMMA ChainSub ==
  ASSUME NEW f \in [Clusters -> Links], NEW c \in Clusters,
         NEW x \in Chain(f, c)
  PROVE  Chain(f, x) \subseteq Chain(f, c) /\ Chain(f, f[x]) \subseteq Chain(f, c)
<1>1. x \in Clusters /\ Chain(f, c) \in SUBSET Clusters /\ Closed(f, Chain(f, c))
  BY ChainBasics
<1>2. Chain(f, x) \subseteq Chain(f, c)
  BY <1>1, ChainLeast
<1>3. CASE f[x] = END_OF_CHAIN
  BY <1>2, <1>3, ChainOfZero
<1>4. CASE f[x] # END_OF_CHAIN
  <2>1. f[x] \in Chain(f, c) /\ f[x] \in Clusters
    BY <1>4, ChainNext
  <2> QED
    BY <1>1, <1>2, <2>1, ChainLeast
<1> QED
  BY <1>3, <1>4

\* A chain is its head and the chain of the next cluster.
LEMMA ChainStep ==
  ASSUME NEW f \in [Clusters -> Links], NEW c \in Clusters
  PROVE  Chain(f, c) = {c} \cup Chain(f, f[c])
<1>1. {c} \cup Chain(f, f[c]) \subseteq Chain(f, c)
  BY ChainBasics, ChainSub
<1>2. CASE f[c] = END_OF_CHAIN
  <2>1. Closed(f, {c})
    BY <1>2 DEF Closed
  <2> QED
    BY <1>1, <2>1, ChainLeast
<1>3. CASE f[c] # END_OF_CHAIN
  <2>1. f[c] \in Clusters
    BY <1>3 DEF Links
  <2>2. f[c] \in Chain(f, f[c]) /\ Chain(f, f[c]) \subseteq Clusters
        /\ Closed(f, Chain(f, f[c]))
    BY <2>1, ChainBasics
  <2>3. Closed(f, {c} \cup Chain(f, f[c]))
    BY <2>2 DEF Closed
  <2>4. {c} \cup Chain(f, f[c]) \in SUBSET Clusters
    BY <2>2
  <2> QED
    BY <1>1, <2>3, <2>4, ChainLeast
<1> QED
  BY <1>2, <1>3

\* Two tables that agree along a chain have the same chain.
LEMMA ChainSame ==
  ASSUME NEW f \in [Clusters -> Links], NEW g \in [Clusters -> Links],
         NEW c \in Clusters, \A x \in Chain(f, c) : g[x] = f[x]
  PROVE  Chain(g, c) = Chain(f, c)
<1>1. /\ c \in Chain(f, c)
      /\ Chain(f, c) \in SUBSET Clusters
      /\ Closed(f, Chain(f, c))
      /\ c \in Chain(g, c)
      /\ Chain(g, c) \in SUBSET Clusters
      /\ Closed(g, Chain(g, c))
  BY ChainBasics
<1>2. Closed(g, Chain(f, c))
  BY <1>1 DEF Closed
<1>3. Chain(g, c) \subseteq Chain(f, c)
  BY <1>1, <1>2, ChainLeast
<1>4. Closed(f, Chain(g, c))
  BY <1>1, <1>3 DEF Closed
<1> QED
  BY <1>1, <1>3, <1>4, ChainLeast

\* A chain ends in one cluster.
LEMMA OneEnd ==
  ASSUME NEW f \in [Clusters -> Links], NEW c \in Clusters,
         NEW e \in Chain(f, c), f[e] = END_OF_CHAIN,
         NEW d \in Chain(f, c), f[d] = END_OF_CHAIN
  PROVE  d = e
<1> DEFINE S == {x \in Chain(f, c) : e \in Chain(f, x)}
<1>1. c \in S /\ S \in SUBSET Clusters
  BY ChainBasics
<1>2. Closed(f, S)
  <2> SUFFICES ASSUME NEW x \in S, f[x] # END_OF_CHAIN PROVE f[x] \in S
    BY DEF Closed
  <2>1. x \in Clusters /\ f[x] \in Chain(f, c)
    BY ChainNext
  <2>2. Chain(f, x) = {x} \cup Chain(f, f[x])
    BY <2>1, ChainStep
  <2> QED
    BY <2>1, <2>2
<1>3. d \in S
  BY <1>1, <1>2, ChainLeast
<1>4. Chain(f, d) = {d}
  BY ChainNext, ChainStep, ChainOfZero
<1> QED
  BY <1>3, <1>4

\* A walk that ends does not come back to where it started.
LEMMA NoReturn ==
  ASSUME NEW f \in [Clusters -> Links], NEW x \in Clusters,
         Ends(f, x), x \in Chain(f, f[x])
  PROVE  FALSE
<1> DEFINE S == {y \in Chain(f, x) : x \in Chain(f, y)}
<1>1. x \in S /\ S \in SUBSET Clusters
  BY ChainBasics
<1>2. Closed(f, S)
  <2> SUFFICES ASSUME NEW y \in S, f[y] # END_OF_CHAIN PROVE f[y] \in S
    BY DEF Closed
  <2>1. y \in Clusters /\ f[y] \in Chain(f, x)
    BY ChainNext
  <2>2. Chain(f, y) = {y} \cup Chain(f, f[y])
    BY <2>1, ChainStep
  <2> QED
    BY <2>1, <2>2
<1>3. PICK e \in Chain(f, x) : f[e] = END_OF_CHAIN
  BY DEF Ends
<1>4. e \in S
  BY <1>1, <1>2, ChainLeast
<1>5. Chain(f, e) = {e}
  BY <1>3, ChainNext, ChainStep, ChainOfZero
<1>6. x = e
  BY <1>4, <1>5
<1> QED
  BY <1>3, <1>6, ChainOfZero

\* get_last_cluster_in_chain returns the end of a chain that ends.
LEMMA LastCluster ==
  ASSUME NEW f \in [Clusters -> Links], NEW c \in Clusters, Ends(f, c)
  PROVE  /\ get_last_cluster_in_chain(f, c) \in Chain(f, c)
         /\ get_last_cluster_in_chain(f, c) \in Clusters
         /\ f[get_last_cluster_in_chain(f, c)] = END_OF_CHAIN
<1>1. \E e \in Chain(f, c) : f[e] = END_OF_CHAIN
  BY DEF Ends
<1> QED
  BY <1>1, ChainBasics DEF get_last_cluster_in_chain

-----------------------------------------------------------------------------
(* Counting *)

\* A disk has finitely many clusters.
LEMMA ClustersFinite == IsFiniteSet(Clusters)
  BY FS_Interval, ClusterAssumption DEF Clusters

\* count_cluster_in_chain returns a number: the recursion is over a finite set.
LEMMA ChainFinite ==
  ASSUME NEW f \in [Clusters -> Links], NEW c \in Links
  PROVE  /\ IsFiniteSet(Chain(f, c))
         /\ count_cluster_in_chain(f, c) \in Nat
<1>1. Chain(f, c) \subseteq Clusters
  BY ChainBasics, ChainOfZero DEF Links
<1>2. IsFiniteSet(Chain(f, c))
  BY <1>1, ClustersFinite, FS_Subset
<1> QED
  BY <1>2, FS_CardinalityType DEF count_cluster_in_chain

\* count_cluster_in_chain(END_OF_CHAIN) is 0.
LEMMA CountZero ==
  ASSUME NEW f PROVE count_cluster_in_chain(f, END_OF_CHAIN) = 0
  BY ChainOfZero, FS_EmptySet DEF count_cluster_in_chain

\* The recursion of count_cluster_in_chain.
LEMMA CountStep ==
  ASSUME NEW f \in [Clusters -> Links], NEW c \in Clusters, Ends(f, c)
  PROVE  count_cluster_in_chain(f, c) = count_cluster_in_chain(f, f[c]) + 1
<1>1. c \notin Chain(f, f[c])
  BY NoReturn
<1>2. f[c] \in Links
  OBVIOUS
<1>3. IsFiniteSet(Chain(f, f[c]))
  BY <1>2, ChainFinite
<1>4. Chain(f, c) = Chain(f, f[c]) \cup {c}
  BY ChainStep
<1> QED
  BY <1>1, <1>3, <1>4, FS_AddElement DEF count_cluster_in_chain

\* The walk of n links from c, for n less than the length of the chain,
\* arrives at a cluster of the chain.
LEMMA NthCluster ==
  ASSUME NEW f \in [Clusters -> Links], NEW c \in Clusters,
         \A x \in Clusters : Ends(f, x),
         NEW n \in Nat, n < count_cluster_in_chain(f, c)
  PROVE  /\ nth_cluster(f, c, n) \in Chain(f, c)
         /\ nth_cluster(f, c, n) \in Clusters
         /\ count_cluster_in_chain(f, nth_cluster(f, c, n)) + n
              = count_cluster_in_chain(f, c)
<1> DEFINE Count(x) == count_cluster_in_chain(f, x)
<1>1. \A x \in Links : Count(x) \in Nat
  BY ChainFinite
<1>2. \A x \in Clusters : Count(x) = Count(f[x]) + 1
  BY CountStep
<1>3. ASSUME \A x \in Chain(f, c) : Count(x) + n # Count(c)
      PROVE  FALSE
  <2> DEFINE S == {x \in Chain(f, c) : Count(x) + n > Count(c)}
  <2>1. c \in S /\ S \in SUBSET Clusters
    BY <1>1, <1>3, ChainBasics DEF Links
  <2>2. Closed(f, S)
    <3> SUFFICES ASSUME NEW x \in S, f[x] # END_OF_CHAIN PROVE f[x] \in S
      BY DEF Closed
    <3>1. x \in Clusters /\ f[x] \in Clusters /\ f[x] \in Chain(f, c)
      BY ChainNext
    <3>2. Count(x) = Count(f[x]) + 1 /\ Count(x) \in Nat /\ Count(f[x]) \in Nat
          /\ Count(c) \in Nat
      BY <3>1, <1>1, <1>2 DEF Links
    <3>3. Count(f[x]) + n # Count(c)
      BY <3>1, <1>3
    <3> QED
      BY <3>1, <3>2, <3>3
  <2>3. PICK e \in Chain(f, c) : f[e] = END_OF_CHAIN
    BY DEF Ends
  <2>4. e \in S /\ e \in Clusters
    BY <2>1, <2>2, ChainLeast
  <2>5. Count(e) = 1
    BY <2>3, <2>4, <1>2, CountZero
  <2>6. Count(c) \in Nat
    BY <1>1 DEF Links
  <2> QED
    BY <2>4, <2>5, <2>6
<1>4. \E x \in Chain(f, c) : Count(x) + n = Count(c)
  BY <1>3
<1> QED
  BY <1>4, ChainBasics DEF nth_cluster

-----------------------------------------------------------------------------
(* Cutting and linking: the two ways in which the handlers change a table. *)

\* Setting the link of x to v leaves every chain with an end, if the chain of
\* v does not come back to x.
LEMMA UpdateEnds ==
  ASSUME NEW f \in [Clusters -> Links], NEW x \in Clusters, NEW v \in Links,
         \A c \in Clusters : Ends(f, c), x \notin Chain(f, v),
         NEW g, g = update_fat_entry(f, x, v)
  PROVE  \A c \in Clusters : Ends(g, c)
<1> SUFFICES ASSUME NEW c \in Clusters PROVE Ends(g, c)
  OBVIOUS
<1>0. g = [f EXCEPT ![x] = v]
  BY DEF update_fat_entry
<1>1. g \in [Clusters -> Links]
  BY <1>0
<1>2. Chain(g, c) \subseteq Clusters /\ c \in Chain(g, c) /\ Closed(g, Chain(g, c))
  BY <1>1, ChainBasics
<1>3. CASE x \in Chain(g, c)
  <2>1. CASE v = END_OF_CHAIN
    BY <1>0, <1>3, <2>1 DEF Ends
  <2>2. CASE v # END_OF_CHAIN
    <3>1. v \in Clusters
      BY <2>2 DEF Links
    <3>2. \A y \in Chain(f, v) : g[y] = f[y] /\ y \in Clusters
      BY <3>1, <1>0, ChainBasics
    <3>3. Chain(g, v) = Chain(f, v)
      BY <1>1, <3>1, <3>2, ChainSame
    <3>4. PICK e \in Chain(f, v) : f[e] = END_OF_CHAIN
      BY <3>1 DEF Ends
    <3>5. g[x] = v
      BY <1>0
    <3>6. Chain(g, v) \subseteq Chain(g, c)
      BY <1>1, <1>3, <3>5, ChainSub
    <3> QED
      BY <3>2, <3>3, <3>4, <3>6 DEF Ends
  <2> QED
    BY <2>1, <2>2
<1>4. CASE x \notin Chain(g, c)
  <2>1. \A y \in Chain(g, c) : g[y] = f[y]
    BY <1>0, <1>2, <1>4
  <2>2. Closed(f, Chain(g, c))
    BY <1>2, <2>1 DEF Closed
  <2>3. Chain(f, c) \subseteq Chain(g, c)
    BY <1>2, <2>2, ChainLeast
  <2>4. PICK e \in Chain(f, c) : f[e] = END_OF_CHAIN
    BY DEF Ends
  <2> QED
    BY <2>1, <2>3, <2>4 DEF Ends
<1> QED
  BY <1>3, <1>4

\* Heads of a forest have disjoint chains.
LEMMA ForestDisjoint ==
  ASSUME NEW f \in [Clusters -> Links], NEW K, Forest(f, K),
         NEW c \in K, NEW d \in K, c # d
  PROVE  Chain(f, c) \cap Chain(f, d) = {}
  BY DEF Forest

\* Forgetting some of the heads leaves a forest.
LEMMA ForestSubset ==
  ASSUME NEW f, NEW K, Forest(f, K), NEW L \in SUBSET K
  PROVE  Forest(f, L)
  BY DEF Forest

\* A chain cut behind x keeps what came up to x.
LEMMA CutChain ==
  ASSUME NEW f \in [Clusters -> Links], NEW K, Forest(f, K),
         NEW c \in K, NEW x \in Chain(f, c),
         NEW g, g = update_fat_entry(f, x, END_OF_CHAIN)
  PROVE  /\ Chain(f, c) = Chain(g, c) \cup Chain(f, f[x])
         /\ Chain(g, c) \cap Chain(f, f[x]) = {}
<1>1. c \in Clusters /\ x \in Clusters /\ END_OF_CHAIN \in Links
  BY ChainBasics DEF Forest, Links
<1>2. g = [f EXCEPT ![x] = END_OF_CHAIN] /\ g \in [Clusters -> Links] /\ f[x] \in Links
  BY <1>1 DEF update_fat_entry
<1>3. /\ c \in Chain(g, c)
      /\ Chain(g, c) \subseteq Clusters
      /\ Closed(g, Chain(g, c))
      /\ c \in Chain(f, c)
      /\ Chain(f, c) \subseteq Clusters
      /\ Closed(f, Chain(f, c))
  BY <1>1, <1>2, ChainBasics
<1>4. Chain(f, f[x]) \subseteq Clusters /\ Closed(f, Chain(f, f[x]))
  BY <1>2, ChainBasics, ChainOfZero DEF Links, Closed
<1>5. x \notin Chain(f, f[x])
  BY <1>1, NoReturn DEF Forest
<1> DEFINE T == {y \in Chain(f, c) : x \in Chain(f, y)}
<1>6. c \in T
  BY <1>3
<1>7. Closed(g, T)
  <2> SUFFICES ASSUME NEW y \in T, y # x PROVE f[y] \in T
    BY <1>2, <1>3 DEF Closed
  <2>1. y \in Clusters /\ Chain(f, y) = {y} \cup Chain(f, f[y])
    BY <1>3, ChainStep
  <2>2. x \in Chain(f, f[y])
    BY <2>1
  <2>3. f[y] # END_OF_CHAIN
    BY <2>2, ChainOfZero
  <2> QED
    BY <1>3, <2>2, <2>3 DEF Closed
<1>71. ASSUME NEW y \in T, y \in Chain(f, f[x]) PROVE FALSE
  <2>1. f[x] \in Clusters
    BY <1>2, <1>71, ChainOfZero DEF Links
  <2>2. Chain(f, y) \subseteq Chain(f, f[x])
    BY <1>71, <2>1, ChainSub
  <2> QED
    BY <1>5, <2>2
<1>8. Chain(g, c) \subseteq T
  BY <1>1, <1>3, <1>6, <1>7, ChainLeast
<1> DEFINE U == Chain(g, c) \cup Chain(f, f[x])
<1>9. Closed(f, U)
  <2> SUFFICES ASSUME NEW y \in Chain(g, c), f[y] # END_OF_CHAIN PROVE f[y] \in U
    BY <1>4 DEF Closed
  <2>1. CASE y = x
    <3>1. f[x] \in Clusters
      BY <2>1, <1>2 DEF Links
    <3> QED
      BY <3>1, <2>1, ChainBasics
  <2>2. CASE y # x
    <3>1. g[y] = f[y]
      BY <1>2, <1>3, <2>2
    <3> QED
      BY <3>1, <1>3 DEF Closed
  <2> QED
    BY <2>1, <2>2
<1>10. Chain(f, c) \subseteq U
  BY <1>1, <1>3, <1>4, <1>9, ChainLeast
<1>11. Chain(f, f[x]) \subseteq Chain(f, c)
  BY <1>1, ChainSub
<1> QED
  BY <1>8, <1>10, <1>11, <1>71

\* Chains that do not contain the updated cluster are not changed.
LEMMA OtherChain ==
  ASSUME NEW f \in [Clusters -> Links], NEW x \in Clusters, NEW v \in Links,
         NEW d \in Clusters, x \notin Chain(f, d)
  PROVE  Chain(update_fat_entry(f, x, v), d) = Chain(f, d)
<1> DEFINE g == update_fat_entry(f, x, v)
<1>1. g \in [Clusters -> Links]
  BY DEF update_fat_entry
<1>2. \A y \in Chain(f, d) : g[y] = f[y]
  BY ChainBasics DEF update_fat_entry
<1> QED
  BY <1>1, <1>2, ChainSame

\* Cutting behind x makes the cluster behind x a head.
LEMMA CutForest ==
  ASSUME NEW f \in [Clusters -> Links], NEW K, Forest(f, K),
         NEW c \in K, NEW x \in Chain(f, c),
         NEW g, g = update_fat_entry(f, x, END_OF_CHAIN)
  PROVE  /\ g \in [Clusters -> Links]
         /\ Forest(g, K \cup ({f[x]} \ {END_OF_CHAIN}))
         /\ f[x] \in Links \ K
<1>1. /\ c \in Clusters /\ x \in Clusters /\ END_OF_CHAIN \in Links /\ f[x] \in Links
      /\ \A y \in Clusters : Ends(f, y)
  BY ChainBasics DEF Forest, Links
<1>2. g \in [Clusters -> Links]
  BY <1>1 DEF update_fat_entry
<1>3. \A y \in Clusters : Ends(g, y)
  <2>1. x \notin Chain(f, END_OF_CHAIN)
    BY ChainOfZero
  <2> QED
    BY <1>1, <2>1, UpdateEnds
<1>4. /\ Chain(f, c) = Chain(g, c) \cup Chain(f, f[x])
      /\ Chain(g, c) \cap Chain(f, f[x]) = {}
  BY CutChain
<1>5. ASSUME NEW d \in K, d # c PROVE Chain(g, d) = Chain(f, d) /\ Chain(f, d) \cap Chain(f, c) = {}
  <2>1. x \notin Chain(f, d) /\ d \in Clusters
    BY <1>5, ForestDisjoint DEF Forest
  <2> QED
    BY <1>1, <1>5, <2>1, OtherChain, ForestDisjoint
<1>6. CASE f[x] = END_OF_CHAIN
  <2>1. f[x] \notin K
    BY <1>6, ZeroNoCluster DEF Forest
  <2>2. Forest(g, K)
    <3>1. ASSUME NEW d \in K, NEW e \in K, d # e PROVE Chain(g, d) \cap Chain(g, e) = {}
      <4>1. \A h \in K : Chain(g, h) \subseteq Chain(f, h)
        BY <1>4, <1>5
      <4>2. Chain(f, d) \cap Chain(f, e) = {}
        BY <3>1, ForestDisjoint
      <4> QED
        BY <4>1, <4>2
    <3> QED
      BY <1>3, <3>1 DEF Forest
  <2>3. K \cup ({f[x]} \ {END_OF_CHAIN}) = K
    BY <1>6
  <2> QED
    BY <1>1, <1>2, <2>1, <2>2, <2>3
<1>7. CASE f[x] # END_OF_CHAIN
  <2> DEFINE r == f[x]
             L == K \cup {r}
  <2>1. r \in Clusters /\ x \notin Chain(f, r) /\ r \in Chain(f, r)
    BY <1>1, <1>7, NoReturn, ChainBasics DEF Links
  <2>2. Chain(g, r) = Chain(f, r) /\ Chain(f, r) \subseteq Chain(f, c)
    BY <1>1, <1>4, <2>1, OtherChain
  <2>3. r \notin K
    <3>1. r # c
      BY <2>1
    <3>2. \A d \in K : d # c => r # d
      <4>1. \A d \in K : d \in Chain(f, d)
        BY ChainBasics DEF Forest
      <4> QED
        BY <1>5, <2>1, <2>2, <4>1
    <3> QED
      BY <3>1, <3>2
  <2>4. ASSUME NEW d \in L, NEW e \in L, d # e PROVE Chain(g, d) \cap Chain(g, e) = {}
    <3>1. \A h \in K : Chain(g, h) \subseteq Chain(f, h)
      BY <1>4, <1>5
    <3>2. CASE d \in K /\ e \in K
      <4>1. Chain(f, d) \cap Chain(f, e) = {}
        BY <2>4, <3>2, ForestDisjoint
      <4> QED
        BY <3>1, <3>2, <4>1
    <3>3. \A h \in K : Chain(g, h) \cap Chain(g, r) = {}
      BY <1>4, <1>5, <2>2
    <3> QED
      BY <2>4, <3>2, <3>3
  <2>5. Forest(g, L)
    BY <1>3, <2>1, <2>4 DEF Forest
  <2>6. K \cup ({f[x]} \ {END_OF_CHAIN}) = L
    BY <1>7
  <2> QED
    BY <1>1, <1>2, <2>3, <2>5, <2>6
<1> QED
  BY <1>6, <1>7

\* The end of c's chain is in no other chain.
LEMMA LastElsewhere ==
  ASSUME NEW f \in [Clusters -> Links], NEW K, Forest(f, K),
         NEW c \in K, NEW d \in K, c # d
  PROVE  get_last_cluster_in_chain(f, c) \notin Chain(f, d)
<1>1. get_last_cluster_in_chain(f, c) \in Chain(f, c)
  BY LastCluster DEF Forest
<1> QED
  BY <1>1, ForestDisjoint

\* The chains of the other heads stay what they were.
LEMMA LinkOthers ==
  ASSUME NEW f \in [Clusters -> Links], NEW K, Forest(f, K),
         NEW c \in K, NEW h \in K, c # h,
         NEW g, g = update_fat_entry(f, get_last_cluster_in_chain(f, c), h)
  PROVE  \A d \in K \ {c} : Chain(g, d) = Chain(f, d)
<1> SUFFICES ASSUME NEW d \in K \ {c} PROVE Chain(g, d) = Chain(f, d)
  OBVIOUS
<1>1. d \in Clusters /\ h \in Links
  BY DEF Forest, Links
<1>2. get_last_cluster_in_chain(f, c) \in Clusters
  BY LastCluster DEF Forest
<1>3. get_last_cluster_in_chain(f, c) \notin Chain(f, d)
  BY LastElsewhere
<1> QED
  BY <1>1, <1>2, <1>3, OtherChain

\* The chain of c is now the two chains.
LEMMA LinkChain ==
  ASSUME NEW f \in [Clusters -> Links], NEW K, Forest(f, K),
         NEW c \in K, NEW h \in K, c # h,
         NEW g, g = update_fat_entry(f, get_last_cluster_in_chain(f, c), h)
  PROVE  Chain(g, c) = Chain(f, c) \cup Chain(f, h)
<1> DEFINE e == get_last_cluster_in_chain(f, c)
           U == Chain(f, c) \cup Chain(f, h)
<1>1. c \in Clusters /\ h \in Clusters /\ h \in Links
  BY DEF Forest, Links
<1>2. e \in Chain(f, c) /\ e \in Clusters /\ f[e] = END_OF_CHAIN
  BY <1>1, LastCluster DEF Forest
<1> HIDE DEF e
<1>3. g = [f EXCEPT ![e] = h] /\ g \in [Clusters -> Links]
  BY <1>1, <1>2 DEF update_fat_entry, e
<1>4. Chain(g, h) = Chain(f, h)
  BY LinkOthers
<1>5. /\ c \in Chain(f, c) /\ Closed(f, Chain(f, c))
      /\ h \in Chain(f, h) /\ Closed(f, Chain(f, h))
      /\ c \in Chain(g, c) /\ Closed(g, Chain(g, c))
      /\ Chain(g, c) \subseteq Clusters
      /\ U \in SUBSET Clusters
  BY <1>1, <1>3, ChainBasics
<1>6. Closed(g, U)
  <2> SUFFICES ASSUME NEW y \in U PROVE g[y] \in U \cup {END_OF_CHAIN}
    BY DEF Closed
  <2>1. CASE y = e
    BY <2>1, <1>2, <1>3, <1>5
  <2>2. CASE y # e
    <3>1. g[y] = f[y]
      BY <2>2, <1>3, <1>5
    <3> QED
      BY <3>1, <1>5 DEF Closed
  <2> QED
    BY <2>1, <2>2
<1>7. Chain(g, c) \subseteq U
  BY <1>1, <1>5, <1>6, ChainLeast
<1>8. Closed(f, Chain(g, c))
  <2> SUFFICES ASSUME NEW y \in Chain(g, c) PROVE f[y] \in Chain(g, c) \cup {END_OF_CHAIN}
    BY DEF Closed
  <2>1. CASE y = e
    BY <2>1, <1>2
  <2>2. CASE y # e
    <3>1. g[y] = f[y]
      BY <2>2, <1>3, <1>5
    <3> QED
      BY <3>1, <1>5 DEF Closed
  <2> QED
    BY <2>1, <2>2
<1>9. Chain(f, c) \subseteq Chain(g, c)
  BY <1>1, <1>5, <1>8, ChainLeast
<1>10. Chain(f, h) \subseteq Chain(g, c)
  <2>1. e \in Chain(g, c) /\ g[e] = h
    BY <1>2, <1>3, <1>9
  <2>2. Chain(g, h) \subseteq Chain(g, c)
    BY <1>1, <1>3, <2>1, ChainSub
  <2> QED
    BY <2>2, <1>4
<1> QED
  BY <1>7, <1>9, <1>10

\* Linking the end of c's chain to the head h: h is a head no longer.
LEMMA LinkForest ==
  ASSUME NEW f \in [Clusters -> Links], NEW K, Forest(f, K),
         NEW c \in K, NEW h \in K, c # h,
         NEW g, g = update_fat_entry(f, get_last_cluster_in_chain(f, c), h)
  PROVE  g \in [Clusters -> Links] /\ Forest(g, K \ {h})
<1> DEFINE e == get_last_cluster_in_chain(f, c)
<1>1. c \in Clusters /\ h \in Links /\ \A y \in Clusters : Ends(f, y)
  BY DEF Forest, Links
<1>2. e \in Clusters /\ f[e] = END_OF_CHAIN
  BY <1>1, LastCluster
<1>3. e \notin Chain(f, h)
  BY LastElsewhere
<1>4. g = update_fat_entry(f, e, h)
  OBVIOUS
<1> HIDE DEF e
<1>5. g = [f EXCEPT ![e] = h] /\ g \in [Clusters -> Links]
  BY <1>1, <1>2, <1>4 DEF update_fat_entry
<1>6. \A y \in Clusters : Ends(g, y)
  BY <1>1, <1>2, <1>3, <1>4, UpdateEnds
<1>7. /\ Chain(g, c) = Chain(f, c) \cup Chain(f, h)
      /\ \A d \in K \ {c} : Chain(g, d) = Chain(f, d)
  BY LinkChain, LinkOthers
<1>8. ASSUME NEW d \in K \ {h}, NEW k \in K \ {h}, d # k PROVE Chain(g, d) \cap Chain(g, k) = {}
  BY <1>7, <1>8 DEF Forest
<1> QED
  BY <1>5, <1>6, <1>8 DEF Forest

-----------------------------------------------------------------------------
(* The operations on the allocator.  K is the set of the heads of all      *)
(* chains, the head of the free list among them if there is one.           *)

\* Cutting behind x divides the length of the chain between its two parts.
LEMMA CutCount ==
  ASSUME NEW f \in [Clusters -> Links], NEW K, Forest(f, K),
         NEW c \in K, NEW x \in Chain(f, c),
         NEW g, g = update_fat_entry(f, x, END_OF_CHAIN)
  PROVE  count_cluster_in_chain(g, c) + count_cluster_in_chain(f, x)
           = count_cluster_in_chain(f, c) + 1
<1>1. c \in Clusters /\ x \in Clusters
  BY ChainBasics DEF Forest
<1>2. f[x] \in Links /\ c \in Links /\ x \in Links
  BY <1>1 DEF Links
<1>3. g \in [Clusters -> Links]
  BY <1>1 DEF update_fat_entry, Links
<1>4. /\ IsFiniteSet(Chain(g, c)) /\ IsFiniteSet(Chain(f, f[x]))
      /\ count_cluster_in_chain(g, c) \in Nat
      /\ count_cluster_in_chain(f, c) \in Nat
      /\ count_cluster_in_chain(f, x) \in Nat
      /\ count_cluster_in_chain(f, f[x]) \in Nat
  BY <1>2, <1>3, ChainFinite
<1>5. /\ Chain(f, c) = Chain(g, c) \cup Chain(f, f[x])
      /\ Chain(g, c) \cap Chain(f, f[x]) = {}
  BY CutChain
<1>6. Cardinality(Chain(f, c))
        = Cardinality(Chain(g, c)) + Cardinality(Chain(f, f[x])) - Cardinality({})
  BY <1>4, <1>5, FS_Union
<1>7. count_cluster_in_chain(f, c)
        = count_cluster_in_chain(g, c) + count_cluster_in_chain(f, f[x])
  BY <1>4, <1>6, FS_EmptySet DEF count_cluster_in_chain
<1>8. count_cluster_in_chain(f, x) = count_cluster_in_chain(f, f[x]) + 1
  BY <1>1, CountStep DEF Forest
<1> QED
  BY <1>4, <1>7, <1>8

\* Linking two chains adds their lengths.
LEMMA LinkCount ==
  ASSUME NEW f \in [Clusters -> Links], NEW K, Forest(f, K),
         NEW c \in K, NEW h \in K, c # h,
         NEW g, g = update_fat_entry(f, get_last_cluster_in_chain(f, c), h)
  PROVE  count_cluster_in_chain(g, c)
           = count_cluster_in_chain(f, c) + count_cluster_in_chain(f, h)
<1>1. c \in Links /\ h \in Links
  BY DEF Forest, Links
<1>2. /\ IsFiniteSet(Chain(f, c)) /\ IsFiniteSet(Chain(f, h))
      /\ count_cluster_in_chain(f, c) \in Nat
      /\ count_cluster_in_chain(f, h) \in Nat
  BY <1>1, ChainFinite
<1>3. Chain(g, c) = Chain(f, c) \cup Chain(f, h)
  BY LinkChain
<1>31. Chain(f, c) \cap Chain(f, h) = {}
  BY ForestDisjoint
<1>4. Cardinality(Chain(g, c))
        = Cardinality(Chain(f, c)) + Cardinality(Chain(f, h)) - Cardinality({})
  BY <1>2, <1>3, <1>31, FS_Union
<1> QED
  BY <1>2, <1>4, FS_EmptySet DEF count_cluster_in_chain

\* b is what is left after the first k clusters of the free list r are popped.
PopResult(f, K, r, k, b) ==
  /\ b = [fat |-> b.fat, free |-> b.free]
  /\ b.fat \in [Clusters -> Links]
  /\ b.free \in Links \ K
  /\ Forest(b.fat, K \cup ({b.free} \ {END_OF_CHAIN}))
  /\ count_cluster_in_chain(b.fat, r) = k
  /\ \A d \in K \ {r} : Chain(b.fat, d) = Chain(f, d)

\* pop_free_clusters makes the first k free clusters a chain of their own and
\* the next one the head of the free list.
LEMMA PopFreeClusters ==
  ASSUME NEW f \in [Clusters -> Links], NEW K, Forest(f, K), NEW r \in K,
         NEW k \in Nat \ {0}, k <= count_cluster_in_chain(f, r),
         NEW b, b = pop_free_clusters([fat |-> f, free |-> r], k)
  PROVE  PopResult(f, K, r, k, b)
<1> DEFINE last == nth_cluster(f, r, k - 1)
<1>1. r \in Clusters /\ (\A x \in Clusters : Ends(f, x)) /\ r \in Links
  BY DEF Forest, Links
<1>2. count_cluster_in_chain(f, r) \in Nat
  BY <1>1, ChainFinite
<1>3. k - 1 \in Nat /\ k - 1 < count_cluster_in_chain(f, r)
  BY <1>2
<1>4. /\ last \in Chain(f, r) /\ last \in Clusters
      /\ count_cluster_in_chain(f, last) + (k - 1) = count_cluster_in_chain(f, r)
  BY <1>1, <1>3, NthCluster
<1> HIDE DEF last
<1>5. b = [fat |-> update_fat_entry(f, last, END_OF_CHAIN), free |-> f[last]]
  BY DEF pop_free_clusters, last
<1>6. b.fat = update_fat_entry(f, last, END_OF_CHAIN) /\ b.free = f[last]
  BY <1>5
<1>7. /\ b.fat \in [Clusters -> Links]
      /\ b.free \in Links \ K
      /\ Forest(b.fat, K \cup ({b.free} \ {END_OF_CHAIN}))
  BY <1>4, <1>6, CutForest, ZenonT(40)
<1>8. count_cluster_in_chain(b.fat, r) + count_cluster_in_chain(f, last)
        = count_cluster_in_chain(f, r) + 1
  BY <1>4, <1>6, CutCount
<1>9. last \in Links
  BY <1>4 DEF Links
<1>10. /\ count_cluster_in_chain(b.fat, r) \in Nat
       /\ count_cluster_in_chain(f, last) \in Nat
  BY <1>1, <1>7, <1>9, ChainFinite
<1>11. count_cluster_in_chain(b.fat, r) = k
  BY <1>2, <1>4, <1>8, <1>10
<1>12. ASSUME NEW d \in K \ {r} PROVE Chain(b.fat, d) = Chain(f, d)
  <2>1. last \notin Chain(f, d) /\ d \in Clusters /\ END_OF_CHAIN \in Links
    BY <1>4, ForestDisjoint DEF Forest, Links
  <2> QED
    BY <1>4, <1>6, <2>1, OtherChain
<1> QED
  BY <1>5, <1>6, <1>7, <1>11, <1>12 DEF PopResult

\* b is what is left after k clusters of the free list r are put behind c.
AppendResult(f, K, r, c, k, b) ==
  /\ b = [fat |-> b.fat, free |-> b.free]
  /\ b.fat \in [Clusters -> Links]
  /\ b.free \in Links \ K
  /\ Forest(b.fat, (K \ {r}) \cup ({b.free} \ {END_OF_CHAIN}))
  /\ count_cluster_in_chain(b.fat, c) = count_cluster_in_chain(f, c) + k
  /\ \A d \in K \ {r, c} : Chain(b.fat, d) = Chain(f, d)

\* append_free_clusters makes the chain of c longer by k clusters of the free
\* list and leaves the other chains alone.
LEMMA AppendFreeClusters ==
  ASSUME NEW f \in [Clusters -> Links], NEW K, Forest(f, K), NEW r \in K,
         NEW k \in Nat \ {0}, k <= count_cluster_in_chain(f, r),
         NEW c \in K, c # r,
         NEW b, b = append_free_clusters([fat |-> f, free |-> r], c, k)
  PROVE  AppendResult(f, K, r, c, k, b)
<1> DEFINE p == pop_free_clusters([fat |-> f, free |-> r], k)
           L == K \cup ({p.free} \ {END_OF_CHAIN})
<1>1. /\ p.fat \in [Clusters -> Links]
      /\ p.free \in Links \ K
      /\ Forest(p.fat, L)
      /\ count_cluster_in_chain(p.fat, r) = k
      /\ \A d \in K \ {r} : Chain(p.fat, d) = Chain(f, d)
  <2>1. PopResult(f, K, r, k, p)
    BY PopFreeClusters
  <2> QED
    BY <2>1 DEF PopResult
<1>2. b = [fat |-> update_fat_entry(p.fat, get_last_cluster_in_chain(p.fat, c), r),
           free |-> p.free]
  BY DEF append_free_clusters
<1> HIDE DEF p
<1>3. /\ b.fat = update_fat_entry(p.fat, get_last_cluster_in_chain(p.fat, c), r)
      /\ b.free = p.free
  BY <1>2
<1>4. r \in L /\ c \in L
  OBVIOUS
<1> HIDE DEF L
<1> DEFINE pf == p.fat
           bf == b.fat
<1>41. /\ pf \in [Clusters -> Links] /\ Forest(pf, L)
       /\ bf = update_fat_entry(pf, get_last_cluster_in_chain(pf, c), r)
  BY <1>1, <1>3
<1> HIDE DEF pf, bf
<1>5. bf \in [Clusters -> Links] /\ Forest(bf, L \ {r})
  BY <1>4, <1>41, LinkForest
<1>50. \A d \in L \ {c} : Chain(bf, d) = Chain(pf, d)
  BY <1>4, <1>41, LinkOthers
<1>51. count_cluster_in_chain(bf, c)
         = count_cluster_in_chain(pf, c) + count_cluster_in_chain(pf, r)
  BY <1>4, <1>41, LinkCount
<1> USE DEF pf, bf
<1>6. L \ {r} = (K \ {r}) \cup ({b.free} \ {END_OF_CHAIN})
  BY <1>1, <1>3 DEF L
<1>7. count_cluster_in_chain(b.fat, c) = count_cluster_in_chain(p.fat, c) + k
  BY <1>1, <1>51
<1>8. count_cluster_in_chain(p.fat, c) = count_cluster_in_chain(f, c)
  BY <1>1 DEF count_cluster_in_chain
<1>9. \A d \in K \ {r, c} : Chain(b.fat, d) = Chain(f, d)
  BY <1>1, <1>50 DEF L
<1> QED
  BY <1>1, <1>2, <1>3, <1>5, <1>6, <1>7, <1>8, <1>9 DEF AppendResult

\* free_cluster_chain puts the chain of c in front of the free list, which
\* may be empty.
LEMMA FreeClusterChain ==
  ASSUME NEW f \in [Clusters -> Links], NEW K, Forest(f, K),
         NEW r \in K \cup {END_OF_CHAIN}, NEW c \in K, c # r,
         NEW b, b = free_cluster_chain([fat |-> f, free |-> r], c)
  PROVE  /\ b = [fat |-> b.fat, free |-> c]
         /\ b.fat \in [Clusters -> Links]
         /\ Forest(b.fat, K \ {r})
<1> DEFINE e == get_last_cluster_in_chain(f, c)
<1>1. b = [fat |-> update_fat_entry(f, e, r), free |-> c]
  BY DEF free_cluster_chain
<1>2. e \in Clusters /\ f[e] = END_OF_CHAIN
  BY LastCluster DEF Forest
<1>3. b.fat = update_fat_entry(f, e, r)
  BY <1>1
<1>4. CASE r = END_OF_CHAIN
  <2>1. b.fat = f
    BY <1>2, <1>3, <1>4 DEF update_fat_entry
  <2>2. Forest(b.fat, K \ {r})
    BY <2>1, ForestSubset
  <2> QED
    BY <1>1, <2>1, <2>2
<1>5. CASE r # END_OF_CHAIN
  <2>1. r \in K
    BY <1>5
  <2>2. b.fat \in [Clusters -> Links] /\ Forest(b.fat, K \ {r})
    BY <1>3, <2>1, LinkForest
  <2> QED
    BY <1>1, <2>2
<1> QED
  BY <1>4, <1>5

\* The same, said of the result itself.
LEMMA FreedForest ==
  ASSUME NEW f \in [Clusters -> Links], NEW K, Forest(f, K),
         NEW r \in K \cup {END_OF_CHAIN}, NEW c \in K, c # r
  PROVE  LET freed == free_cluster_chain([fat |-> f, free |-> r], c)
         IN  freed.fat \in [Clusters -> Links] /\ Forest(freed.fat, K \ {r})
<1> DEFINE freed == free_cluster_chain([fat |-> f, free |-> r], c)
<1>1. freed = free_cluster_chain([fat |-> f, free |-> r], c)
  OBVIOUS
<1> HIDE DEF freed
<1>2. freed.fat \in [Clusters -> Links] /\ Forest(freed.fat, K \ {r})
  BY <1>1, FreeClusterChain
<1> QED
  BY <1>2 DEF freed

\* free_cluster_chain leaves the other chains alone.
LEMMA FreeClusterChainOthers ==
  ASSUME NEW f \in [Clusters -> Links], NEW K, Forest(f, K),
         NEW r \in K \cup {END_OF_CHAIN}, NEW c \in K, c # r,
         NEW b, b = free_cluster_chain([fat |-> f, free |-> r], c)
  PROVE  \A d \in K \ {c} : Chain(b.fat, d) = Chain(f, d)
<1> DEFINE e == get_last_cluster_in_chain(f, c)
<1>1. b.fat = update_fat_entry(f, e, r)
  BY DEF free_cluster_chain
<1>2. e \in Clusters /\ f[e] = END_OF_CHAIN
  BY LastCluster DEF Forest
<1>3. CASE r = END_OF_CHAIN
  BY <1>1, <1>2, <1>3 DEF update_fat_entry
<1>4. CASE r # END_OF_CHAIN
  <2>1. r \in K
    BY <1>4
  <2> QED
    BY <1>1, <2>1, LinkOthers
<1> QED
  BY <1>3, <1>4

\* b is what is left after the chain of c is cut behind its cluster n.
CutResult(f, K, r, c, n, b) ==
  /\ b = [fat |-> b.fat, free |-> b.free]
  /\ b.fat \in [Clusters -> Links]
  /\ b.free = r \/ b.free \in Clusters \ K
  /\ Forest(b.fat, (K \ {r}) \cup ({b.free} \ {END_OF_CHAIN}))
  /\ count_cluster_in_chain(b.fat, c) = n + 1
  /\ \A d \in K \ {c, r} : Chain(b.fat, d) = Chain(f, d)

\* cut_chain leaves n + 1 clusters of the chain of c and the other chains as
\* they were; what it cut off is the start of the free list.
LEMMA CutChainBehind ==
  ASSUME NEW f \in [Clusters -> Links], NEW K, Forest(f, K),
         NEW r \in K \cup {END_OF_CHAIN}, NEW c \in K, c # r,
         NEW n \in Nat, n < count_cluster_in_chain(f, c),
         NEW b, b = cut_chain([fat |-> f, free |-> r], c, n)
  PROVE  CutResult(f, K, r, c, n, b)
<1> DEFINE last == nth_cluster(f, c, n)
           after == f[last]
           g == update_fat_entry(f, last, END_OF_CHAIN)
<1>1. c \in Clusters /\ c \in Links /\ (\A x \in Clusters : Ends(f, x))
  BY DEF Forest, Links
<1>2. /\ last \in Chain(f, c) /\ last \in Clusters /\ last \in Links
      /\ count_cluster_in_chain(f, last) + n = count_cluster_in_chain(f, c)
  BY <1>1, NthCluster DEF Links
<1>3. b = IF after = END_OF_CHAIN THEN [fat |-> g, free |-> r]
          ELSE free_cluster_chain([fat |-> g, free |-> r], after)
  BY DEF cut_chain
<1> HIDE DEF last
<1>4. /\ g \in [Clusters -> Links]
      /\ Forest(g, K \cup ({after} \ {END_OF_CHAIN}))
      /\ after \in Links \ K
  BY <1>2, CutForest
<1>5. count_cluster_in_chain(g, c) = n + 1
  <2>1. count_cluster_in_chain(g, c) + count_cluster_in_chain(f, last)
          = count_cluster_in_chain(f, c) + 1
    BY <1>2, CutCount
  <2>2. /\ count_cluster_in_chain(g, c) \in Nat
        /\ count_cluster_in_chain(f, last) \in Nat
        /\ count_cluster_in_chain(f, c) \in Nat
    BY <1>1, <1>2, <1>4, ChainFinite
  <2> QED
    BY <1>2, <2>1, <2>2
<1>6. ASSUME NEW d \in K \ {c} PROVE Chain(g, d) = Chain(f, d)
  <2>1. last \notin Chain(f, d) /\ d \in Clusters /\ END_OF_CHAIN \in Links
    BY <1>2, ForestDisjoint DEF Forest, Links
  <2> QED
    BY <1>2, <2>1, OtherChain
<1> HIDE DEF g, after
<1>7. CASE after = END_OF_CHAIN
  <2>1. b = [fat |-> g, free |-> r] /\ b.fat = g /\ b.free = r
    BY <1>3, <1>7
  <2>2. (K \ {r}) \cup ({r} \ {END_OF_CHAIN}) \subseteq K \cup ({after} \ {END_OF_CHAIN})
    OBVIOUS
  <2>3. Forest(b.fat, (K \ {r}) \cup ({b.free} \ {END_OF_CHAIN}))
    BY <1>4, <2>1, <2>2, ForestSubset
  <2> QED
    BY <1>4, <1>5, <1>6, <2>1, <2>3 DEF CutResult
<1>8. CASE after # END_OF_CHAIN
  <2> DEFINE L == K \cup {after}
  <2>1. Forest(g, L) /\ after \in L /\ after \in Clusters \ K /\ after # r /\ c \in L
    <3>1. K \cup ({after} \ {END_OF_CHAIN}) = L
      BY <1>8
    <3> QED
      BY <1>4, <1>8, <3>1 DEF Links
  <2>2. r \in L \cup {END_OF_CHAIN}
    OBVIOUS
  <2>3. b = free_cluster_chain([fat |-> g, free |-> r], after)
    BY <1>3, <1>8
  <2> HIDE DEF L
  <2>40. g \in [Clusters -> Links]
    BY <1>4
  <2>4. /\ b = [fat |-> b.fat, free |-> after]
        /\ b.fat \in [Clusters -> Links]
        /\ Forest(b.fat, L \ {r})
    BY <2>40, <2>1, <2>2, <2>3, FreeClusterChain
  <2>41. \A d \in L \ {after} : Chain(b.fat, d) = Chain(g, d)
    BY <1>4, <2>1, <2>2, <2>3, FreeClusterChainOthers
  <2>5. b.free = after
    BY <2>4
  <2>6. L \ {r} = (K \ {r}) \cup ({after} \ {END_OF_CHAIN})
    BY <1>8, <2>1 DEF L
  <2>7. \A d \in K : Chain(b.fat, d) = Chain(g, d)
    BY <2>1, <2>41 DEF L
  <2>8. count_cluster_in_chain(b.fat, c) = n + 1
    BY <1>5, <2>7 DEF count_cluster_in_chain
  <2>9. \A d \in K \ {c, r} : Chain(b.fat, d) = Chain(f, d)
    BY <1>6, <2>7
  <2> QED
    BY <2>1, <2>4, <2>5, <2>6, <2>8, <2>9 DEF CutResult
<1> QED
  BY <1>7, <1>8

-----------------------------------------------------------------------------
(* Where the clusters go *)

\* The chain cut off behind x is what followed x.
LEMMA CutRest ==
  ASSUME NEW f \in [Clusters -> Links], NEW K, Forest(f, K),
         NEW c \in K, NEW x \in Chain(f, c),
         NEW g, g = update_fat_entry(f, x, END_OF_CHAIN)
  PROVE  Chain(f, c) = Chain(g, c) \cup Chain(g, f[x])
<1>1. c \in Clusters
  BY DEF Forest
<1>2. x \in Clusters /\ f[x] \in Links /\ END_OF_CHAIN \in Links /\ Ends(f, x)
  BY <1>1, ChainNext DEF Forest, Links
<1>3. Chain(f, c) = Chain(g, c) \cup Chain(f, f[x])
  BY CutChain
<1>4. CASE f[x] = END_OF_CHAIN
  BY <1>3, <1>4, ChainOfZero
<1>5. CASE f[x] # END_OF_CHAIN
  <2>1. f[x] \in Clusters /\ x \notin Chain(f, f[x])
    BY <1>2, <1>5, NoReturn DEF Links
  <2>2. Chain(g, f[x]) = Chain(f, f[x])
    BY <1>2, <2>1, OtherChain
  <2> QED
    BY <1>3, <2>2
<1> QED
  BY <1>4, <1>5

\* The clusters of the free list are popped or stay in it.
LEMMA PopChains ==
  ASSUME NEW f \in [Clusters -> Links], NEW K, Forest(f, K), NEW r \in K,
         NEW k \in Nat \ {0}, k <= count_cluster_in_chain(f, r),
         NEW b, b = pop_free_clusters([fat |-> f, free |-> r], k)
  PROVE  Chain(f, r) = Chain(b.fat, r) \cup Chain(b.fat, b.free)
<1> DEFINE last == nth_cluster(f, r, k - 1)
<1>1. r \in Clusters /\ (\A x \in Clusters : Ends(f, x)) /\ r \in Links
  BY DEF Forest, Links
<1>2. count_cluster_in_chain(f, r) \in Nat
  BY <1>1, ChainFinite
<1>3. k - 1 \in Nat /\ k - 1 < count_cluster_in_chain(f, r)
  BY <1>2
<1>4. last \in Chain(f, r)
  BY <1>1, <1>3, NthCluster
<1>5. b = [fat |-> update_fat_entry(f, last, END_OF_CHAIN), free |-> f[last]]
  BY DEF pop_free_clusters
<1> HIDE DEF last
<1>6. b.fat = update_fat_entry(f, last, END_OF_CHAIN) /\ b.free = f[last]
  BY <1>5
<1> QED
  BY <1>4, <1>6, CutRest

\* The chain of c has grown by the popped clusters; no cluster is lost.
LEMMA AppendChains ==
  ASSUME NEW f \in [Clusters -> Links], NEW K, Forest(f, K), NEW r \in K,
         NEW k \in Nat \ {0}, k <= count_cluster_in_chain(f, r),
         NEW c \in K, c # r,
         NEW b, b = append_free_clusters([fat |-> f, free |-> r], c, k)
  PROVE  /\ Chain(f, c) \subseteq Chain(b.fat, c) /\ r \in Chain(b.fat, c)
         /\ Chain(f, c) \cup Chain(f, r) = Chain(b.fat, c) \cup Chain(b.fat, b.free)
<1> DEFINE p == pop_free_clusters([fat |-> f, free |-> r], k)
           L == K \cup ({p.free} \ {END_OF_CHAIN})
           pf == p.fat
           bf == b.fat
<1>1. /\ pf \in [Clusters -> Links]
      /\ p.free \in Links \ K
      /\ Forest(pf, L)
      /\ \A d \in K \ {r} : Chain(pf, d) = Chain(f, d)
  <2>1. PopResult(f, K, r, k, p)
    BY PopFreeClusters
  <2> QED
    BY <2>1 DEF PopResult
<1>2. Chain(f, r) = Chain(pf, r) \cup Chain(pf, p.free)
  BY PopChains
<1>3. b = [fat |-> update_fat_entry(p.fat, get_last_cluster_in_chain(p.fat, c), r),
           free |-> p.free]
  BY DEF append_free_clusters
<1> HIDE DEF p
<1>4. bf = update_fat_entry(pf, get_last_cluster_in_chain(pf, c), r) /\ b.free = p.free
  BY <1>3
<1>5. r \in L /\ c \in L /\ r \in Clusters
  BY DEF Forest
<1>6. p.free # END_OF_CHAIN => p.free \in L \ {c}
  BY <1>1
<1> HIDE DEF L, pf, bf
<1>7. \A d \in L \ {c} : Chain(bf, d) = Chain(pf, d)
  BY <1>1, <1>4, <1>5, LinkOthers
<1>8. Chain(bf, c) = Chain(pf, c) \cup Chain(pf, r)
  BY <1>1, <1>4, <1>5, LinkChain
<1>9. Chain(bf, p.free) = Chain(pf, p.free)
  BY <1>6, <1>7, ChainOfZero
<1>10. Chain(pf, c) = Chain(f, c) /\ r \in Chain(pf, r)
  BY <1>1, <1>5, ChainBasics
<1> QED
  BY <1>2, <1>4, <1>8, <1>9, <1>10 DEF bf

\* What is given back is in the free list.
LEMMA FreeChains ==
  ASSUME NEW f \in [Clusters -> Links], NEW K, Forest(f, K),
         NEW r \in K \cup {END_OF_CHAIN}, NEW c \in K, c # r,
         NEW b, b = free_cluster_chain([fat |-> f, free |-> r], c)
  PROVE  Chain(b.fat, c) = Chain(f, c) \cup Chain(f, r)
<1> DEFINE e == get_last_cluster_in_chain(f, c)
<1>1. b.fat = update_fat_entry(f, e, r)
  BY DEF free_cluster_chain
<1>2. e \in Clusters /\ f[e] = END_OF_CHAIN
  BY LastCluster DEF Forest
<1>3. CASE r = END_OF_CHAIN
  <2>1. b.fat = f
    BY <1>1, <1>2, <1>3 DEF update_fat_entry
  <2> QED
    BY <1>3, <2>1, ChainOfZero
<1>4. CASE r # END_OF_CHAIN
  <2>1. r \in K
    BY <1>4
  <2> QED
    BY <1>1, <2>1, LinkChain
<1> QED
  BY <1>3, <1>4

\* The clusters of a chain that is cut stay in it or become free.
LEMMA CutChains ==
  ASSUME NEW f \in [Clusters -> Links], NEW K, Forest(f, K),
         NEW r \in K \cup {END_OF_CHAIN}, NEW c \in K, c # r,
         NEW n \in Nat, n < count_cluster_in_chain(f, c),
         NEW b, b = cut_chain([fat |-> f, free |-> r], c, n)
  PROVE  Chain(f, c) \cup Chain(f, r) = Chain(b.fat, c) \cup Chain(b.fat, b.free)
<1> DEFINE last == nth_cluster(f, c, n)
           after == f[last]
           g == update_fat_entry(f, last, END_OF_CHAIN)
<1>1. c \in Clusters /\ (\A x \in Clusters : Ends(f, x))
  BY DEF Forest
<1>2. last \in Chain(f, c) /\ last \in Clusters
  BY <1>1, NthCluster
<1>3. b = IF after = END_OF_CHAIN THEN [fat |-> g, free |-> r]
          ELSE free_cluster_chain([fat |-> g, free |-> r], after)
  BY DEF cut_chain
<1> HIDE DEF last
<1>4. /\ g \in [Clusters -> Links]
      /\ Forest(g, K \cup ({after} \ {END_OF_CHAIN}))
      /\ after \in Links \ K
  BY <1>2, CutForest
<1>5. Chain(f, c) = Chain(g, c) \cup Chain(g, after)
  BY <1>2, CutRest
<1>6. Chain(g, r) = Chain(f, r)
  <2>1. CASE r = END_OF_CHAIN
    BY <2>1, ChainOfZero
  <2>2. CASE r # END_OF_CHAIN
    <3>1. r \in K /\ last \notin Chain(f, r) /\ r \in Clusters /\ END_OF_CHAIN \in Links
      BY <1>2, <2>2, ForestDisjoint DEF Forest, Links
    <3> QED
      BY <1>2, <3>1, OtherChain
  <2> QED
    BY <2>1, <2>2
<1> HIDE DEF g, after
<1>7. CASE after = END_OF_CHAIN
  <2>1. b.fat = g /\ b.free = r
    BY <1>3, <1>7
  <2> QED
    BY <1>5, <1>6, <1>7, <2>1, ChainOfZero
<1>8. CASE after # END_OF_CHAIN
  <2> DEFINE L == K \cup {after}
  <2>1. Forest(g, L) /\ after \in L /\ after # r /\ c \in L \ {after}
    <3>1. K \cup ({after} \ {END_OF_CHAIN}) = L
      BY <1>8
    <3> QED
      BY <1>4, <1>8, <3>1
  <2>2. r \in L \cup {END_OF_CHAIN}
    OBVIOUS
  <2>3. b = free_cluster_chain([fat |-> g, free |-> r], after)
    BY <1>3, <1>8
  <2> HIDE DEF L
  <2>4. Chain(b.fat, after) = Chain(g, after) \cup Chain(g, r)
    BY <1>4, <2>1, <2>2, <2>3, FreeChains
  <2>5. Chain(b.fat, c) = Chain(g, c)
    BY <1>4, <2>1, <2>2, <2>3, FreeClusterChainOthers
  <2>6. b.free = after
    BY <2>3 DEF free_cluster_chain
  <2> QED
    BY <1>5, <1>6, <2>4, <2>5, <2>6
<1> QED
  BY <1>7, <1>8

-----------------------------------------------------------------------------
(* The order of the clusters in a chain *)

\* Of two clusters of a chain one comes behind the other.
LEMMA ChainTotal ==
  ASSUME NEW f \in [Clusters -> Links], NEW c \in Clusters,
         NEW x \in Chain(f, c), NEW y \in Chain(f, c)
  PROVE  x \in Chain(f, y) \/ y \in Chain(f, x)
<1> DEFINE S == {z \in Chain(f, c) : z \in Chain(f, y) \/ y \in Chain(f, z)}
<1>1. c \in S /\ S \in SUBSET Clusters
  BY ChainBasics
<1>2. Closed(f, S)
  <2> SUFFICES ASSUME NEW z \in S, f[z] # END_OF_CHAIN PROVE f[z] \in S
    BY DEF Closed
  <2>1. z \in Clusters /\ y \in Clusters /\ f[z] \in Chain(f, c)
    BY ChainNext
  <2>2. CASE z \in Chain(f, y)
    BY <2>1, <2>2, ChainNext
  <2>3. CASE y \in Chain(f, z)
    <3>1. y = z \/ y \in Chain(f, f[z])
      BY <2>1, <2>3, ChainStep
    <3>2. z \in Chain(f, z)
      BY <2>1, ChainBasics
    <3> QED
      BY <2>1, <3>1, <3>2, ChainNext
  <2> QED
    BY <2>2, <2>3
<1> QED
  BY <1>1, <1>2, ChainLeast

\* From a cluster behind y there are fewer clusters to the end than from y.
LEMMA CountLess ==
  ASSUME NEW f \in [Clusters -> Links], NEW y \in Clusters, Ends(f, y), NEW x \in Chain(f, y)
  PROVE  x = y \/ count_cluster_in_chain(f, x) < count_cluster_in_chain(f, y)
<1> SUFFICES ASSUME x # y PROVE count_cluster_in_chain(f, x) < count_cluster_in_chain(f, y)
  OBVIOUS
<1>1. x \in Chain(f, f[y]) /\ f[y] \in Links /\ x \in Clusters
  BY ChainStep, ChainNext
<1>2. f[y] \in Clusters
  BY <1>1, ChainOfZero DEF Links
<1>3. Chain(f, x) \subseteq Chain(f, f[y])
  BY <1>1, <1>2, ChainSub
<1>4. x \in Links
  BY <1>1 DEF Links
<1>5. /\ IsFiniteSet(Chain(f, f[y]))
      /\ count_cluster_in_chain(f, f[y]) \in Nat /\ count_cluster_in_chain(f, x) \in Nat
  BY <1>1, <1>4, ChainFinite
<1>6. count_cluster_in_chain(f, x) <= count_cluster_in_chain(f, f[y])
  BY <1>3, <1>5, FS_Subset DEF count_cluster_in_chain
<1>7. count_cluster_in_chain(f, y) = count_cluster_in_chain(f, f[y]) + 1
  BY CountStep
<1> QED
  BY <1>5, <1>6, <1>7

\* The first k clusters of the chain that starts at r.
FirstClusters(f, r, k) == {nth_cluster(f, r, i - 1) : i \in 1 .. k}

\* The clusters that pop_free_clusters takes off the list are the first k, in the
\* order in which they are zeroed.
LEMMA PoppedClusters ==
  ASSUME NEW f \in [Clusters -> Links], NEW K, Forest(f, K), NEW r \in K,
         NEW k \in Nat \ {0}, k <= count_cluster_in_chain(f, r),
         NEW b, b = pop_free_clusters([fat |-> f, free |-> r], k)
  PROVE  Chain(b.fat, r) = FirstClusters(f, r, k)
<1> DEFINE last == nth_cluster(f, r, k - 1)
           n == count_cluster_in_chain(f, r)
           Count(x) == count_cluster_in_chain(f, x)
           Nth(i) == nth_cluster(f, r, i)
<1>1. r \in Clusters /\ (\A x \in Clusters : Ends(f, x)) /\ r \in Links
  BY DEF Forest, Links
<1>2. n \in Nat
  BY <1>1, ChainFinite
<1>3. ASSUME NEW i \in 0 .. k - 1
      PROVE  Nth(i) \in Chain(f, r) /\ Nth(i) \in Clusters /\ Count(Nth(i)) + i = n
  <2>1. i \in Nat /\ i < n
    BY <1>2, <1>3
  <2> QED
    BY <1>1, <2>1, NthCluster
<1>4. last \in Chain(f, r) /\ last \in Clusters /\ Count(last) + (k - 1) = n
  BY <1>3
<1>5. b.fat = update_fat_entry(f, last, END_OF_CHAIN)
  BY DEF pop_free_clusters
<1> HIDE DEF last
<1>6. Chain(f, r) = Chain(b.fat, r) \cup Chain(f, f[last]) /\ Chain(b.fat, r) \cap Chain(f, f[last]) = {}
  BY <1>4, <1>5, CutChain
<1>7. \A x \in Chain(f, r) : x \in Clusters /\ Count(x) \in Nat
  BY <1>1, ChainNext, ChainFinite DEF Links
<1>8. Chain(f, last) = {last} \cup Chain(f, f[last]) /\ last \notin Chain(f, f[last])
  BY <1>1, <1>4, ChainStep, NoReturn
<1>9. ASSUME NEW i \in 1 .. k PROVE Nth(i - 1) \in Chain(b.fat, r)
  <2>1. i - 1 \in 0 .. k - 1
    BY <1>9
  <2>2. Nth(i - 1) \in Chain(f, r) /\ Count(Nth(i - 1)) + (i - 1) = n
    BY <1>3, <2>1
  <2> DEFINE x == Nth(i - 1)
  <2> HIDE DEF x
  <2>3. x \in Chain(f, r) /\ Count(x) + (i - 1) = n
    BY <2>2 DEF x
  <2>4. ASSUME x \in Chain(f, f[last]) PROVE FALSE
    <3>1. x \in Chain(f, last) /\ x # last
      BY <1>8, <2>4
    <3>2. Count(x) < Count(last)
      BY <1>1, <1>4, <3>1, CountLess
    <3>3. Count(x) \in Nat /\ Count(last) \in Nat
      BY <1>4, <1>7, <2>3
    <3> HIDE DEF n, Count
    <3> QED
      BY <1>2, <1>4, <1>9, <2>3, <3>2, <3>3
  <2> QED
    BY <1>6, <2>3, <2>4 DEF x
<1>10. ASSUME NEW x \in Chain(b.fat, r) PROVE \E i \in 1 .. k : x = Nth(i - 1)
  <2>1. x \in Chain(f, r) /\ x \notin Chain(f, f[last]) /\ x \in Clusters /\ Count(x) \in Nat
    BY <1>6, <1>7, <1>10
  <2>2. Count(x) >= Count(last)
    <3>1. CASE x \in Chain(f, last)
      <4>1. x = last
        BY <1>8, <2>1, <3>1
      <4> QED
        BY <2>1, <4>1
    <3>2. CASE last \in Chain(f, x)
      <4>1. last = x \/ Count(last) < Count(x)
        BY <1>1, <2>1, <3>2, CountLess
      <4>2. Count(last) \in Nat
        BY <1>4, <1>7
      <4> HIDE DEF Count
      <4> QED
        BY <2>1, <4>1, <4>2
    <3> QED
      BY <1>1, <1>4, <2>1, <3>1, <3>2, ChainTotal
  <2>3. Count(x) <= n
    <3>1. x = r \/ Count(x) < n
      BY <1>1, <2>1, CountLess
    <3> QED
      BY <1>2, <2>1, <3>1
  <2> DEFINE j == n - Count(x)
             y == Nth(j)
  <2>4. j \in 0 .. k - 1
    <3>1. Count(last) \in Nat
      BY <1>4, <1>7
    <3> HIDE DEF n, Count
    <3> QED
      BY <1>2, <1>4, <2>1, <2>2, <2>3, <3>1
  <2>5. y \in Chain(f, r) /\ y \in Clusters /\ Count(y) + j = n
    BY <1>3, <2>4
  <2> HIDE DEF y
  <2>6. Count(y) = Count(x) /\ Count(y) \in Nat
    <3>1. Count(y) \in Nat
      BY <1>7, <2>5
    <3>2. n \in Nat /\ Count(x) \in Nat /\ j = n - Count(x) /\ Count(y) + j = n
      BY <1>2, <2>1, <2>5
    <3> HIDE DEF n, Count, j
    <3> QED
      BY <3>1, <3>2
  <2>7. x = y
    <3>1. x \in Chain(f, y) \/ y \in Chain(f, x)
      BY <1>1, <2>1, <2>5, ChainTotal
    <3>2. (x \in Chain(f, y) => x = y \/ Count(x) < Count(y)) /\ (y \in Chain(f, x) => x = y \/ Count(y) < Count(x))
      BY <1>1, <2>1, <2>5, CountLess
    <3> HIDE DEF Count
    <3> QED
      BY <2>6, <3>1, <3>2
  <2>8. j + 1 \in 1 .. k /\ (j + 1) - 1 = j
    BY <2>4
  <2>9. Nth((j + 1) - 1) = x
    BY <2>7, <2>8 DEF y
  <2> QED
    BY <2>8, <2>9
<1> QED
  BY <1>9, <1>10 DEF FirstClusters

\* Clusters that are each in the chain of the other are the same.
LEMMA MutualChains ==
  ASSUME NEW f \in [Clusters -> Links], \A x \in Clusters : Ends(f, x),
         NEW x \in Clusters, NEW y \in Clusters, x \in Chain(f, y), y \in Chain(f, x)
  PROVE  x = y
<1>1. x = y \/ count_cluster_in_chain(f, x) < count_cluster_in_chain(f, y)
  BY CountLess
<1>2. x = y \/ count_cluster_in_chain(f, y) < count_cluster_in_chain(f, x)
  BY CountLess
<1>3. count_cluster_in_chain(f, x) \in Nat /\ count_cluster_in_chain(f, y) \in Nat
  BY ChainFinite DEF Links
<1> QED
  BY <1>1, <1>2, <1>3

-----------------------------------------------------------------------------
SlotMap == [Clusters -> [Slots -> DirEntry]]

Places == Clusters \X Slots

\* The root directory's cluster and the first free one are two clusters of the table.
LEMMA RootCluster ==
  /\ ROOT_CLUSTER_START \in Clusters
  /\ FREE_CLUSTER_START \in Clusters
  /\ FREE_CLUSTER_START # ROOT_CLUSTER_START
  BY ClusterAssumption DEF Clusters, FREE_CLUSTER_START

\* Every cluster has a first slot.
LEMMA SlotZero == 0 \in Slots
  BY LayoutAssumption DEF Slots

\* add_dir_entry_to_cluster builds a directory entry.
LEMMA NewEntryType ==
  ASSUME NEW name \in Names \cup {"", ".", ".."},
         NEW type \in {DIR_ENTRY_TYPE_FILE, DIR_ENTRY_TYPE_SUBDIR},
         NEW first \in Links
  PROVE  NewEntry(name, type, first) \in DirEntry
  BY DEF NewEntry, DirEntry

\* A slot that is free has the type of an entry.
LEMMA FreeSlotType == FreeSlot \in DirEntry /\ FreeSlot.name = ""
  BY DEF FreeSlot, DirEntry, DIR_ENTRY_TYPE_FILE, Links, END_OF_CHAIN

\* What PutEntry stores where.
LEMMA PutEntryAt ==
  ASSUME NEW sl \in SlotMap, NEW p \in Places, NEW e \in DirEntry
  PROVE  /\ PutEntry(sl, p, e) \in SlotMap
         /\ PutEntry(sl, p, e)[p[1]][p[2]] = e
         /\ \A q \in Places : q # p => PutEntry(sl, p, e)[q[1]][q[2]] = sl[q[1]][q[2]]
<1>1. p[1] \in Clusters /\ p[2] \in Slots
  BY DEF Places
<1>2. PutEntry(sl, p, e) = [sl EXCEPT ![p[1]] = [sl[p[1]] EXCEPT ![p[2]] = e]]
  BY DEF PutEntry
<1>3. [sl[p[1]] EXCEPT ![p[2]] = e] \in [Slots -> DirEntry]
  BY <1>1 DEF SlotMap
<1>4. PutEntry(sl, p, e) \in SlotMap
  BY <1>1, <1>2, <1>3 DEF SlotMap
<1>5. PutEntry(sl, p, e)[p[1]][p[2]] = e
  BY <1>1, <1>2 DEF SlotMap
<1>6. ASSUME NEW q \in Places, q # p
      PROVE  PutEntry(sl, p, e)[q[1]][q[2]] = sl[q[1]][q[2]]
  <2>1. q[1] \in Clusters /\ q[2] \in Slots /\ (q[1] # p[1] \/ q[2] # p[2])
    BY <1>6 DEF Places
  <2> QED
    BY <1>1, <1>2, <2>1 DEF SlotMap
<1> QED
  BY <1>4, <1>5, <1>6

\* No entry appears and none is changed on the way from sl to tl, except that
\* slots may be cleared or hold "." and "..".
Fewer(sl, tl) ==
  \A q \in Places : tl[q[1]][q[2]].name \in Names => tl[q[1]][q[2]] = sl[q[1]][q[2]]

\* Two changes that add no entry add none together.
LEMMA FewerTransitive ==
  ASSUME NEW sl, NEW tl, NEW ul, Fewer(sl, tl), Fewer(tl, ul)
  PROVE  Fewer(sl, ul)
  BY DEF Fewer

\* Zeroing the popped clusters adds no entry.
LEMMA ZeroedFewer ==
  ASSUME NEW sl \in SlotMap, NEW S
  PROVE  Zeroed(sl, S) \in SlotMap /\ Fewer(sl, Zeroed(sl, S))
<1>1. ZeroCluster \in [Slots -> DirEntry] /\ \A s \in Slots : ZeroCluster[s].name \notin Names
  BY FreeSlotType, RequestAssumption DEF ZeroCluster
<1>2. Zeroed(sl, S) \in SlotMap
  BY <1>1 DEF Zeroed, SlotMap
<1>3. ASSUME NEW q \in Places, Zeroed(sl, S)[q[1]][q[2]].name \in Names
      PROVE  Zeroed(sl, S)[q[1]][q[2]] = sl[q[1]][q[2]]
  <2>1. q[1] \in Clusters /\ q[2] \in Slots
    BY DEF Places
  <2> QED
    BY <1>1, <1>3, <2>1 DEF Zeroed
<1> QED
  BY <1>2, <1>3 DEF Fewer

\* A slot that gets "." or ".." holds no entry.
LEMMA PutInClusterFewer ==
  ASSUME NEW sl \in SlotMap, NEW c \in Clusters, NEW e \in DirEntry, e.name \notin Names
  PROVE  /\ PutInCluster(sl, c, e) \in SlotMap
         /\ Fewer(sl, PutInCluster(sl, c, e))
<1> DEFINE s == CHOOSE s \in Slots :
                   /\ sl[c][s].name = ""
                   /\ \A t \in Slots : sl[c][t].name = "" => s <= t
<1>1. PutInCluster(sl, c, e) = PutEntry(sl, <<c, s>>, e)
  BY DEF PutInCluster
<1> HIDE DEF s
<1>2. CASE s \in Slots
  <2>1. <<c, s>> \in Places
    BY <1>2 DEF Places
  <2>2. /\ PutEntry(sl, <<c, s>>, e) \in SlotMap
        /\ PutEntry(sl, <<c, s>>, e)[c][s] = e
        /\ \A q \in Places : q # <<c, s>> =>
              PutEntry(sl, <<c, s>>, e)[q[1]][q[2]] = sl[q[1]][q[2]]
    BY <2>1, PutEntryAt
  <2> QED
    BY <1>1, <2>1, <2>2 DEF Fewer
<1>3. CASE s \notin Slots
  <2>1. [sl[c] EXCEPT ![s] = e] = sl[c]
    BY <1>3 DEF SlotMap
  <2>2. PutEntry(sl, <<c, s>>, e) = [sl EXCEPT ![c] = [sl[c] EXCEPT ![s] = e]]
    BY DEF PutEntry
  <2>3. PutEntry(sl, <<c, s>>, e) = sl
    BY <2>1, <2>2 DEF SlotMap
  <2> QED
    BY <1>1, <2>3 DEF Fewer
<1> QED
  BY <1>2, <1>3

\* Adding "." and ".." adds no entry that a name refers to.
LEMMA AddDotsFewer ==
  ASSUME NEW sl \in SlotMap, NEW type, NEW c \in Clusters, NEW parent \in Clusters
  PROVE  /\ AddDots(sl, type, c, parent) \in SlotMap
         /\ Fewer(sl, AddDots(sl, type, c, parent))
<1>1. CASE type # DIR_ENTRY_TYPE_SUBDIR
  BY <1>1 DEF AddDots, Fewer
<1>2. CASE type = DIR_ENTRY_TYPE_SUBDIR
  <2> DEFINE dot    == NewEntry(".", DIR_ENTRY_TYPE_SUBDIR, c)
             dotdot == NewEntry("..", DIR_ENTRY_TYPE_SUBDIR, parent)
             ml     == PutInCluster(sl, c, dot)
             nl     == PutInCluster(ml, c, dotdot)
  <2>0. "." \notin Names /\ ".." \notin Names /\ c \in Links /\ parent \in Links
    BY RequestAssumption DEF Links
  <2>1. dot \in DirEntry /\ dotdot \in DirEntry
    BY <2>0, NewEntryType
  <2>11. dot.name = "." /\ dotdot.name = ".."
    BY DEF NewEntry
  <2>2. AddDots(sl, type, c, parent) = nl
    BY <1>2 DEF AddDots
  <2> HIDE DEF dot, dotdot
  <2>3. ml \in SlotMap /\ Fewer(sl, ml)
    BY <2>0, <2>1, <2>11, PutInClusterFewer
  <2> HIDE DEF ml
  <2>4. nl \in SlotMap /\ Fewer(ml, nl)
    BY <2>0, <2>1, <2>11, <2>3, PutInClusterFewer
  <2> QED
    BY <2>2, <2>3, <2>4, FewerTransitive
<1> QED
  BY <1>1, <1>2

-----------------------------------------------------------------------------
(* The initial state *)

\* Behind every cluster of a fresh table the numbers grow, so that no chain
\* comes back to its head; without an end, the links would map the chain
\* one-to-one into the chain without its head.
LEMMA InitEnds ==
  ASSUME NEW c \in Clusters
  PROVE  Ends(init_fat, c)
<1> DEFINE f == init_fat
           C == Chain(f, c)
<1>1. f \in [Clusters -> Links]
  BY ClusterAssumption DEF init_fat, Links, Clusters, END_OF_CHAIN
<1>2. c \in C /\ C \subseteq Clusters /\ Closed(f, C)
  BY <1>1, ChainBasics
<1>3. \A x \in Clusters : f[x] # END_OF_CHAIN => f[x] = x + 1
  BY DEF init_fat
<1> HIDE DEF f
<1>4. C \subseteq {x \in Clusters : x >= c}
  <2> DEFINE S == {x \in Clusters : x >= c}
  <2>1. c \in S /\ S \in SUBSET Clusters
    BY ClusterAssumption DEF Clusters
  <2>2. Closed(f, S)
    <3> SUFFICES ASSUME NEW x \in S, f[x] # END_OF_CHAIN PROVE f[x] \in S
      BY DEF Closed
    <3>1. f[x] = x + 1 /\ f[x] \in Clusters
      BY <1>1, <1>3 DEF Links
    <3> QED
      BY <3>1, ClusterAssumption DEF Clusters
  <2> QED
    BY <2>1, <2>2, ChainLeast
<1>5. SUFFICES ASSUME \A e \in C : f[e] # END_OF_CHAIN PROVE FALSE
  BY DEF Ends, f
<1> HIDE DEF C
<1> DEFINE g == [x \in C |-> f[x]]
           D == C \ {c}
<1>6. ASSUME NEW x \in C PROVE f[x] \in D
  <2>1. f[x] = x + 1 /\ f[x] \in C /\ x >= c
    BY <1>2, <1>3, <1>4, <1>5 DEF Closed
  <2>2. x \in Int /\ c \in Int
    BY <1>2, ClusterAssumption DEF Clusters
  <2> QED
    BY <2>1, <2>2
<1>7. g \in [C -> D]
  BY <1>6
<1>8. IsFiniteSet(C)
  BY <1>2, ClustersFinite, FS_Subset
<1>9. IsFiniteSet(D) /\ Cardinality(D) = Cardinality(C) - 1 /\ Cardinality(C) \in Nat
  BY <1>2, <1>8, FS_RemoveElement, FS_CardinalityType
<1> HIDE DEF D, g
<1>10. PICK x, y \in C : x # y /\ g[x] = g[y]
  BY <1>7, <1>8, <1>9, FS_PigeonHole
<1>11. x + 1 = y + 1 /\ x \in Int /\ y \in Int
  BY <1>2, <1>3, <1>5, <1>10, ClusterAssumption DEF g, Clusters
<1> QED
  BY <1>10, <1>11

\* A formatted disk satisfies the invariant.
LEMMA InitInv == Init => FatInv
<1> SUFFICES ASSUME Init PROVE FatInv
  OBVIOUS
<1>1. fat \in [Clusters -> Links]
  BY ClusterAssumption DEF Init, init_fat, Links, Clusters, END_OF_CHAIN
<1>2. free = FREE_CLUSTER_START /\ free \in Links \ {ROOT_CLUSTER_START}
  BY RootCluster DEF Init, Links
<1> DEFINE sl == [c \in Clusters |-> ZeroCluster]
<1>3. /\ sl \in SlotMap
      /\ \A q \in Places : sl[q[1]][q[2]].name = ""
  BY FreeSlotType DEF SlotMap, ZeroCluster, Places
<1>4. slots \in SlotMap /\ Fewer(sl, slots)
  <2>1. slots = AddDots(sl, DIR_ENTRY_TYPE_SUBDIR, ROOT_CLUSTER_START, ROOT_CLUSTER_START)
    BY DEF Init
  <2> HIDE DEF sl
  <2> QED
    BY <1>3, <2>1, RootCluster, AddDotsFewer
<1>5. Entries = {}
  <2>1. ASSUME NEW p \in Entries PROVE FALSE
    <3>1. p \in Places /\ slots[p[1]][p[2]].name \in Names
      BY DEF Entries, EntryAt, Places
    <3>2. slots[p[1]][p[2]] = sl[p[1]][p[2]]
      BY <3>1, <1>4 DEF Fewer
    <3>3. "" \in Names
      BY <3>1, <3>2, <1>3
    <3> QED
      BY <3>3, RequestAssumption
  <2> QED
    BY <2>1
<1>6. TypeOK
  BY <1>1, <1>2, <1>4 DEF TypeOK, Init, SlotMap
<1>7. Heads = {ROOT_CLUSTER_START, free}
  <2>1. free # END_OF_CHAIN /\ ROOT_CLUSTER_START # END_OF_CHAIN
    BY <1>2, RootCluster, ZeroNoCluster
  <2> QED
    BY <2>1, <1>5 DEF Heads
<1>8. Chain(fat, ROOT_CLUSTER_START) \subseteq {ROOT_CLUSTER_START}
  <2>1. fat[ROOT_CLUSTER_START] = END_OF_CHAIN
    BY RootCluster DEF Init, init_fat
  <2>2. Closed(fat, {ROOT_CLUSTER_START})
    BY <2>1 DEF Closed
  <2> QED
    BY <2>2, RootCluster, ChainLeast
<1>9. ROOT_CLUSTER_START \notin Chain(fat, free)
  <2> DEFINE S == Clusters \ {ROOT_CLUSTER_START}
  <2>1. Closed(fat, S)
    BY ClusterAssumption DEF Closed, Init, init_fat, Clusters, END_OF_CHAIN
  <2>2. free \in S
    BY <1>2, RootCluster DEF Init
  <2> QED
    BY <2>1, <2>2, ChainLeast
<1>10. \A c \in Clusters : Ends(fat, c)
  BY InitEnds DEF Init
<1>11. Forest(fat, Heads)
  BY <1>2, <1>7, <1>8, <1>9, <1>10, RootCluster DEF Forest
<1> QED
  BY <1>5, <1>6, <1>11 DEF FatInv, SizeCovered

-----------------------------------------------------------------------------
(* Steps *)

\* Every entry but the one in slot q is left alone or disappears.
KeptBut(q) ==
  \A p \in Places : p # q /\ slots'[p[1]][p[2]].name \in Names
                    => slots'[p[1]][p[2]] = slots[p[1]][p[2]]

\* The invariant after a step, from what the step did to the table: the chains
\* of the entries that are left are heads still and as long as before, and
\* the entry in slot q, if there is one, has a head of its own and a chain
\* long enough for its size.
LEMMA Rebuild ==
  ASSUME FatInv, TypeOK', NEW q, KeptBut(q),
         NEW K, Forest(fat', K),
         ROOT_CLUSTER_START \in K, free' \in K \cup {END_OF_CHAIN},
         \A p \in Entries : p # q =>
            /\ EntryAt(p).first \in K
            /\ EntryAt(p).first # free'
            /\ count_cluster_in_chain(fat, EntryAt(p).first)
                 <= count_cluster_in_chain(fat', EntryAt(p).first),
         q \in Places /\ slots'[q[1]][q[2]].name \in Names /\ slots'[q[1]][q[2]].first # 0 =>
            /\ slots'[q[1]][q[2]].first \in K \ {ROOT_CLUSTER_START, free'}
            /\ \A p \in Entries : p # q => EntryAt(p).first # slots'[q[1]][q[2]].first
            /\ slots'[q[1]][q[2]].type = DIR_ENTRY_TYPE_FILE =>
                  slots'[q[1]][q[2]].size <=
                     BYTE_PER_CLUSTER * count_cluster_in_chain(fat', slots'[q[1]][q[2]].first)
  PROVE  FatInv'
<1>1. ASSUME NEW p \in Entries', p # q
      PROVE  p \in Entries /\ slots'[p[1]][p[2]] = slots[p[1]][p[2]]
  BY <1>1 DEF KeptBut, Entries, EntryAt, Places
<1>2. \A p \in Entries' : p \in Places /\ slots'[p[1]][p[2]].name \in Names
                          /\ slots'[p[1]][p[2]].first # 0
  BY DEF Entries, EntryAt, Places
<1>3. ASSUME NEW p \in Entries'
      PROVE  slots'[p[1]][p[2]].first \in K \ {ROOT_CLUSTER_START, free'}
  <2>1. CASE p = q
    BY <2>1, <1>2
  <2>2. CASE p # q
    BY <2>2, <1>1 DEF FatInv, EntryAt
  <2> QED
    BY <2>1, <2>2
<1>4. ASSUME NEW p \in Entries', NEW r \in Entries',
             slots'[p[1]][p[2]].first = slots'[r[1]][r[2]].first
      PROVE  p = r
  <2>1. CASE p = q /\ r # q
    BY <2>1, <1>1, <1>2, <1>4 DEF EntryAt
  <2>2. CASE p # q /\ r = q
    BY <2>2, <1>1, <1>2, <1>4 DEF EntryAt
  <2>3. CASE p # q /\ r # q
    BY <2>3, <1>1, <1>4 DEF FatInv, EntryAt
  <2> QED
    BY <2>1, <2>2, <2>3
<1>5. ASSUME NEW p \in Entries', slots'[p[1]][p[2]].type = DIR_ENTRY_TYPE_FILE
      PROVE  slots'[p[1]][p[2]].size
               <= BYTE_PER_CLUSTER * count_cluster_in_chain(fat', slots'[p[1]][p[2]].first)
  <2>1. CASE p = q
    BY <2>1, <1>2, <1>5
  <2>2. CASE p # q
    <3> DEFINE e == slots[p[1]][p[2]]
               m == count_cluster_in_chain(fat, e.first)
               n == count_cluster_in_chain(fat', e.first)
    <3>1. p \in Entries /\ slots'[p[1]][p[2]] = e /\ p \in Places
      BY <1>1, <1>2, <2>2
    <3>2. e \in DirEntry /\ fat \in [Clusters -> Links] /\ fat' \in [Clusters -> Links]
      BY <3>1 DEF FatInv, TypeOK, Places
    <3>3. e.size \in Nat /\ e.first \in Links
      BY <3>2 DEF DirEntry
    <3>4. e.size <= BYTE_PER_CLUSTER * m
      BY <3>1, <1>5 DEF FatInv, SizeCovered, EntryAt, count_cluster_in_chain
    <3>5. m <= n
      BY <3>1, <2>2 DEF EntryAt
    <3>6. m \in Nat /\ n \in Nat
      BY <3>2, <3>3, ChainFinite
    <3> HIDE DEF m, n, e
    <3>7. BYTE_PER_CLUSTER * m <= BYTE_PER_CLUSTER * n
      BY <3>5, <3>6, LayoutAssumption
    <3>8. e.size <= BYTE_PER_CLUSTER * n
      BY <3>3, <3>4, <3>6, <3>7, LayoutAssumption
    <3> QED
      BY <3>1, <3>8 DEF n
  <2> QED
    BY <2>1, <2>2
<1>6. Heads' \subseteq K
  BY <1>3 DEF Heads, EntryAt
<1>7. Forest(fat', Heads')
  BY <1>6, ForestSubset
<1>8. SizeCovered'
  BY <1>5 DEF SizeCovered, EntryAt, count_cluster_in_chain
<1>9. \A p \in Entries' : /\ EntryAt(p)'.first \notin {ROOT_CLUSTER_START, free'}
                          /\ \A r \in Entries' : EntryAt(p)'.first = EntryAt(r)'.first => p = r
  BY <1>3, <1>4 DEF EntryAt
<1> QED
  BY <1>7, <1>8, <1>9 DEF FatInv

\* What the proofs about single handlers use of the invariant.
LEMMA InvFacts ==
  ASSUME FatInv
  PROVE  /\ fat \in [Clusters -> Links]
         /\ slots \in SlotMap
         /\ Forest(fat, Heads)
         /\ free \in Links /\ free # ROOT_CLUSTER_START
         /\ ROOT_CLUSTER_START \in Heads
         /\ free # END_OF_CHAIN => free \in Heads
         /\ \A p \in Entries : /\ p \in Places
                               /\ EntryAt(p) \in DirEntry
                               /\ EntryAt(p).first \in Heads \ {ROOT_CLUSTER_START, free}
<1>1. fat \in [Clusters -> Links] /\ slots \in SlotMap /\ free \in Links
      /\ free # ROOT_CLUSTER_START /\ Forest(fat, Heads)
  BY DEF FatInv, TypeOK, SlotMap
<1>2. ROOT_CLUSTER_START \in Heads /\ (free # END_OF_CHAIN => free \in Heads)
  BY RootCluster, ZeroNoCluster DEF Heads
<1>3. ASSUME NEW p \in Entries
      PROVE  /\ p \in Places
             /\ EntryAt(p) \in DirEntry
             /\ EntryAt(p).first \in Heads \ {ROOT_CLUSTER_START, free}
  <2>1. p \in Places
    BY DEF Entries, Places
  <2>2. EntryAt(p) \in DirEntry
    BY <2>1, <1>1 DEF EntryAt, SlotMap, Places
  <2> QED
    BY <2>1, <2>2 DEF Heads, FatInv
<1> QED
  BY <1>1, <1>2, <1>3

Daemon == {"up", "segv", "abort", "lost"}
Reply == {"none", "0", "-1", "size", "ENOMEM", "ENOTEMPTY", "ENOTDIR", "EACCES"}

\* A step that changes neither table nor entries.
LEMMA SameDisk ==
  ASSUME FatInv, UNCHANGED <<fat, free, slots>>, daemon' \in Daemon, reply' \in Reply
  PROVE  FatInv'
<1>1. TypeOK'
  BY DEF FatInv, TypeOK, Daemon, Reply
<1>2. Entries' = Entries /\ Heads' = Heads /\ SizeCovered' = SizeCovered
  BY DEF Entries, Heads, SizeCovered, EntryAt
<1> QED
  BY <1>1, <1>2 DEF FatInv, EntryAt

\* Popping one cluster of a free list that is not empty.
LEMMA PopOne ==
  ASSUME NEW f \in [Clusters -> Links], NEW K, Forest(f, K), NEW r \in K
  PROVE  1 <= count_cluster_in_chain(f, r)
<1>1. r \in Clusters /\ r \in Links /\ f[r] \in Links
  BY DEF Forest, Links
<1>2. count_cluster_in_chain(f, r) = count_cluster_in_chain(f, f[r]) + 1
  BY <1>1, CountStep DEF Forest
<1>3. count_cluster_in_chain(f, f[r]) \in Nat
  BY <1>1, ChainFinite
<1> QED
  BY <1>2, <1>3

\* Searching a directory returns a slot of one of its clusters.
LEMMA FirstSlotPlace ==
  ASSUME FatInv, NEW d \in Clusters, NEW name, NEW p \in FirstSlot(d, name)
  PROVE  /\ p \in Places
         /\ EntryAt(p).name = name
         /\ EntryAt(p) \in DirEntry
<1>1. Chain(fat, d) \subseteq Clusters
  BY InvFacts, ChainBasics
<1>2. p \in Places /\ EntryAt(p).name = name
  BY <1>1 DEF FirstSlot, Places
<1> QED
  BY <1>2, InvFacts DEF EntryAt, SlotMap, Places

\* A path leads to a cluster that is the head of a chain, and never to the free list.
LEMMA DirsHeads ==
  ASSUME FatInv, NEW d \in Dirs
  PROVE  d \in Heads \ {free} /\ d \in Clusters
<1>1. d = ROOT_CLUSTER_START \/ \E p \in Entries : d = EntryAt(p).first
  BY DEF Dirs
<1>2. d \in Heads \ {free}
  BY <1>1, InvFacts
<1> QED
  BY <1>2 DEF FatInv, Forest

-----------------------------------------------------------------------------
(* Creating *)

\* The free list has lost its first k clusters, which are a chain of their own.
LEMMA Popped ==
  ASSUME FatInv, free # END_OF_CHAIN,
         NEW k \in Nat \ {0}, k <= count_cluster_in_chain(fat, free),
         NEW a, a = pop_free_clusters(Alloc, k),
         NEW K, K = Heads \cup ({a.free} \ {END_OF_CHAIN})
  PROVE  /\ a = [fat |-> a.fat, free |-> a.free]
         /\ a.fat \in [Clusters -> Links]
         /\ a.free \in Links \ Heads
         /\ Forest(a.fat, K)
         /\ \A h \in Heads \ {free} : Chain(a.fat, h) = Chain(fat, h)
<1>1. fat \in [Clusters -> Links] /\ Forest(fat, Heads) /\ free \in Heads
  BY InvFacts
<1>3. a = pop_free_clusters([fat |-> fat, free |-> free], k)
  BY DEF Alloc
<1>4. PopResult(fat, Heads, free, k, a)
  BY <1>1, <1>3, PopFreeClusters
<1> QED
  BY <1>4 DEF PopResult

\* After a step that only popped clusters and added at most one entry, in slot
\* q, with the first of them as its first cluster.
LEMMA PoppedInv ==
  ASSUME FatInv, free # END_OF_CHAIN,
         NEW k \in Nat \ {0}, k <= count_cluster_in_chain(fat, free),
         NEW a, a = pop_free_clusters(Alloc, k), SetAlloc(a),
         daemon' \in Daemon, reply' \in Reply,
         slots' \in SlotMap, NEW q, KeptBut(q),
         q \in Places /\ slots'[q[1]][q[2]].name \in Names /\ slots'[q[1]][q[2]].first # 0 =>
            slots'[q[1]][q[2]].first = free /\ slots'[q[1]][q[2]].size = 0
  PROVE  FatInv'
<1> DEFINE K == Heads \cup ({a.free} \ {END_OF_CHAIN})
<1>1. /\ a.fat \in [Clusters -> Links]
      /\ a.free \in Links \ Heads
      /\ Forest(a.fat, K)
      /\ \A h \in Heads \ {free} : Chain(a.fat, h) = Chain(fat, h)
  BY Popped
<1>2. fat' = a.fat /\ free' = a.free
  BY DEF SetAlloc
<1>3. free \in Heads /\ ROOT_CLUSTER_START \in Heads /\ free # ROOT_CLUSTER_START
      /\ free \in Links
  BY InvFacts
<1>4. TypeOK'
  BY <1>1, <1>2, <1>3 DEF TypeOK, SlotMap, Daemon, Reply
<1>5. Forest(fat', K) /\ ROOT_CLUSTER_START \in K /\ free' \in K \cup {END_OF_CHAIN}
  BY <1>1, <1>2, <1>3
<1>6. ASSUME NEW p \in Entries
      PROVE  /\ EntryAt(p).first \in K
             /\ EntryAt(p).first # free'
             /\ EntryAt(p).first # free
             /\ count_cluster_in_chain(fat, EntryAt(p).first)
                  <= count_cluster_in_chain(fat', EntryAt(p).first)
  <2>1. EntryAt(p).first \in Heads \ {free}
    BY InvFacts
  <2>2. count_cluster_in_chain(fat, EntryAt(p).first)
          = count_cluster_in_chain(fat', EntryAt(p).first)
    BY <2>1, <1>1, <1>2 DEF count_cluster_in_chain
  <2>3. fat \in [Clusters -> Links] /\ EntryAt(p).first \in Links
    BY <2>1, InvFacts DEF Forest, Links
  <2>4. count_cluster_in_chain(fat, EntryAt(p).first) \in Nat
    BY <2>3, ChainFinite
  <2> QED
    BY <1>1, <1>2, <2>1, <2>2, <2>4
<1>7. free \in K \ {ROOT_CLUSTER_START, free'}
  BY <1>1, <1>2, <1>3
<1>8. 0 <= BYTE_PER_CLUSTER * count_cluster_in_chain(fat', free)
  <2>1. count_cluster_in_chain(fat', free) \in Nat
    BY <1>1, <1>2, <1>3, ChainFinite
  <2> QED
    BY <2>1, LayoutAssumption
<1> HIDE DEF K
<1> QED
  BY <1>4, <1>5, <1>6, <1>7, <1>8, Rebuild

\* KeptBut and the entry in slot q, for entries put into slot q and then
\* perhaps followed by "." and "..".
LEMMA PutThenDots ==
  ASSUME NEW sl \in SlotMap, Fewer(slots, sl), NEW q \in Places, NEW e \in DirEntry,
         slots' \in SlotMap, Fewer(PutEntry(sl, q, e), slots')
  PROVE  KeptBut(q) /\ (slots'[q[1]][q[2]].name \in Names => slots'[q[1]][q[2]] = e)
<1>1. /\ PutEntry(sl, q, e)[q[1]][q[2]] = e
      /\ \A p \in Places : p # q => PutEntry(sl, q, e)[p[1]][p[2]] = sl[p[1]][p[2]]
  BY PutEntryAt
<1>2. slots'[q[1]][q[2]].name \in Names => slots'[q[1]][q[2]] = e
  BY <1>1 DEF Fewer
<1>3. ASSUME NEW p \in Places, p # q, slots'[p[1]][p[2]].name \in Names
      PROVE  slots'[p[1]][p[2]] = slots[p[1]][p[2]]
  <2>1. slots'[p[1]][p[2]] = sl[p[1]][p[2]]
    BY <1>1, <1>3 DEF Fewer
  <2>2. sl[p[1]][p[2]].name \in Names
    BY <2>1, <1>3
  <2> QED
    BY <2>1, <2>2 DEF Fewer
<1> QED
  BY <1>2, <1>3 DEF KeptBut

\* Every outcome of add_dir_entry, the failed and the torn ones too, keeps the
\* invariant.
LEMMA AddDirEntryInv ==
  ASSUME FatInv, has_free_cluster(Alloc),
         NEW d \in Dirs, NEW name \in Names \cup LongNames,
         NEW type \in {DIR_ENTRY_TYPE_FILE, DIR_ENTRY_TYPE_SUBDIR},
         add_dir_entry(d, name, type)
  PROVE  FatInv'
<1> DEFINE a  == pop_free_clusters(Alloc, 1)
           sl == Zeroed(slots, {free})
<1>1. free # END_OF_CHAIN /\ free \in Links /\ free \in Clusters
  <2>1. free > ROOT_CLUSTER_START
    BY DEF has_free_cluster, Alloc
  <2> QED
    BY <2>1, InvFacts, ClusterAssumption DEF END_OF_CHAIN, Links
<1>2. sl \in SlotMap /\ Fewer(slots, sl)
  BY InvFacts, ZeroedFewer
<1>3. d \in Heads \ {free} /\ d \in Clusters
  BY DirsHeads
<1>4. \/ InsertFails(d, name, type, free, a, sl)
      \/ InsertInSlot(d, name, type, free, a, sl)
      \/ InsertTorn(d, name, type, free, a, sl)
      \/ InsertInNewCluster(d, name, type, free, a, sl)
  BY DEF add_dir_entry
<1>5. /\ a = pop_free_clusters(Alloc, 1)
      /\ 1 \in Nat \ {0} /\ 1 <= count_cluster_in_chain(fat, free)
  <2>1. fat \in [Clusters -> Links] /\ Forest(fat, Heads) /\ free \in Heads
    BY <1>1, InvFacts
  <2> QED
    BY <2>1, PopOne
<1> HIDE DEF a, sl
<1>6. CASE InsertFails(d, name, type, free, a, sl)
  <2>1. SetAlloc(a) /\ daemon' \in Daemon /\ reply' \in Reply
        /\ slots' = AddDots(sl, type, free, d)
    BY <1>6 DEF InsertFails, Daemon, Reply
  <2>2. slots' \in SlotMap /\ Fewer(sl, slots')
    BY <1>1, <1>2, <1>3, <2>1, AddDotsFewer
  <2>3. Fewer(slots, slots')
    BY <1>2, <2>2, FewerTransitive
  <2> DEFINE q == <<END_OF_CHAIN, 0>>
  <2>4. q \notin Places /\ KeptBut(q)
    BY <2>3, ZeroNoCluster DEF Places, KeptBut, Fewer
  <2> HIDE DEF q
  <2> QED
    BY <1>1, <1>5, <2>1, <2>2, <2>4, PoppedInv
<1>7. CASE InsertInSlot(d, name, type, free, a, sl)
  <2> DEFINE e == NewEntry(name, type, free)
  <2>1. /\ name \in Names /\ SetAlloc(a) /\ daemon' \in Daemon /\ reply' \in Reply
    BY <1>7 DEF InsertInSlot, Daemon, Reply
  <2>2. PICK p \in FirstSlot(d, "") : slots' = AddDots(PutEntry(sl, p, e), type, free, d)
    BY <1>7 DEF InsertInSlot
  <2>3. p \in Places
    BY <1>3, FirstSlotPlace
  <2>4. e \in DirEntry /\ e.first = free /\ e.size = 0
    <3>1. e \in DirEntry
      BY <1>1, <2>1, NewEntryType
    <3>2. e.first = free /\ e.size = 0
      BY DEF NewEntry
    <3> QED
      BY <3>1, <3>2
  <2> HIDE DEF e
  <2>5. PutEntry(sl, p, e) \in SlotMap
    BY <1>2, <2>3, <2>4, PutEntryAt
  <2>6. slots' \in SlotMap /\ Fewer(PutEntry(sl, p, e), slots')
    BY <1>1, <1>3, <2>2, <2>5, AddDotsFewer
  <2>7. KeptBut(p) /\ (slots'[p[1]][p[2]].name \in Names => slots'[p[1]][p[2]] = e)
    BY <1>2, <2>3, <2>4, <2>6, PutThenDots
  <2> QED
    BY <1>1, <1>5, <2>1, <2>4, <2>6, <2>7, PoppedInv
<1>8. CASE InsertTorn(d, name, type, free, a, sl)
  <2> DEFINE e == TornEntry(name)
  <2>1. /\ name \in Names /\ SetAlloc(a) /\ daemon' \in Daemon /\ reply' \in Reply
    BY <1>8 DEF InsertTorn, Daemon, Reply
  <2>2. PICK p \in FirstSlot(d, "") :
           \/ slots' = AddDots(PutEntry(sl, p, e), type, free, d)
           \/ slots' = PutEntry(sl, p, e)
    BY <1>8 DEF InsertTorn
  <2>3. p \in Places
    BY <1>3, FirstSlotPlace
  <2>4. e \in DirEntry /\ e.first = 0
    <3>1. e = NewEntry(name, DIR_ENTRY_TYPE_FILE, 0) /\ 0 \in Links
      BY DEF TornEntry, Links, END_OF_CHAIN
    <3>2. e \in DirEntry
      BY <3>1, <2>1, NewEntryType
    <3>3. e.first = 0
      BY DEF TornEntry, NewEntry
    <3> QED
      BY <3>2, <3>3
  <2> HIDE DEF e
  <2>5. PutEntry(sl, p, e) \in SlotMap
    BY <1>2, <2>3, <2>4, PutEntryAt
  <2>6. slots' \in SlotMap /\ Fewer(PutEntry(sl, p, e), slots')
    <3>1. CASE slots' = AddDots(PutEntry(sl, p, e), type, free, d)
      BY <1>1, <1>3, <3>1, <2>5, AddDotsFewer
    <3>2. CASE slots' = PutEntry(sl, p, e)
      BY <3>2, <2>5 DEF Fewer
    <3> QED
      BY <2>2, <3>1, <3>2
  <2>7. KeptBut(p) /\ (slots'[p[1]][p[2]].name \in Names => slots'[p[1]][p[2]] = e)
    BY <1>2, <2>3, <2>4, <2>6, PutThenDots
  <2> QED
    BY <1>1, <1>5, <2>1, <2>4, <2>6, <2>7, PoppedInv
<1>9. CASE InsertInNewCluster(d, name, type, free, a, sl)
  <2> DEFINE e == NewEntry(name, type, free)
             q == <<a.free, 0>>
             K == Heads \cup ({a.free} \ {END_OF_CHAIN})
             b == append_free_clusters(a, d, 1)
             L == (K \ {a.free}) \cup ({b.free} \ {END_OF_CHAIN})
             zl == Zeroed(sl, {a.free})
  <2>1. /\ name \in Names /\ daemon' \in Daemon /\ reply' \in Reply
        /\ a.free > ROOT_CLUSTER_START
        /\ fat' = b.fat /\ free' = b.free
        /\ slots' = AddDots(PutEntry(zl, q, e), type, free, d)
    BY <1>9 DEF InsertInNewCluster, Daemon, Reply, has_free_cluster, SetAlloc, add_free_cluster
  <2>2. /\ a = [fat |-> a.fat, free |-> a.free]
        /\ a.fat \in [Clusters -> Links]
        /\ a.free \in Links \ Heads
        /\ Forest(a.fat, K)
        /\ \A h \in Heads \ {free} : Chain(a.fat, h) = Chain(fat, h)
    BY <1>1, <1>5, Popped
  <2>3. a.free # END_OF_CHAIN /\ a.free \in Clusters /\ a.free \in K /\ d \in K /\ d # a.free
    BY <1>3, <2>1, <2>2, ClusterAssumption DEF END_OF_CHAIN, Links
  <2>4. 1 \in Nat \ {0} /\ 1 <= count_cluster_in_chain(a.fat, a.free)
    BY <2>2, <2>3, PopOne
  <2> HIDE DEF K
  <2>5. /\ b.fat \in [Clusters -> Links]
        /\ b.free \in Links \ K
        /\ Forest(b.fat, L)
        /\ count_cluster_in_chain(b.fat, d) = count_cluster_in_chain(a.fat, d) + 1
        /\ \A h \in K \ {a.free, d} : Chain(b.fat, h) = Chain(a.fat, h)
    <3>1. b = append_free_clusters([fat |-> a.fat, free |-> a.free], d, 1)
      BY <2>2
    <3>2. AppendResult(a.fat, K, a.free, d, 1, b)
      BY <2>2, <2>3, <2>4, <3>1, AppendFreeClusters
    <3> QED
      BY <3>2 DEF AppendResult
  <2> HIDE DEF b
  <2>6. Heads \subseteq L /\ free' \in L \cup {END_OF_CHAIN}
    BY <2>1, <2>2 DEF K
  <2>7. e \in DirEntry /\ e.first = free /\ e.size = 0
    <3>1. e \in DirEntry
      BY <1>1, <2>1, NewEntryType
    <3>2. e.first = free /\ e.size = 0
      BY DEF NewEntry
    <3> QED
      BY <3>1, <3>2
  <2>8. q \in Places
    BY <2>3, SlotZero DEF Places
  <2>9. zl \in SlotMap /\ Fewer(slots, zl)
    BY <1>2, ZeroedFewer, FewerTransitive
  <2> HIDE DEF e, zl, q
  <2>10. PutEntry(zl, q, e) \in SlotMap
    BY <2>7, <2>8, <2>9, PutEntryAt
  <2>11. slots' \in SlotMap /\ Fewer(PutEntry(zl, q, e), slots')
    BY <1>1, <1>3, <2>1, <2>10, AddDotsFewer
  <2>12. KeptBut(q) /\ (slots'[q[1]][q[2]].name \in Names => slots'[q[1]][q[2]] = e)
    BY <2>7, <2>8, <2>9, <2>11, PutThenDots
  <2>13. free' # ROOT_CLUSTER_START /\ free \in Heads /\ free # ROOT_CLUSTER_START
         /\ free # free' /\ ROOT_CLUSTER_START \in L
    BY <1>1, <2>1, <2>5, <2>6, InvFacts DEF K
  <2>14. TypeOK'
    BY <2>1, <2>5, <2>11, <2>13 DEF TypeOK, SlotMap, Daemon, Reply
  <2>15. ASSUME NEW p \in Entries
         PROVE  /\ EntryAt(p).first \in L
                /\ EntryAt(p).first # free'
                /\ EntryAt(p).first # free
                /\ count_cluster_in_chain(fat, EntryAt(p).first)
                     <= count_cluster_in_chain(fat', EntryAt(p).first)
    <3> DEFINE h == EntryAt(p).first
    <3>1. h \in Heads \ {free} /\ fat \in [Clusters -> Links] /\ h \in Links
      BY InvFacts DEF Forest, Links
    <3> HIDE DEF h
    <3>2. h \in K /\ h # a.free
      BY <2>2, <3>1 DEF K
    <3>3. count_cluster_in_chain(a.fat, h) = count_cluster_in_chain(fat, h)
      BY <2>2, <3>1 DEF count_cluster_in_chain
    <3>4. count_cluster_in_chain(fat, h) \in Nat
      BY <3>1, ChainFinite
    <3>5. h # d => count_cluster_in_chain(b.fat, h) = count_cluster_in_chain(a.fat, h)
      BY <2>5, <3>2 DEF count_cluster_in_chain
    <3>6. count_cluster_in_chain(fat, h) <= count_cluster_in_chain(b.fat, h)
      BY <2>5, <3>3, <3>4, <3>5
    <3> QED
      BY <2>1, <2>5, <2>6, <3>1, <3>2, <3>6 DEF h
  <2>16. free \in L \ {ROOT_CLUSTER_START, free'}
    BY <2>6, <2>13
  <2>17. 0 <= BYTE_PER_CLUSTER * count_cluster_in_chain(fat', free)
    <3>1. count_cluster_in_chain(fat', free) \in Nat
      BY <1>1, <2>1, <2>5, ChainFinite
    <3> QED
      BY <3>1, LayoutAssumption
  <2>18. Forest(fat', L)
    BY <2>1, <2>5
  <2> HIDE DEF L
  <2> QED
    BY <2>6, <2>7, <2>12, <2>13, <2>14, <2>15, <2>16, <2>17, <2>18, Rebuild
<1> QED
  BY <1>4, <1>6, <1>7, <1>8, <1>9

-----------------------------------------------------------------------------
(* Arithmetic *)

\* A remainder is not greater than the number it is taken of.
LEMMA ModBound ==
  ASSUME NEW x \in Nat, NEW m \in Nat \ {0}
  PROVE  x % m \in Nat /\ x % m <= x
  BY SMT

\* The number of whole clusters in x bytes, and that one more holds byte x.
LEMMA DivBound ==
  ASSUME NEW x \in Nat, NEW b \in Nat \ {0}
  PROVE  /\ x \div b \in Nat
         /\ b * (x \div b) <= x
         /\ x + 1 <= b * ((x \div b) + 1)
  BY SMT

\* More clusters hold more bytes.
LEMMA TimesMonotone ==
  ASSUME NEW b \in Nat, NEW m \in Nat, NEW n \in Nat, m <= n
  PROVE  b * m <= b * n /\ b * m \in Nat /\ b * n \in Nat
  BY SMT

\* A byte below n clusters is in one of the first n.
LEMMA DivLess ==
  ASSUME NEW x \in Nat, NEW b \in Nat \ {0}, NEW n \in Nat, x < b * n
  PROVE  x \div b < n
<1>1. x \div b \in Nat /\ b * (x \div b) <= x
  BY DivBound
<1>2. ASSUME n <= x \div b PROVE FALSE
  <2>1. b * n <= b * (x \div b) /\ b * n \in Nat /\ b * (x \div b) \in Nat
    BY <1>1, <1>2, TimesMonotone
  <2> QED
    BY <1>1, <2>1
<1> QED
  BY <1>1, <1>2

-----------------------------------------------------------------------------
(* Removing *)

\* Freeing the chain of an entry and clearing the entry keeps the invariant.
LEMMA RemoveObjectInv ==
  ASSUME FatInv, NEW p \in Entries, RemoveObject(p)
  PROVE  FatInv'
<1> DEFINE c == EntryAt(p).first
           b == free_cluster_chain([fat |-> fat, free |-> free], c)
           K == Heads \ {free}
<1>1. /\ fat \in [Clusters -> Links] /\ slots \in SlotMap /\ Forest(fat, Heads)
      /\ free \in Heads \cup {END_OF_CHAIN}
      /\ c \in Heads \ {ROOT_CLUSTER_START, free} /\ c \in Links
      /\ ROOT_CLUSTER_START \in K /\ p \in Places
  BY InvFacts DEF Forest, Links
<1>2. /\ fat' = b.fat /\ free' = b.free /\ reply' \in Reply /\ daemon' \in Daemon
      /\ slots' = PutEntry(slots, p, FreeSlot)
  BY DEF RemoveObject, SetAlloc, Alloc, Reply, Daemon, FatInv, TypeOK
<1> HIDE DEF c
<1>3. /\ b = [fat |-> b.fat, free |-> c]
      /\ b.fat \in [Clusters -> Links]
      /\ Forest(b.fat, K)
  BY <1>1, FreeClusterChain
<1>4. \A h \in Heads \ {c} : Chain(b.fat, h) = Chain(fat, h)
  BY <1>1, FreeClusterChainOthers
<1> HIDE DEF b
<1>5. free' = c
  BY <1>2, <1>3
<1>6. /\ slots' \in SlotMap
      /\ slots'[p[1]][p[2]].name \notin Names
      /\ KeptBut(p)
  <2>1. FreeSlot.name \notin Names /\ FreeSlot \in DirEntry
    BY FreeSlotType, RequestAssumption
  <2>2. /\ slots' \in SlotMap
        /\ slots'[p[1]][p[2]] = FreeSlot
        /\ \A q \in Places : q # p => slots'[q[1]][q[2]] = slots[q[1]][q[2]]
    BY <1>1, <1>2, <2>1, PutEntryAt
  <2> QED
    BY <2>1, <2>2 DEF KeptBut
<1>7. TypeOK'
  BY <1>1, <1>2, <1>3, <1>5, <1>6 DEF TypeOK, SlotMap, Daemon, Reply
<1>8. ASSUME NEW r \in Entries, r # p
      PROVE  /\ EntryAt(r).first \in K
             /\ EntryAt(r).first # free'
             /\ count_cluster_in_chain(fat, EntryAt(r).first)
                  <= count_cluster_in_chain(fat', EntryAt(r).first)
  <2>1. EntryAt(r).first \in K /\ EntryAt(r).first # c
    BY <1>8, InvFacts DEF FatInv, c
  <2>2. count_cluster_in_chain(fat, EntryAt(r).first)
          = count_cluster_in_chain(fat', EntryAt(r).first)
    BY <2>1, <1>2, <1>4 DEF count_cluster_in_chain
  <2>3. EntryAt(r).first \in Links
    BY <2>1, <1>1 DEF Forest, Links
  <2>4. count_cluster_in_chain(fat, EntryAt(r).first) \in Nat
    BY <2>3, <1>1, ChainFinite
  <2> QED
    BY <2>1, <2>2, <2>4, <1>5
<1>9. Forest(fat', K) /\ free' \in K \cup {END_OF_CHAIN}
  BY <1>1, <1>2, <1>3, <1>5
<1> HIDE DEF K
<1> QED
  BY <1>1, <1>6, <1>7, <1>8, <1>9, Rebuild

-----------------------------------------------------------------------------
(* Changing sizes *)

\* Setting the size of an entry changes nothing else of it.
LEMMA WithSizeFields ==
  ASSUME NEW e \in DirEntry, NEW n \in Nat
  PROVE  /\ WithSize(e, n) \in DirEntry
         /\ WithSize(e, n).size = n
         /\ WithSize(e, n).first = e.first
         /\ WithSize(e, n).type = e.type
  BY DEF WithSize, DirEntry

\* Changing nothing adds no entry.
LEMMA FewerSelf ==
  ASSUME NEW sl PROVE Fewer(sl, sl)
  BY DEF Fewer

\* After a step that gave the entry in slot p the size n, which its chain has
\* room for, and changed the table as b says: the other chains are what they
\* were.
LEMMA ResizedInv ==
  ASSUME FatInv, NEW p \in Entries, NEW n \in Nat,
         NEW sl \in SlotMap, Fewer(slots, sl),
         slots' = PutEntry(sl, p, WithSize(EntryAt(p), n)),
         fat' \in [Clusters -> Links],
         free' = free \/ free' \in Links \ Heads,
         Forest(fat', (Heads \ {free}) \cup ({free'} \ {END_OF_CHAIN})),
         \A h \in Heads \ {free, EntryAt(p).first} : Chain(fat', h) = Chain(fat, h),
         n <= BYTE_PER_CLUSTER * count_cluster_in_chain(fat', EntryAt(p).first),
         daemon' \in Daemon, reply' \in Reply
  PROVE  FatInv'
<1> DEFINE c == EntryAt(p).first
           e == WithSize(EntryAt(p), n)
           K == (Heads \ {free}) \cup ({free'} \ {END_OF_CHAIN})
<1>1. /\ fat \in [Clusters -> Links]
      /\ Forest(fat, Heads)
      /\ free \in Links /\ free # ROOT_CLUSTER_START
      /\ ROOT_CLUSTER_START \in Heads
      /\ c \in Heads \ {ROOT_CLUSTER_START, free}
      /\ p \in Places /\ EntryAt(p) \in DirEntry
  BY InvFacts
<1>2. e \in DirEntry /\ e.size = n /\ e.first = c
  BY <1>1, WithSizeFields
<1> HIDE DEF e, c
<1>3. slots' = PutEntry(sl, p, e)
  BY DEF e
<1>4. slots' \in SlotMap /\ Fewer(PutEntry(sl, p, e), slots')
  BY <1>1, <1>2, <1>3, PutEntryAt, FewerSelf
<1>5. KeptBut(p) /\ (slots'[p[1]][p[2]].name \in Names => slots'[p[1]][p[2]] = e)
  BY <1>1, <1>2, <1>4, PutThenDots
<1>6. free' \in Links /\ free' # ROOT_CLUSTER_START /\ c # free'
  BY <1>1
<1>7. TypeOK'
  BY <1>4, <1>6 DEF TypeOK, SlotMap, Daemon, Reply
<1>8. ASSUME NEW r \in Entries, r # p
      PROVE  /\ EntryAt(r).first \in K
             /\ EntryAt(r).first # free'
             /\ EntryAt(r).first # c
             /\ count_cluster_in_chain(fat, EntryAt(r).first)
                  <= count_cluster_in_chain(fat', EntryAt(r).first)
  <2>1. EntryAt(r).first \in Heads \ {free} /\ EntryAt(r).first # c
    BY <1>8, InvFacts DEF FatInv, c
  <2>2. count_cluster_in_chain(fat, EntryAt(r).first)
          = count_cluster_in_chain(fat', EntryAt(r).first)
    BY <2>1 DEF count_cluster_in_chain, c
  <2>3. EntryAt(r).first \in Links
    BY <2>1, <1>1 DEF Forest, Links
  <2>4. count_cluster_in_chain(fat, EntryAt(r).first) \in Nat
    BY <2>3, <1>1, ChainFinite
  <2>5. EntryAt(r).first # free'
    BY <2>1
  <2> QED
    BY <2>1, <2>2, <2>4, <2>5
<1>9. /\ Forest(fat', K) /\ free' \in K \cup {END_OF_CHAIN} /\ ROOT_CLUSTER_START \in K
      /\ c \in K \ {ROOT_CLUSTER_START, free'}
  BY <1>1, <1>6
<1>10. n <= BYTE_PER_CLUSTER * count_cluster_in_chain(fat', c)
  BY DEF c
<1> HIDE DEF K
<1> QED
  BY <1>2, <1>5, <1>7, <1>8, <1>9, <1>10, Rebuild

\* A cluster holds at least one byte.
LEMMA ClusterSize ==
  BYTE_PER_CLUSTER \in Nat \ {0} /\ UINT_RANGE \in Nat \ {0}
<1>1. BYTE_PER_CLUSTER \in Nat \ {0}
  BY LayoutAssumption
<1>2. UINT_RANGE \in Nat \ {0}
  BY RequestAssumption
<1> QED
  BY <1>1, <1>2

\* Every outcome of update_file keeps the invariant, those in which the sum of
\* offset and size wraps around or the handler dies too.
LEMMA UpdateFileInv ==
  ASSUME FatInv, NEW p \in Places, EntryAt(p).name \in Names,
         EntryAt(p).type = DIR_ENTRY_TYPE_FILE,
         NEW size \in Nat, NEW offset \in Nat, NEW ok \in Reply, NEW fail \in Reply,
         update_file(p, size, offset, ok, fail)
  PROVE  FatInv'
<1> DEFINE e      == EntryAt(p)
           final  == (offset + size + UINT_RANGE - 1) % UINT_RANGE
           end    == (final + 1) % UINT_RANGE
           need   == (final \div BYTE_PER_CLUSTER) + 1
           have   == count_cluster_in_chain(fat, e.first)
           more   == need - have
           start  == (offset % UINT_RANGE) \div BYTE_PER_CLUSTER
           wraps  == (offset % UINT_RANGE) + (size % UINT_RANGE) > UINT_RANGE
           popped == pop_free_clusters(Alloc, more)
           zl     == Zeroed(slots, Chain(popped.fat, free))
           n      == IF end > e.size THEN end ELSE e.size
           WriteData ==
             \/ ~wraps /\ reply' = ok /\ daemon' = "up"
             \/ /\ wraps /\ start > need /\ start > have
                /\ reply' = "none" /\ daemon' = "segv"
             \/ /\ wraps /\ (start <= need \/ start <= have)
                /\ reply' = "none"
                /\ daemon' \in {"lost", IF offset % BYTE_PER_CLUSTER = 0 THEN "abort" ELSE "segv"}
<1>1. \/ /\ more <= 0
         /\ slots' = PutEntry(slots, p, WithSize(e, n))
         /\ WriteData
         /\ UNCHANGED <<fat, free>>
      \/ /\ more \in 1 .. free_count(Alloc)
         /\ e.first # 0
         /\ SetAlloc(append_free_clusters(Alloc, e.first, more))
         /\ slots' = PutEntry(zl, p, WithSize(e, n))
         /\ WriteData
      \/ /\ more \in 1 .. free_count(Alloc)
         /\ e.first = 0
         /\ SetAlloc(popped)
         /\ slots' = zl
         /\ reply' = "none"
         /\ daemon' = "abort"
      \/ WildRead
      \/ Return(fail)
  BY DEF update_file
<1>2. /\ fat \in [Clusters -> Links] /\ slots \in SlotMap /\ Forest(fat, Heads)
      /\ free \in Links
  BY InvFacts
<1>3. e \in DirEntry /\ e.first \in Links /\ e.size \in Nat
  <2>1. e \in DirEntry
    BY <1>2 DEF EntryAt, SlotMap, Places
  <2> HIDE DEF e
  <2> QED
    BY <2>1 DEF DirEntry
<1>4. BYTE_PER_CLUSTER \in Nat \ {0} /\ UINT_RANGE \in Nat \ {0}
  BY ClusterSize
<1>5. final \in Nat
  <2>1. offset + size + UINT_RANGE - 1 \in Nat
    BY <1>4
  <2> QED
    BY <1>4, <2>1, ModBound
<1>6. end \in Nat /\ end <= final + 1
  <2>1. final + 1 \in Nat
    BY <1>5
  <2> QED
    BY <1>4, <2>1, ModBound
<1>7. need \in Nat \ {0} /\ final + 1 <= BYTE_PER_CLUSTER * need
  <2>1. final \div BYTE_PER_CLUSTER \in Nat
    BY <1>4, <1>5, DivBound
  <2>2. final + 1 <= BYTE_PER_CLUSTER * need
    BY <1>4, <1>5, DivBound
  <2> QED
    BY <2>1, <2>2
<1>8. have \in Nat /\ count_cluster_in_chain(fat, free) \in Nat
  BY <1>2, <1>3, ChainFinite
<1> HIDE DEF final, end, need, have
<1>9. BYTE_PER_CLUSTER * need \in Nat /\ BYTE_PER_CLUSTER * have \in Nat
  BY <1>4, <1>7, <1>8
<1>10. n \in Nat
  BY <1>3, <1>6
<1>11. e.first # 0 => p \in Entries /\ e.size <= BYTE_PER_CLUSTER * have
  BY DEF Entries, Places, FatInv, SizeCovered, have, count_cluster_in_chain
<1>12. WriteData => daemon' \in Daemon /\ reply' \in Reply
  BY DEF Daemon, Reply
<1>13. free_count(Alloc) = count_cluster_in_chain(fat, free)
  BY DEF free_count, Alloc
<1>14. zl \in SlotMap /\ Fewer(slots, zl)
  BY <1>2, ZeroedFewer
<1>15. more \in 1 .. free_count(Alloc) =>
         /\ more \in Nat \ {0} /\ more <= count_cluster_in_chain(fat, free)
         /\ free # END_OF_CHAIN /\ free \in Heads
         /\ need = have + more
  <2> SUFFICES ASSUME more \in 1 .. free_count(Alloc)
               PROVE  /\ more \in Nat \ {0} /\ more <= count_cluster_in_chain(fat, free)
                      /\ free # END_OF_CHAIN /\ free \in Heads
                      /\ need = have + more
    OBVIOUS
  <2>1. more \in Nat \ {0} /\ more <= count_cluster_in_chain(fat, free)
    BY <1>8, <1>13
  <2>2. free # END_OF_CHAIN
    BY <2>1, CountZero
  <2> QED
    BY <2>1, <2>2, <1>7, <1>8, InvFacts
<1> HIDE DEF zl, n, WriteData
<1>16. CASE /\ more <= 0
            /\ slots' = PutEntry(slots, p, WithSize(e, n))
            /\ WriteData
            /\ UNCHANGED <<fat, free>>
  <2>1. daemon' \in Daemon /\ reply' \in Reply /\ fat' = fat /\ free' = free
    BY <1>12, <1>16
  <2>2. CASE e.first = 0
    <3>1. WithSize(e, n) \in DirEntry /\ WithSize(e, n).first = 0
      BY <1>3, <1>10, <2>2, WithSizeFields
    <3>2. slots' \in SlotMap /\ Fewer(PutEntry(slots, p, WithSize(e, n)), slots')
      BY <1>2, <1>16, <3>1, PutEntryAt, FewerSelf
    <3>3. KeptBut(p) /\ (slots'[p[1]][p[2]].name \in Names
                         => slots'[p[1]][p[2]] = WithSize(e, n))
      BY <1>2, <3>1, <3>2, FewerSelf, PutThenDots
    <3>4. TypeOK'
      BY <2>1, <3>2 DEF FatInv, TypeOK, SlotMap, Daemon, Reply
    <3>5. \A r \in Entries :
             /\ EntryAt(r).first \in Heads
             /\ EntryAt(r).first # free'
             /\ count_cluster_in_chain(fat, EntryAt(r).first)
                  <= count_cluster_in_chain(fat', EntryAt(r).first)
      <4> SUFFICES ASSUME NEW r \in Entries
                   PROVE  /\ EntryAt(r).first \in Heads
                          /\ EntryAt(r).first # free'
                          /\ count_cluster_in_chain(fat, EntryAt(r).first)
                               <= count_cluster_in_chain(fat', EntryAt(r).first)
        OBVIOUS
      <4>1. EntryAt(r).first \in Heads \ {free} /\ EntryAt(r).first \in Links
        BY InvFacts DEF DirEntry
      <4>2. count_cluster_in_chain(fat, EntryAt(r).first) \in Nat
        BY <4>1, <1>2, ChainFinite
      <4> QED
        BY <2>1, <4>1, <4>2
    <3>6. Forest(fat', Heads) /\ free' \in Heads \cup {END_OF_CHAIN}
          /\ ROOT_CLUSTER_START \in Heads
      BY <1>2, <2>1, InvFacts
    <3> QED
      BY <3>1, <3>3, <3>4, <3>5, <3>6, Rebuild
  <2>3. CASE e.first # 0
    <3>1. p \in Entries /\ e.size <= BYTE_PER_CLUSTER * have
      BY <1>11, <2>3
    <3>2. BYTE_PER_CLUSTER * need <= BYTE_PER_CLUSTER * have
      <4>1. need <= have
        BY <1>7, <1>8, <1>16
      <4> QED
        BY <4>1, <1>4, <1>7, <1>8, TimesMonotone
    <3>3. n <= BYTE_PER_CLUSTER * have
      BY <1>3, <1>5, <1>6, <1>7, <1>9, <3>1, <3>2 DEF n
    <3>4. n <= BYTE_PER_CLUSTER * count_cluster_in_chain(fat', EntryAt(p).first)
      BY <2>1, <3>3 DEF have
    <3>5. (Heads \ {free}) \cup ({free'} \ {END_OF_CHAIN}) \in SUBSET Heads
      BY <2>1, InvFacts
    <3>6. Forest(fat', (Heads \ {free}) \cup ({free'} \ {END_OF_CHAIN}))
      BY <1>2, <2>1, <3>5, ForestSubset
    <3>7. slots' = PutEntry(slots, p, WithSize(EntryAt(p), n))
      BY <1>16
    <3> QED
      BY <1>2, <1>10, <2>1, <3>1, <3>4, <3>6, <3>7, FewerSelf, ResizedInv
  <2> QED
    BY <2>2, <2>3
<1>17. CASE /\ more \in 1 .. free_count(Alloc)
            /\ e.first # 0
            /\ SetAlloc(append_free_clusters(Alloc, e.first, more))
            /\ slots' = PutEntry(zl, p, WithSize(e, n))
            /\ WriteData
  <2> DEFINE b == append_free_clusters([fat |-> fat, free |-> free], e.first, more)
  <2>1. daemon' \in Daemon /\ reply' \in Reply /\ fat' = b.fat /\ free' = b.free
    BY <1>12, <1>17 DEF SetAlloc, Alloc
  <2>2. p \in Entries /\ e.size <= BYTE_PER_CLUSTER * have
    BY <1>11, <1>17
  <2>3. e.first \in Heads /\ e.first # free
    BY <2>2, InvFacts
  <2>4. more \in Nat \ {0} /\ more <= count_cluster_in_chain(fat, free)
        /\ free \in Heads /\ need = have + more
    BY <1>15, <1>17
  <2> HIDE DEF more
  <2>5. AppendResult(fat, Heads, free, e.first, more, b)
    BY <1>2, <2>3, <2>4, AppendFreeClusters
  <2> HIDE DEF b
  <2>6. /\ b.fat \in [Clusters -> Links]
        /\ b.free \in Links \ Heads
        /\ Forest(b.fat, (Heads \ {free}) \cup ({b.free} \ {END_OF_CHAIN}))
        /\ count_cluster_in_chain(b.fat, e.first) = have + more
        /\ \A h \in Heads \ {free, e.first} : Chain(b.fat, h) = Chain(fat, h)
    BY <2>5 DEF AppendResult, have
  <2>7. BYTE_PER_CLUSTER * have <= BYTE_PER_CLUSTER * need
    <3>1. have <= need
      BY <1>8, <2>4
    <3> QED
      BY <3>1, <1>4, <1>7, <1>8, TimesMonotone
  <2>8. n <= BYTE_PER_CLUSTER * need
    BY <1>3, <1>5, <1>6, <1>7, <1>9, <2>2, <2>7 DEF n
  <2>9. n <= BYTE_PER_CLUSTER * count_cluster_in_chain(fat', EntryAt(p).first)
    BY <2>1, <2>4, <2>6, <2>8
  <2>10. slots' = PutEntry(zl, p, WithSize(EntryAt(p), n))
    BY <1>17
  <2> QED
    BY <1>10, <1>14, <2>1, <2>2, <2>6, <2>9, <2>10, ResizedInv
<1>18. CASE /\ more \in 1 .. free_count(Alloc)
            /\ e.first = 0
            /\ SetAlloc(popped)
            /\ slots' = zl
            /\ reply' = "none"
            /\ daemon' = "abort"
  <2>1. daemon' \in Daemon /\ reply' \in Reply
    BY <1>18 DEF Daemon, Reply
  <2> DEFINE q == <<END_OF_CHAIN, 0>>
  <2>2. q \notin Places /\ KeptBut(q) /\ slots' \in SlotMap
    BY <1>14, <1>18, ZeroNoCluster DEF Places, KeptBut, Fewer
  <2>3. more \in Nat \ {0} /\ more <= count_cluster_in_chain(fat, free)
        /\ free # END_OF_CHAIN
    BY <1>15, <1>18
  <2>4. popped = pop_free_clusters(Alloc, more) /\ SetAlloc(popped)
    BY <1>18
  <2> HIDE DEF q, popped, more
  <2> QED
    BY <2>1, <2>2, <2>3, <2>4, PoppedInv
<1>19. CASE WildRead
  BY <1>19, SameDisk DEF WildRead, Daemon, Reply
<1>20. CASE Return(fail)
  BY <1>20, SameDisk DEF Return, Daemon, FatInv, TypeOK
<1> HIDE DEF more, popped
<1> QED
  BY <1>1, <1>16, <1>17, <1>18, <1>19, <1>20

\* Shrinking leaves size \div BYTE_PER_CLUSTER + 1 clusters, enough for size.
LEMMA ShrinkInv ==
  ASSUME FatInv, NEW p \in Entries, EntryAt(p).type = DIR_ENTRY_TYPE_FILE,
         NEW size \in Nat, size < EntryAt(p).size,
         SetAlloc(cut_chain(Alloc, EntryAt(p).first, size \div BYTE_PER_CLUSTER)),
         slots' = PutEntry(slots, p, WithSize(EntryAt(p), size)),
         reply' = "0", UNCHANGED daemon
  PROVE  FatInv'
<1> DEFINE c == EntryAt(p).first
           n == size \div BYTE_PER_CLUSTER
           b == cut_chain([fat |-> fat, free |-> free], c, n)
<1>1. /\ fat \in [Clusters -> Links] /\ slots \in SlotMap /\ Forest(fat, Heads)
      /\ free \in Heads \cup {END_OF_CHAIN} /\ free \in Links
      /\ c \in Heads /\ c # free /\ c \in Links /\ EntryAt(p).size \in Nat
  BY InvFacts DEF DirEntry
<1>2. fat' = b.fat /\ free' = b.free /\ daemon' \in Daemon /\ reply' \in Reply
  BY DEF SetAlloc, Alloc, Daemon, Reply, FatInv, TypeOK
<1>3. count_cluster_in_chain(fat, c) \in Nat
  BY <1>1, ChainFinite
<1>4. EntryAt(p).size <= BYTE_PER_CLUSTER * count_cluster_in_chain(fat, c)
  BY DEF FatInv, SizeCovered, count_cluster_in_chain
<1>5. BYTE_PER_CLUSTER * count_cluster_in_chain(fat, c) \in Nat
  BY <1>3, ClusterSize
<1>6. size < BYTE_PER_CLUSTER * count_cluster_in_chain(fat, c)
  BY <1>1, <1>4, <1>5
<1>7. n \in Nat /\ n < count_cluster_in_chain(fat, c) /\ size + 1 <= BYTE_PER_CLUSTER * (n + 1)
  BY <1>3, <1>6, ClusterSize, DivBound, DivLess
<1> HIDE DEF n, c
<1>8. CutResult(fat, Heads, free, c, n, b)
  BY <1>1, <1>7, CutChainBehind
<1> HIDE DEF b
<1>9. /\ b.fat \in [Clusters -> Links]
      /\ b.free = free \/ b.free \in Clusters \ Heads
      /\ Forest(b.fat, (Heads \ {free}) \cup ({b.free} \ {END_OF_CHAIN}))
      /\ count_cluster_in_chain(b.fat, c) = n + 1
      /\ \A h \in Heads \ {c, free} : Chain(b.fat, h) = Chain(fat, h)
  BY <1>8 DEF CutResult
<1>10. size <= BYTE_PER_CLUSTER * count_cluster_in_chain(fat', c)
  <2>1. BYTE_PER_CLUSTER * (n + 1) \in Nat
    BY <1>7, ClusterSize
  <2> QED
    BY <1>2, <1>7, <1>9, <2>1
<1>11. free' = free \/ free' \in Links \ Heads
  BY <1>2, <1>9 DEF Links
<1>12. /\ fat' \in [Clusters -> Links]
       /\ Forest(fat', (Heads \ {free}) \cup ({free'} \ {END_OF_CHAIN}))
       /\ \A h \in Heads \ {free, EntryAt(p).first} : Chain(fat', h) = Chain(fat, h)
       /\ size <= BYTE_PER_CLUSTER * count_cluster_in_chain(fat', EntryAt(p).first)
  BY <1>2, <1>9, <1>10 DEF c
<1> QED
  BY <1>1, <1>2, <1>11, <1>12, FewerSelf, ResizedInv

\* fat_truncate keeps the invariant, for an entry torn at the end of its cluster
\* too.
LEMMA TruncateInv ==
  ASSUME FatInv, NEW p \in Places, EntryAt(p).name \in Names,
         NEW size \in Nat, fat_truncate(p, size)
  PROVE  FatInv'
<1>1. PICK old \in SizeRead(EntryAt(p)) :
        \/ size = old /\ Return("0")
        \/ /\ size > old
           /\ LET num_zeros == (size + UINT_RANGE - old) % UINT_RANGE
              IN  update_file(p, num_zeros, old, "0",
                              IF num_zeros = UINT_RANGE - ENOMEM THEN "0" ELSE "-1")
        \/ size < old /\ EntryAt(p).first = 0 /\ WildRead
        \/ /\ size < old
           /\ EntryAt(p).first # 0
           /\ SetAlloc(cut_chain(Alloc, EntryAt(p).first, size \div BYTE_PER_CLUSTER))
           /\ slots' = PutEntry(slots, p, WithSize(EntryAt(p), size))
           /\ reply' = "0"
           /\ UNCHANGED daemon
  BY DEF fat_truncate
<1>2. EntryAt(p).type = DIR_ENTRY_TYPE_FILE
  BY DEF fat_truncate
<1>3. old \in Nat
  <2>1. EntryAt(p) \in DirEntry
    BY InvFacts DEF EntryAt, SlotMap, Places
  <2>2. EntryAt(p).size \in Nat
    BY <2>1 DEF DirEntry
  <2>3. HeapBytes \subseteq Nat
    BY RequestAssumption
  <2>4. CASE EntryAt(p).first = 0
    BY <2>3, <2>4 DEF SizeRead
  <2>5. CASE EntryAt(p).first # 0
    BY <2>2, <2>5 DEF SizeRead
  <2> QED
    BY <2>4, <2>5
<1>4. CASE size = old /\ Return("0")
  BY <1>4, SameDisk DEF Return, Daemon, Reply, FatInv, TypeOK
<1>5. CASE size > old /\ update_file(p, (size + UINT_RANGE - old) % UINT_RANGE, old, "0",
                                     IF (size + UINT_RANGE - old) % UINT_RANGE
                                          = UINT_RANGE - ENOMEM THEN "0" ELSE "-1")
  <2> DEFINE num_zeros == (size + UINT_RANGE - old) % UINT_RANGE
             fail == IF num_zeros = UINT_RANGE - ENOMEM THEN "0" ELSE "-1"
  <2>1. size + UINT_RANGE - old \in Nat
    BY <1>3, <1>5, ClusterSize
  <2>2. num_zeros \in Nat
    BY <2>1, ClusterSize, ModBound
  <2>3. fail \in Reply /\ "0" \in Reply
    BY DEF Reply
  <2>4. update_file(p, num_zeros, old, "0", fail)
    BY <1>5
  <2> HIDE DEF num_zeros, fail
  <2> QED
    BY <1>2, <1>3, <2>2, <2>3, <2>4, UpdateFileInv
<1>6. CASE WildRead
  BY <1>6, SameDisk DEF WildRead, Daemon, Reply
<1>7. CASE /\ size < old
           /\ EntryAt(p).first # 0
           /\ SetAlloc(cut_chain(Alloc, EntryAt(p).first, size \div BYTE_PER_CLUSTER))
           /\ slots' = PutEntry(slots, p, WithSize(EntryAt(p), size))
           /\ reply' = "0"
           /\ UNCHANGED daemon
  <2>1. p \in Entries /\ old = EntryAt(p).size
    BY <1>7 DEF Entries, Places, SizeRead
  <2> QED
    BY <1>2, <1>7, <2>1, ShrinkInv
<1> QED
  BY <1>1, <1>4, <1>5, <1>6, <1>7

-----------------------------------------------------------------------------
(* Every step *)

\* A handler that only replies keeps the invariant.
LEMMA ReturnInv ==
  ASSUME FatInv, NEW r \in Reply, Return(r)
  PROVE  FatInv'
  BY SameDisk DEF Return, Daemon, FatInv, TypeOK

\* mkdir, mknod and create keep the invariant.
LEMMA CreateInv ==
  ASSUME FatInv, CreateRequest
  PROVE  FatInv'
<1>1. PICK d \in Dirs, name \in Names \cup LongNames :
        \/ fat_mkdir(d, name)
        \/ \E regular \in BOOLEAN : fat_mknod(d, name, regular)
        \/ fat_create(d, name)
  BY DEF CreateRequest
<1>2. \/ Return("ENOMEM") \/ Return("EACCES") \/ Return("0")
      \/ has_free_cluster(Alloc) /\ add_dir_entry(d, name, DIR_ENTRY_TYPE_SUBDIR)
      \/ has_free_cluster(Alloc) /\ add_dir_entry(d, name, DIR_ENTRY_TYPE_FILE)
  BY <1>1 DEF fat_mkdir, fat_mknod, fat_create
<1>3. "ENOMEM" \in Reply /\ "EACCES" \in Reply /\ "0" \in Reply
  BY DEF Reply
<1>4. CASE \E type \in {DIR_ENTRY_TYPE_FILE, DIR_ENTRY_TYPE_SUBDIR} :
             has_free_cluster(Alloc) /\ add_dir_entry(d, name, type)
  BY <1>4, AddDirEntryInv
<1> QED
  BY <1>2, <1>3, <1>4, ReturnInv

\* rmdir, unlink, write and truncate keep the invariant.
LEMMA ObjectInv ==
  ASSUME FatInv, ObjectRequest
  PROVE  FatInv'
<1>1. PICK d \in Dirs, name \in Names : \E p \in find_dir_entry_by_name(d, name) :
        \/ fat_rmdir(p)
        \/ fat_unlink(p)
        \/ \E size \in WriteSizes, offset \in WriteOffsets : fat_write(p, size, offset)
        \/ \E size \in TruncateSizes : fat_truncate(p, size)
  BY DEF ObjectRequest
<1>2. PICK p \in FirstSlot(d, name) :
        \/ fat_rmdir(p)
        \/ fat_unlink(p)
        \/ \E size \in WriteSizes, offset \in WriteOffsets : fat_write(p, size, offset)
        \/ \E size \in TruncateSizes : fat_truncate(p, size)
  BY <1>1 DEF find_dir_entry_by_name
<1>3. p \in Places /\ EntryAt(p).name \in Names /\ EntryAt(p) \in DirEntry
  BY DirsHeads, FirstSlotPlace
<1>4. EntryAt(p).first # 0 => p \in Entries
  BY <1>3 DEF Entries, Places
<1>5. /\ "ENOTEMPTY" \in Reply /\ "ENOTDIR" \in Reply /\ "-1" \in Reply
      /\ "size" \in Reply /\ "ENOMEM" \in Reply
  BY DEF Reply
<1>6. WriteSizes \subseteq Nat /\ WriteOffsets \subseteq Nat /\ TruncateSizes \subseteq Nat
  BY RequestAssumption
<1>7. ASSUME RemoveObject(p), EntryAt(p).first # 0 PROVE FatInv'
  BY <1>4, <1>7, RemoveObjectInv
<1>8. ASSUME WildRead \/ AssertionFails PROVE FatInv'
  BY <1>8, SameDisk DEF WildRead, AssertionFails, Daemon, Reply
<1>9. CASE fat_rmdir(p)
  <2>1. \/ Return("ENOTEMPTY") \/ Return("ENOTDIR") \/ AssertionFails
        \/ EntryAt(p).first # 0 /\ RemoveObject(p)
    BY <1>9 DEF fat_rmdir
  <2> QED
    BY <1>5, <1>7, <1>8, <2>1, ReturnInv
<1>10. CASE fat_unlink(p)
  BY <1>5, <1>7, <1>8, <1>10, ReturnInv DEF fat_unlink
<1>11. CASE \E size \in WriteSizes, offset \in WriteOffsets : fat_write(p, size, offset)
  <2>1. PICK size \in WriteSizes, offset \in WriteOffsets : fat_write(p, size, offset)
    BY <1>11
  <2>2. /\ EntryAt(p).type = DIR_ENTRY_TYPE_FILE
        /\ update_file(p, size, offset, "size", "ENOMEM")
        /\ size \in Nat /\ offset \in Nat
    BY <1>6, <2>1 DEF fat_write
  <2> QED
    BY <1>3, <1>5, <2>2, UpdateFileInv
<1>12. CASE \E size \in TruncateSizes : fat_truncate(p, size)
  BY <1>3, <1>6, <1>12, TruncateInv
<1> QED
  BY <1>2, <1>9, <1>10, <1>11, <1>12

\* Every step of the file system, and the daemon's death and restart, keeps
\* the invariant.
LEMMA NextInv == FatInv /\ [Next]_vars => FatInv'
<1> SUFFICES ASSUME FatInv, [Next]_vars PROVE FatInv'
  OBVIOUS
<1>1. CASE CreateRequest
  BY <1>1, CreateInv
<1>2. CASE ObjectRequest
  BY <1>2, ObjectInv
<1>3. CASE Remount
  BY <1>3, SameDisk DEF Remount, Daemon, Reply
<1>4. CASE UNCHANGED vars
  BY <1>4, SameDisk DEF vars, FatInv, TypeOK, Daemon, Reply
<1> QED
  BY <1>1, <1>2, <1>3, <1>4 DEF Next

-----------------------------------------------------------------------------
(* The directory tree.  f is a table and sl the entries of a disk.         *)

\* The content of slot p.
At(sl, p) == sl[p[1]][p[2]]

\* The slots that hold an entry, one torn at the end of its cluster too.
Named(sl) == {p \in Places : At(sl, p).name \in Names}

\* The slots of the subdirectories of d, and the first clusters of these.
SubdirsIn(f, sl, d) ==
  {p \in Named(sl) : p[1] \in Chain(f, d) /\ At(sl, p).type = DIR_ENTRY_TYPE_SUBDIR}

Children(f, sl, d) == {At(sl, p).first : p \in SubdirsIn(f, sl, d)}

\* The first clusters of the root and of what is below it: the least set that
\* has the root and the children of its members.
HasTree(f, sl, S) ==
  ROOT_CLUSTER_START \in S /\ \A d \in S : Children(f, sl, d) \subseteq S

Reach(f, sl) ==
  {d \in Clusters : \A S \in SUBSET Clusters : HasTree(f, sl, S) => d \in S}

NamesOnce(f, sl, d) ==
  \A p, q \in Named(sl) :
     /\ p[1] \in Chain(f, d) /\ q[1] \in Chain(f, d)
     /\ At(sl, p).name = At(sl, q).name
     => p = q

Dot    == "."
DotDot == ".."

DotsRight(sl, c, d) ==
  \A s \in Slots : /\ sl[c][s].name = Dot => sl[c][s].first = c
                   /\ sl[c][s].name = DotDot => sl[c][s].first = d

SubdirsHaveCluster(sl) ==
  \A p \in Named(sl) :
     At(sl, p).type = DIR_ENTRY_TYPE_SUBDIR => At(sl, p).first \in Clusters

\* What is inductive about the tree: subdirectories have a cluster, every entry
\* is in a directory below the root, no directory holds a name twice, so that
\* searching it finds every entry, and "." and ".." are right.
TreeOK(f, sl) ==
  /\ SubdirsHaveCluster(sl)
  /\ \A p \in Named(sl) : \E d \in Reach(f, sl) : p[1] \in Chain(f, d)
  /\ \A d \in Reach(f, sl) :
        /\ NamesOnce(f, sl, d)
        /\ \A p \in SubdirsIn(f, sl, d) : DotsRight(sl, At(sl, p).first, d)

\* The directories below the root are the least set with the root and all children.
LEMMA ReachBasics ==
  ASSUME NEW f, NEW sl, SubdirsHaveCluster(sl)
  PROVE  /\ ROOT_CLUSTER_START \in Reach(f, sl)
         /\ Reach(f, sl) \in SUBSET Clusters
         /\ \A d \in Reach(f, sl) : Children(f, sl, d) \subseteq Reach(f, sl)
<1>1. ROOT_CLUSTER_START \in Reach(f, sl)
  BY RootCluster DEF Reach, HasTree
<1>2. ASSUME NEW d \in Reach(f, sl), NEW c \in Children(f, sl, d)
      PROVE  c \in Reach(f, sl)
  <2>1. c \in Clusters
    BY <1>2 DEF Children, SubdirsIn, SubdirsHaveCluster
  <2>2. ASSUME NEW S \in SUBSET Clusters, HasTree(f, sl, S) PROVE c \in S
    <3>1. d \in S
      BY <2>2 DEF Reach
    <3> QED
      BY <1>2, <2>2, <3>1 DEF HasTree
  <2> QED
    BY <2>1, <2>2 DEF Reach
<1> QED
  BY <1>1, <1>2 DEF Reach

\* A set with the root and the children of its members has all of them.
LEMMA ReachLeast ==
  ASSUME NEW f, NEW sl, NEW S \in SUBSET Clusters, HasTree(f, sl, S)
  PROVE  Reach(f, sl) \subseteq S
  BY DEF Reach

\* A directory is the root or has an entry in another one.
LEMMA ReachParent ==
  ASSUME NEW f, NEW sl, SubdirsHaveCluster(sl), NEW c \in Reach(f, sl)
  PROVE  \/ c = ROOT_CLUSTER_START
         \/ \E p \in Named(sl) : /\ At(sl, p).type = DIR_ENTRY_TYPE_SUBDIR
                                 /\ At(sl, p).first = c
<1> DEFINE S == {ROOT_CLUSTER_START} \cup {At(sl, p).first : p \in
                 {p \in Named(sl) : At(sl, p).type = DIR_ENTRY_TYPE_SUBDIR}}
<1>1. S \in SUBSET Clusters
  BY RootCluster DEF SubdirsHaveCluster
<1>2. HasTree(f, sl, S)
  BY DEF HasTree, Children, SubdirsIn
<1>3. c \in S
  BY <1>1, <1>2, ReachLeast
<1> QED
  BY <1>3

\* A step that keeps every entry, in its directory, and what "." and ".." of
\* the directories say.
KeepsTree(f, sl, g, tl) ==
  /\ \A p \in Named(sl) : /\ p \in Named(tl)
                          /\ At(tl, p).name = At(sl, p).name
                          /\ At(tl, p).type = At(sl, p).type
                          /\ At(tl, p).first = At(sl, p).first
  /\ \A d \in Reach(f, sl), p \in Named(sl) : p[1] \in Chain(g, d) <=> p[1] \in Chain(f, d)
  /\ \A d \in Reach(f, sl) : \A p \in SubdirsIn(f, sl, d) :
        DotsRight(tl, At(sl, p).first, d)

\* A new entry in slot q: in one directory, under a name that this directory does
\* not have, and if it is a directory an empty one with the right "." and "..".
Added(f, sl, g, tl, q) ==
  \E d \in Reach(f, sl) :
     /\ q[1] \in Chain(g, d)
     /\ \A h \in Reach(f, sl) : q[1] \in Chain(g, h) => h = d
     /\ \A p \in Named(sl) : p[1] \in Chain(f, d) => At(sl, p).name # At(tl, q).name
     /\ At(tl, q).type = DIR_ENTRY_TYPE_SUBDIR =>
           /\ At(tl, q).first \in Clusters
           /\ \A p \in Named(tl) : p[1] \notin Chain(g, At(tl, q).first)
           /\ DotsRight(tl, At(tl, q).first, d)

\* Adding at most one entry keeps the tree.
LEMMA TreeGrows ==
  ASSUME NEW f, NEW sl, NEW g, NEW tl, TreeOK(f, sl), KeepsTree(f, sl, g, tl),
         \A p, q \in Named(tl) \ Named(sl) : p = q,
         \A q \in Named(tl) \ Named(sl) : Added(f, sl, g, tl, q)
  PROVE  TreeOK(g, tl)
<1> DEFINE R == Reach(f, sl)
           T == Reach(g, tl)
           New == Named(tl) \ Named(sl)
           C == {At(tl, q).first : q \in {q \in New : At(tl, q).type = DIR_ENTRY_TYPE_SUBDIR}}
<1>1. SubdirsHaveCluster(sl)
  BY DEF TreeOK
<1>2. SubdirsHaveCluster(tl)
  BY <1>1 DEF SubdirsHaveCluster, KeepsTree, Added
<1>3. /\ ROOT_CLUSTER_START \in R /\ R \in SUBSET Clusters
      /\ \A d \in R : Children(f, sl, d) \subseteq R
  BY <1>1, ReachBasics
<1>4. /\ ROOT_CLUSTER_START \in T /\ T \in SUBSET Clusters
      /\ \A d \in T : Children(g, tl, d) \subseteq T
  BY <1>2, ReachBasics
<1>5. ASSUME NEW d \in R, NEW p \in Named(sl)
      PROVE  p \in SubdirsIn(g, tl, d) <=> p \in SubdirsIn(f, sl, d)
  BY <1>5 DEF KeepsTree, SubdirsIn
<1>6. ASSUME NEW d \in R PROVE Children(f, sl, d) \subseteq Children(g, tl, d)
  <2> SUFFICES ASSUME NEW p \in SubdirsIn(f, sl, d) PROVE At(sl, p).first \in Children(g, tl, d)
    BY DEF Children
  <2>1. p \in Named(sl) /\ At(tl, p).first = At(sl, p).first
    BY DEF SubdirsIn, KeepsTree
  <2> QED
    BY <1>5, <1>6, <2>1 DEF Children
<1>7. R \subseteq T
  <2>1. HasTree(f, sl, R \cap T)
    BY <1>3, <1>4, <1>6 DEF HasTree
  <2> QED
    BY <1>3, <2>1, ReachLeast
<1>8. ASSUME NEW c \in C, NEW p \in Named(tl) PROVE p[1] \notin Chain(g, c)
  BY <1>8 DEF Added
<1>9. T \subseteq R \cup C
  <2>1. C \in SUBSET Clusters
    BY <1>2 DEF SubdirsHaveCluster
  <2>2. ASSUME NEW c \in C PROVE Children(g, tl, c) = {}
    BY <1>8, <2>2 DEF Children, SubdirsIn
  <2>3. ASSUME NEW d \in R, NEW p \in SubdirsIn(g, tl, d) PROVE At(tl, p).first \in R \cup C
    <3>1. p \in Named(tl) /\ At(tl, p).type = DIR_ENTRY_TYPE_SUBDIR
      BY <2>3 DEF SubdirsIn
    <3>2. CASE p \in Named(sl)
      <4>1. p \in SubdirsIn(f, sl, d) /\ At(tl, p).first = At(sl, p).first
        BY <1>5, <2>3, <3>2 DEF KeepsTree
      <4>2. At(sl, p).first \in Children(f, sl, d)
        BY <4>1 DEF Children
      <4> QED
        BY <1>3, <2>3, <4>1, <4>2
    <3>3. CASE p \notin Named(sl)
      BY <3>1, <3>3
    <3> QED
      BY <3>2, <3>3
  <2>4. HasTree(g, tl, R \cup C)
    BY <1>3, <2>2, <2>3 DEF HasTree, Children
  <2>5. R \cup C \in SUBSET Clusters
    BY <1>3, <2>1
  <2> QED
    BY <2>4, <2>5, ReachLeast
<1>10. ASSUME NEW d \in T, NEW p \in Named(tl), p[1] \in Chain(g, d) PROVE d \in R
  BY <1>8, <1>9, <1>10
<1>11. ASSUME NEW p \in Named(tl) PROVE \E d \in T : p[1] \in Chain(g, d)
  <2>1. CASE p \in Named(sl)
    <3>1. PICK d \in R : p[1] \in Chain(f, d)
      BY <2>1 DEF TreeOK
    <3> QED
      BY <1>7, <2>1, <3>1 DEF KeepsTree
  <2>2. CASE p \notin Named(sl)
    BY <1>7, <1>11, <2>2 DEF Added
  <2> QED
    BY <2>1, <2>2
<1>12. ASSUME NEW d \in T PROVE NamesOnce(g, tl, d)
  <2> SUFFICES ASSUME NEW p \in Named(tl), NEW q \in Named(tl),
                      p[1] \in Chain(g, d), q[1] \in Chain(g, d),
                      At(tl, p).name = At(tl, q).name
               PROVE  p = q
    BY DEF NamesOnce
  <2>1. d \in R
    BY <1>10, <1>12
  <2>2. CASE p \in Named(sl) /\ q \in Named(sl)
    BY <2>1, <2>2 DEF KeepsTree, TreeOK, NamesOnce
  <2>3. ASSUME NEW x \in Named(sl), NEW y \in New, x[1] \in Chain(g, d), y[1] \in Chain(g, d)
        PROVE  At(tl, x).name # At(tl, y).name
    <3>1. x[1] \in Chain(f, d) /\ At(tl, x).name = At(sl, x).name
      BY <2>1, <2>3 DEF KeepsTree
    <3>2. PICK h \in R : /\ \A k \in R : y[1] \in Chain(g, k) => k = h
                         /\ \A r \in Named(sl) :
                               r[1] \in Chain(f, h) => At(sl, r).name # At(tl, y).name
      BY DEF Added
    <3>3. h = d
      BY <2>1, <2>3, <3>2
    <3> QED
      BY <2>3, <3>1, <3>2, <3>3
  <2> QED
    BY <2>2, <2>3
<1>13. ASSUME NEW d \in T, NEW p \in SubdirsIn(g, tl, d)
       PROVE  DotsRight(tl, At(tl, p).first, d)
  <2>1. p \in Named(tl) /\ p[1] \in Chain(g, d) /\ At(tl, p).type = DIR_ENTRY_TYPE_SUBDIR
    BY <1>13 DEF SubdirsIn
  <2>2. d \in R
    BY <1>10, <2>1
  <2>3. CASE p \in Named(sl)
    <3>1. p \in SubdirsIn(f, sl, d) /\ At(tl, p).first = At(sl, p).first
      BY <1>5, <1>13, <2>2, <2>3 DEF KeepsTree
    <3> QED
      BY <2>2, <3>1 DEF KeepsTree
  <2>4. CASE p \notin Named(sl)
    BY <2>1, <2>2, <2>4 DEF Added
  <2> QED
    BY <2>3, <2>4
<1> QED
  BY <1>2, <1>11, <1>12, <1>13 DEF TreeOK

\* Removing the entry in slot q keeps the tree, if no other entry has its first
\* cluster and, when it is a directory, that is empty.
LEMMA TreeShrinks ==
  ASSUME NEW f, NEW sl, NEW g, NEW tl, TreeOK(f, sl), NEW q \in Named(sl), NEW c,
         c = At(sl, q).first, c # ROOT_CLUSTER_START,
         \A p \in Named(sl) : p # q => At(sl, p).first # c,
         At(sl, q).type = DIR_ENTRY_TYPE_SUBDIR => \A p \in Named(sl) : p[1] \notin Chain(f, c),
         Named(tl) = Named(sl) \ {q}, \A p \in Named(tl) : At(tl, p) = At(sl, p),
         \A d \in Reach(f, sl) \ {c}, p \in Named(tl) : p[1] \in Chain(g, d) <=> p[1] \in Chain(f, d),
         \A d \in Reach(f, sl) : \A p \in SubdirsIn(f, sl, d) : DotsRight(tl, At(sl, p).first, d)
  PROVE  TreeOK(g, tl)
<1> DEFINE R == Reach(f, sl) \ {c}
           T == Reach(g, tl)
<1>1. SubdirsHaveCluster(sl)
  BY DEF TreeOK
<1>2. SubdirsHaveCluster(tl)
  BY <1>1 DEF SubdirsHaveCluster
<1>3. /\ ROOT_CLUSTER_START \in R /\ R \in SUBSET Clusters
      /\ \A d \in Reach(f, sl) : Children(f, sl, d) \subseteq Reach(f, sl)
  BY <1>1, ReachBasics
<1>4. /\ ROOT_CLUSTER_START \in T /\ T \in SUBSET Clusters
      /\ \A d \in T : Children(g, tl, d) \subseteq T
  BY <1>2, ReachBasics
<1>5. ASSUME NEW d \in R, NEW p
      PROVE  p \in SubdirsIn(g, tl, d) <=> p \in SubdirsIn(f, sl, d) /\ p # q
  BY <1>5 DEF SubdirsIn
<1>6. ASSUME c \in Reach(f, sl), NEW p \in Named(sl) PROVE p[1] \notin Chain(f, c)
  <2>1. PICK r \in Named(sl) : /\ At(sl, r).type = DIR_ENTRY_TYPE_SUBDIR
                               /\ At(sl, r).first = c
    BY <1>1, <1>6, ReachParent
  <2> QED
    BY <1>6, <2>1
<1>7. ASSUME NEW d \in R, NEW p \in SubdirsIn(f, sl, d), p # q
      PROVE  At(sl, p).first \in Children(g, tl, d)
  <2>1. p \in SubdirsIn(g, tl, d) /\ At(tl, p) = At(sl, p)
    BY <1>5, <1>7 DEF SubdirsIn
  <2> QED
    BY <2>1 DEF Children
<1>8. R \subseteq T
  <2> DEFINE S == (R \cap T) \cup ({c} \cap Reach(f, sl))
  <2>1. ASSUME NEW d \in S, NEW p \in SubdirsIn(f, sl, d)
        PROVE  At(sl, p).first \in S
    <3>1. p \in Named(sl) /\ p[1] \in Chain(f, d)
      BY <2>1 DEF SubdirsIn
    <3>2. d \in R /\ d \in T
      BY <1>6, <2>1, <3>1
    <3>3. At(sl, p).first \in Reach(f, sl)
      BY <1>3, <2>1, <3>2 DEF Children
    <3>4. CASE p = q
      BY <3>3, <3>4
    <3>5. CASE p # q
      <4>1. At(sl, p).first \in T
        BY <1>4, <1>7, <2>1, <3>2, <3>5
      <4>2. At(sl, p).first # c
        BY <3>1, <3>5
      <4> QED
        BY <3>3, <4>1, <4>2
    <3> QED
      BY <3>4, <3>5
  <2>2. HasTree(f, sl, S)
    BY <1>3, <1>4, <2>1 DEF HasTree, Children
  <2>3. S \in SUBSET Clusters
    BY DEF Reach
  <2>4. Reach(f, sl) \subseteq S
    BY <2>2, <2>3, ReachLeast
  <2> QED
    BY <2>4
<1>9. T \subseteq R
  <2>1. ASSUME NEW d \in R, NEW p \in SubdirsIn(g, tl, d) PROVE At(tl, p).first \in R
    <3>1. p \in SubdirsIn(f, sl, d) /\ p # q /\ p \in Named(sl) /\ At(tl, p) = At(sl, p)
      BY <1>5, <2>1 DEF SubdirsIn
    <3>2. At(sl, p).first \in Reach(f, sl)
      BY <1>3, <2>1, <3>1 DEF Children
    <3> QED
      BY <3>1, <3>2
  <2>2. HasTree(g, tl, R)
    BY <1>3, <2>1 DEF HasTree, Children
  <2> QED
    BY <1>3, <2>2, ReachLeast
<1>10. ASSUME NEW p \in Named(tl) PROVE \E d \in T : p[1] \in Chain(g, d)
  <2>1. PICK d \in Reach(f, sl) : p[1] \in Chain(f, d)
    BY <1>10 DEF TreeOK
  <2>2. d \in R
    BY <1>6, <1>10, <2>1
  <2> QED
    BY <1>8, <1>10, <2>1, <2>2
<1>11. ASSUME NEW d \in T PROVE NamesOnce(g, tl, d)
  <2>1. d \in R /\ NamesOnce(f, sl, d)
    BY <1>9, <1>11 DEF TreeOK
  <2> QED
    BY <2>1 DEF NamesOnce
<1>12. ASSUME NEW d \in T, NEW p \in SubdirsIn(g, tl, d)
       PROVE  DotsRight(tl, At(tl, p).first, d)
  <2>1. d \in R
    BY <1>9, <1>12
  <2>2. p \in SubdirsIn(f, sl, d) /\ At(tl, p) = At(sl, p)
    BY <1>5, <1>12, <2>1 DEF SubdirsIn
  <2> QED
    BY <2>1, <2>2
<1> QED
  BY <1>2, <1>10, <1>11, <1>12 DEF TreeOK

\* In slot p, sl and tl have the same entry but for its size.
SameAt(sl, tl, p) ==
  /\ At(tl, p).name = At(sl, p).name
  /\ At(tl, p).type = At(sl, p).type
  /\ At(tl, p).first = At(sl, p).first

InTree(f, sl, p) == \E d \in Reach(f, sl) : p[1] \in Chain(f, d)

\* A step that changes no slot of a directory but q, and puts no entry anywhere else.
LEMMA TreeStep ==
  ASSUME NEW f \in [Clusters -> Links], NEW sl, NEW g, NEW tl, TreeOK(f, sl), NEW q,
         \A d \in Reach(f, sl), p \in Named(sl) : p[1] \in Chain(g, d) <=> p[1] \in Chain(f, d),
         \A p \in Places : p # q /\ InTree(f, sl, p) => SameAt(sl, tl, p),
         \A p \in Places : p # q /\ ~InTree(f, sl, p) => At(tl, p).name \notin Names,
         q \in Places => q \notin Named(sl) /\ At(tl, q).name \notin {Dot, DotDot},
         q \in Named(tl) => Added(f, sl, g, tl, q)
  PROVE  TreeOK(g, tl)
<1>1. ASSUME NEW p \in Named(sl) PROVE p \in Places /\ p # q /\ InTree(f, sl, p)
  BY <1>1 DEF Named, TreeOK, InTree
<1>2. ASSUME NEW p \in Named(sl) PROVE p \in Named(tl) /\ SameAt(sl, tl, p)
  <2>1. SameAt(sl, tl, p) /\ p \in Places /\ At(sl, p).name \in Names
    BY <1>1, <1>2 DEF Named
  <2> QED
    BY <2>1 DEF Named, SameAt
<1>3. ASSUME NEW p \in Named(tl), p # q PROVE p \in Named(sl)
  <2>1. p \in Places /\ At(tl, p).name \in Names
    BY <1>3 DEF Named
  <2>2. SameAt(sl, tl, p)
    BY <1>3, <2>1
  <2> QED
    BY <2>1, <2>2 DEF SameAt, Named
<1>4. ASSUME NEW d \in Reach(f, sl), NEW p \in SubdirsIn(f, sl, d)
      PROVE  DotsRight(tl, At(sl, p).first, d)
  <2> DEFINE c == At(sl, p).first
  <2>1. DotsRight(sl, c, d) /\ SubdirsHaveCluster(sl)
    BY <1>4 DEF TreeOK
  <2>2. c \in Reach(f, sl) /\ c \in Clusters
    BY <1>4, <2>1, ReachBasics DEF Children
  <2>3. c \in Chain(f, c)
    BY <2>2, ChainBasics
  <2> HIDE DEF c
  <2>4. ASSUME NEW s \in Slots
        PROVE  /\ tl[c][s].name = Dot => tl[c][s].first = c
               /\ tl[c][s].name = DotDot => tl[c][s].first = d
    <3> DEFINE r == <<c, s>>
    <3>1. r \in Places /\ r[1] = c /\ r[2] = s
      BY <2>2 DEF Places
    <3>2. At(tl, r) = tl[c][s] /\ At(sl, r) = sl[c][s]
      BY <3>1 DEF At
    <3>3. InTree(f, sl, r)
      BY <2>2, <2>3, <3>1 DEF InTree
    <3> HIDE DEF r
    <3>4. CASE r = q
      BY <3>1, <3>2, <3>4
    <3>5. CASE r # q
      <4>1. SameAt(sl, tl, r)
        BY <3>1, <3>3, <3>5
      <4>2. /\ sl[c][s].name = Dot => sl[c][s].first = c
            /\ sl[c][s].name = DotDot => sl[c][s].first = d
        BY <2>1 DEF DotsRight
      <4> QED
        BY <3>2, <4>1, <4>2 DEF SameAt
    <3> QED
      BY <3>4, <3>5
  <2> QED
    BY <2>4 DEF DotsRight, c
<1>5. KeepsTree(f, sl, g, tl)
  BY <1>2, <1>4 DEF KeepsTree, SameAt
<1> QED
  BY <1>3, <1>5, TreeGrows

\* The entries that have a cluster, and the clusters they have.
EntriesOf(sl) == {p \in Named(sl) : At(sl, p).first # 0}

Firsts(sl) == {At(sl, p).first : p \in EntriesOf(sl)}

\* What searching returns, for any table and entries: the slot of a name, the
\* subdirectories of d, and the directories that paths lead to.
Found(f, sl, d, name) ==
  LET holding == {x \in Chain(f, d) : \E s \in Slots : sl[x][s].name = name}
  IN  {p \in holding \X Slots :
         /\ At(sl, p).name = name
         /\ \A s \in Slots : sl[p[1]][s].name = name => p[2] <= s
         /\ holding \subseteq Chain(f, p[1])}

SubdirsFound(f, sl, d) ==
  {At(sl, p).first : p \in {p \in UNION {Found(f, sl, d, name) : name \in Names} :
                               At(sl, p).type = DIR_ENTRY_TYPE_SUBDIR}}

DirsFound(f, sl) ==
  LET heads  == {ROOT_CLUSTER_START} \cup Firsts(sl)
      sub    == [d \in heads |-> SubdirsFound(f, sl, d)]
      closed == {S \in SUBSET heads :
                    ROOT_CLUSTER_START \in S /\ \A d \in S : sub[d] \subseteq S}
  IN  heads \ UNION {heads \ S : S \in closed}

\* Searching a directory that has a name once finds it.
LEMMA FindsName ==
  ASSUME NEW f \in [Clusters -> Links], NEW sl, NEW d \in Clusters, NamesOnce(f, sl, d),
         NEW p \in Named(sl), p[1] \in Chain(f, d)
  PROVE  p \in Found(f, sl, d, At(sl, p).name)
<1> DEFINE name == At(sl, p).name
           holding == {x \in Chain(f, d) : \E s \in Slots : sl[x][s].name = name}
<1>1. p \in Places /\ p[1] \in Clusters /\ p[2] \in Slots /\ p = <<p[1], p[2]>>
  BY DEF Named, Places
<1>2. name \in Names /\ At(sl, p).name = name
  BY DEF Named, EntryAt, At
<1>3. Chain(f, d) \subseteq Clusters
  BY ChainBasics
<1> HIDE DEF name
<1>4. ASSUME NEW x \in Chain(f, d), NEW s \in Slots, sl[x][s].name = name
      PROVE  x = p[1] /\ s = p[2]
  <2> DEFINE q == <<x, s>>
  <2>1. q \in Places /\ q[1] = x /\ q[2] = s
    BY <1>3 DEF Places
  <2>2. At(sl, q).name = name
    BY <1>4, <2>1 DEF At
  <2> HIDE DEF q
  <2>3. q \in Named(sl)
    BY <1>2, <2>1, <2>2 DEF Named
  <2>4. p = q
    BY <2>1, <2>2, <2>3 DEF NamesOnce, name
  <2> QED
    BY <2>1, <2>4
<1>5. holding \subseteq {p[1]} /\ p[1] \in holding
  BY <1>1, <1>2, <1>4 DEF At
<1>6. p[1] \in Chain(f, p[1])
  BY <1>1, <1>3, ChainBasics
<1>7. \A s \in Slots : sl[p[1]][s].name = name => p[2] <= s
  <2> SUFFICES ASSUME NEW s \in Slots, sl[p[1]][s].name = name PROVE p[2] <= s
    OBVIOUS
  <2>1. s = p[2] /\ s \in Int
    BY <1>4 DEF Slots
  <2> QED
    BY <2>1
<1>8. holding \subseteq Chain(f, p[1]) /\ p \in holding \X Slots
  BY <1>1, <1>5, <1>6
<1>9. Found(f, sl, d, name) = {r \in holding \X Slots :
            /\ At(sl, r).name = name
            /\ \A s \in Slots : sl[r[1]][s].name = name => r[2] <= s
            /\ holding \subseteq Chain(f, r[1])}
  BY DEF Found
<1> HIDE DEF holding
<1> QED
  BY <1>2, <1>7, <1>8, <1>9 DEF name

\* The subdirectories that a path leads to from d are all that d has.
LEMMA SubdirsAll ==
  ASSUME NEW f \in [Clusters -> Links], NEW sl, TreeOK(f, sl), NEW d \in Reach(f, sl)
  PROVE  /\ SubdirsFound(f, sl, d) = Children(f, sl, d)
         /\ SubdirsFound(f, sl, d) \subseteq Firsts(sl)
<1>1. SubdirsHaveCluster(sl) /\ NamesOnce(f, sl, d)
  BY DEF TreeOK
<1>2. d \in Clusters
  BY DEF Reach
<1>3. Chain(f, d) \subseteq Clusters
  BY <1>2, ChainBasics
<1>4. ASSUME NEW name \in Names, NEW p \in Found(f, sl, d, name),
             At(sl, p).type = DIR_ENTRY_TYPE_SUBDIR
      PROVE  p \in SubdirsIn(f, sl, d) /\ p \in EntriesOf(sl)
  <2>1. p \in Places /\ At(sl, p).name = name
    BY <1>3, <1>4 DEF Found, Places
  <2>2. p[1] \in Chain(f, d)
    BY <1>4 DEF Found
  <2>4. p \in Named(sl)
    BY <1>4, <2>1 DEF Named
  <2>5. At(sl, p).first \in Clusters
    BY <1>1, <1>4, <2>4 DEF SubdirsHaveCluster
  <2>6. At(sl, p).first # 0
    BY <2>5, ZeroNoCluster DEF END_OF_CHAIN
  <2> QED
    BY <1>4, <2>2, <2>4, <2>6 DEF SubdirsIn, EntriesOf
<1>5. ASSUME NEW c \in SubdirsFound(f, sl, d)
      PROVE  c \in Children(f, sl, d) /\ c \in Firsts(sl)
  <2>1. PICK name \in Names : \E p \in Found(f, sl, d, name) :
          At(sl, p).type = DIR_ENTRY_TYPE_SUBDIR /\ c = At(sl, p).first
    BY <1>5 DEF SubdirsFound
  <2>2. PICK p \in Found(f, sl, d, name) :
          At(sl, p).type = DIR_ENTRY_TYPE_SUBDIR /\ c = At(sl, p).first
    BY <2>1
  <2>3. p \in SubdirsIn(f, sl, d) /\ p \in EntriesOf(sl)
    BY <1>4, <2>2
  <2> QED
    BY <2>2, <2>3 DEF Children, Firsts
<1>6. ASSUME NEW c \in Children(f, sl, d) PROVE c \in SubdirsFound(f, sl, d)
  <2>1. PICK p \in SubdirsIn(f, sl, d) : c = At(sl, p).first
    BY <1>6 DEF Children
  <2>2. p \in Named(sl) /\ p[1] \in Chain(f, d) /\ At(sl, p).type = DIR_ENTRY_TYPE_SUBDIR
    BY <2>1 DEF SubdirsIn
  <2>3. p \in Found(f, sl, d, At(sl, p).name) /\ At(sl, p).name \in Names
    BY <1>1, <1>2, <2>2, FindsName DEF Named
  <2> QED
    BY <2>1, <2>2, <2>3 DEF SubdirsFound
<1> QED
  BY <1>5, <1>6

\* Paths lead to all directories below the root.
LEMMA DirsFoundAll ==
  ASSUME NEW f \in [Clusters -> Links], NEW sl \in SlotMap, TreeOK(f, sl)
  PROVE  DirsFound(f, sl) = Reach(f, sl)
<1> DEFINE heads  == {ROOT_CLUSTER_START} \cup Firsts(sl)
           found  == DirsFound(f, sl)
           sub    == [d \in heads |-> SubdirsFound(f, sl, d)]
           R      == Reach(f, sl)
           closed == {S \in SUBSET heads :
                         ROOT_CLUSTER_START \in S /\ \A d \in S : sub[d] \subseteq S}
<1>1. SubdirsHaveCluster(sl)
  BY DEF TreeOK
<1>2. /\ ROOT_CLUSTER_START \in R
      /\ R \in SUBSET Clusters
      /\ \A d \in R : Children(f, sl, d) \subseteq R
  BY <1>1, ReachBasics
<1>3. \A d \in R : SubdirsFound(f, sl, d) = Children(f, sl, d) /\ SubdirsFound(f, sl, d) \subseteq heads
  BY SubdirsAll
<1>4. found = heads \ UNION {heads \ S : S \in closed}
  BY DEF DirsFound
<1>6. ROOT_CLUSTER_START \in heads /\ \A d \in heads : sub[d] = SubdirsFound(f, sl, d)
  OBVIOUS
<1> HIDE DEF heads, sub, found
<1>7. \A d : d \in found <=> d \in heads /\ \A S \in closed : d \in S
  BY <1>4
<1>8. found \subseteq R
  <2>1. R \cap heads \in closed
    BY <1>2, <1>3, <1>6
  <2> QED
    BY <1>7, <2>1
<1>9. HasTree(f, sl, found)
  <2>1. ROOT_CLUSTER_START \in found
    BY <1>6, <1>7
  <2>2. ASSUME NEW d \in found, NEW c \in Children(f, sl, d) PROVE c \in found
    <3>1. d \in R /\ d \in heads /\ c \in sub[d] /\ c \in heads
      BY <1>3, <1>6, <1>7, <1>8, <2>2
    <3>2. ASSUME NEW S \in closed PROVE c \in S
      BY <1>7, <2>2, <3>1, <3>2
    <3> QED
      BY <1>7, <3>1, <3>2
  <2> QED
    BY <2>1, <2>2 DEF HasTree
<1>10. R \subseteq found
  <2>1. found \in SUBSET Clusters
    BY <1>2, <1>8
  <2> QED
    BY <1>9, <2>1, ReachLeast
<1> QED
  BY <1>8, <1>10 DEF found

TreeInv == FatInv /\ TreeOK(fat, slots)

\* The handlers search the table and the entries in memory.
LEMMA SearchIs ==
  /\ Entries = EntriesOf(slots)
  /\ \A d, name : FirstSlot(d, name) = Found(fat, slots, d, name)
  /\ Dirs = DirsFound(fat, slots)
<1>1. Entries = EntriesOf(slots)
  BY DEF Entries, EntriesOf, Named, Places, At, EntryAt
<1>2. ASSUME NEW d, NEW name PROVE FirstSlot(d, name) = Found(fat, slots, d, name)
  BY DEF FirstSlot, Found, At, EntryAt
<1>3. ASSUME NEW d PROVE Subdirs(d) = SubdirsFound(fat, slots, d)
  BY <1>2 DEF Subdirs, SubdirsFound, find_dir_entry_by_name, At, EntryAt
<1>4. {EntryAt(p).first : p \in Entries} = Firsts(slots)
  BY <1>1 DEF Firsts, At, EntryAt
<1> QED
  BY <1>1, <1>2, <1>3, <1>4 DEF Dirs, DirsFound

\* The directories that paths lead to are those below the root.
LEMMA DirsAreReach ==
  ASSUME TreeInv
  PROVE  Dirs = Reach(fat, slots)
<1>1. fat \in [Clusters -> Links] /\ slots \in SlotMap /\ TreeOK(fat, slots)
  BY InvFacts DEF TreeInv
<1> QED
  BY <1>1, SearchIs, DirsFoundAll

\* What is proved of the tree says what the two properties of Fat say.
LEMMA TreeProperties ==
  ASSUME TreeInv
  PROVE  TreeConnected /\ DotsCorrect
<1>1. Dirs = Reach(fat, slots) /\ TreeOK(fat, slots)
  BY DirsAreReach DEF TreeInv
<1>2. ASSUME NEW p \in Entries PROVE p \in Named(slots) /\ At(slots, p) = EntryAt(p)
  BY <1>2 DEF Entries, Named, Places, At, EntryAt
<1>3. TreeConnected
  BY <1>1, <1>2 DEF TreeOK, TreeConnected
<1>4. ASSUME NEW d \in Dirs, NEW p \in Entries, p[1] \in Chain(fat, d),
             EntryAt(p).type = DIR_ENTRY_TYPE_SUBDIR
      PROVE  DotsRight(slots, EntryAt(p).first, d)
  <2>1. p \in SubdirsIn(fat, slots, d)
    BY <1>2, <1>4 DEF SubdirsIn
  <2> QED
    BY <1>1, <1>2, <1>4, <2>1 DEF TreeOK
<1>5. DotsCorrect
  <2> SUFFICES ASSUME NEW d \in Dirs, NEW p \in Entries, p[1] \in Chain(fat, d),
                      EntryAt(p).type = DIR_ENTRY_TYPE_SUBDIR, NEW s \in Slots
               PROVE  /\ slots[EntryAt(p).first][s].name = "." =>
                            slots[EntryAt(p).first][s].first = EntryAt(p).first
                      /\ slots[EntryAt(p).first][s].name = ".." =>
                            slots[EntryAt(p).first][s].first = d
    BY DEF DotsCorrect
  <2>1. DotsRight(slots, EntryAt(p).first, d)
    BY <1>4
  <2> QED
    BY <2>1 DEF DotsRight, Dot, DotDot
<1> QED
  BY <1>3, <1>5

\* A directory is a head of its own and not the free list; the clusters of its
\* entries are in no other chain.
LEMMA TreeFacts ==
  ASSUME TreeInv, NEW d \in Reach(fat, slots)
  PROVE  /\ d \in Heads \ {free} /\ d \in Clusters
         /\ \A h \in Heads : h # d => Chain(fat, h) \cap Chain(fat, d) = {}
<1>1. d \in Dirs /\ FatInv
  BY DirsAreReach DEF TreeInv
<1>2. d \in Heads \ {free} /\ d \in Clusters
  BY <1>1, DirsHeads
<1> QED
  BY <1>1, <1>2, InvFacts, ForestDisjoint

NoName == ""

\* The names that are no names of files and directories.
LEMMA SpecialNames ==
  /\ NoName \notin Names /\ Dot \notin Names /\ DotDot \notin Names
  /\ Dot # DotDot /\ NoName # Dot /\ NoName # DotDot
  BY RequestAssumption DEF NoName, Dot, DotDot

\* The fields of a new entry.
LEMMA NewEntryFields ==
  ASSUME NEW name, NEW type, NEW first
  PROVE  /\ NewEntry(name, type, first).name = name
         /\ NewEntry(name, type, first).type = type
         /\ NewEntry(name, type, first).first = first
  BY DEF NewEntry

\* What PutEntry stores, slot by slot.
LEMMA PutAt ==
  ASSUME NEW sl \in SlotMap, NEW q \in Places, NEW e \in DirEntry
  PROVE  /\ PutEntry(sl, q, e) \in SlotMap
         /\ At(PutEntry(sl, q, e), q) = e
         /\ \A p \in Places : p # q => At(PutEntry(sl, q, e), p) = At(sl, p)
  BY PutEntryAt DEF At

\* What zeroing stores, slot by slot.
LEMMA ZeroedAt ==
  ASSUME NEW sl \in SlotMap, NEW S, NEW p \in Places
  PROVE  /\ p[1] \in S => At(Zeroed(sl, S), p) = FreeSlot
         /\ p[1] \notin S => At(Zeroed(sl, S), p) = At(sl, p)
<1>1. p[1] \in Clusters /\ p[2] \in Slots
  BY DEF Places
<1> QED
  BY <1>1 DEF At, Zeroed, ZeroCluster

\* An entry put into cluster c is in one of its slots; the other slots keep theirs.
LEMMA PutInClusterAt ==
  ASSUME NEW sl \in SlotMap, NEW c \in Clusters, NEW e \in DirEntry, e.name \notin Names
  PROVE  /\ PutInCluster(sl, c, e) \in SlotMap
         /\ \A p \in Places : \/ At(PutInCluster(sl, c, e), p) = At(sl, p)
                              \/ p[1] = c /\ At(PutInCluster(sl, c, e), p) = e
<1>1. PutInCluster(sl, c, e) \in SlotMap
  BY PutInClusterFewer
<1>2. PICK s : PutInCluster(sl, c, e) = PutEntry(sl, <<c, s>>, e)
  BY DEF PutInCluster
<1>3. CASE s \in Slots
  <2>1. <<c, s>> \in Places /\ <<c, s>>[1] = c
    BY <1>3 DEF Places
  <2> QED
    BY <1>1, <1>2, <2>1, PutAt
<1>4. CASE s \notin Slots
  <2>1. [sl[c] EXCEPT ![s] = e] = sl[c]
    BY <1>4 DEF SlotMap
  <2>2. PutEntry(sl, <<c, s>>, e) = [sl EXCEPT ![c] = [sl[c] EXCEPT ![s] = e]]
    BY DEF PutEntry
  <2>3. PutEntry(sl, <<c, s>>, e) = sl
    BY <2>1, <2>2 DEF SlotMap
  <2> QED
    BY <1>1, <1>2, <2>3
<1> QED
  BY <1>3, <1>4

IsDot(e, c)       == e.name = Dot /\ e.first = c
IsDotDot(e, d)    == e.name = DotDot /\ e.first = d

\* AddDots changes slots of the new directory's cluster only, to "." and "..".
LEMMA AddDotsAt ==
  ASSUME NEW sl \in SlotMap, NEW type, NEW c \in Clusters, NEW parent \in Clusters
  PROVE  \A p \in Places :
            \/ At(AddDots(sl, type, c, parent), p) = At(sl, p)
            \/ /\ p[1] = c
               /\ \/ IsDot(At(AddDots(sl, type, c, parent), p), c)
                  \/ IsDotDot(At(AddDots(sl, type, c, parent), p), parent)
<1>1. CASE type # DIR_ENTRY_TYPE_SUBDIR
  BY <1>1 DEF AddDots
<1>2. CASE type = DIR_ENTRY_TYPE_SUBDIR
  <2> DEFINE dot    == NewEntry(Dot, DIR_ENTRY_TYPE_SUBDIR, c)
             dotdot == NewEntry(DotDot, DIR_ENTRY_TYPE_SUBDIR, parent)
             ml     == PutInCluster(sl, c, dot)
             nl     == PutInCluster(ml, c, dotdot)
  <2>1. AddDots(sl, type, c, parent) = nl
    BY <1>2 DEF AddDots, Dot, DotDot
  <2>2. dot \in DirEntry /\ dotdot \in DirEntry
    <3>1. c \in Links /\ parent \in Links
      BY DEF Links
    <3> QED
      BY <3>1, NewEntryType DEF Dot, DotDot
  <2>3. IsDot(dot, c) /\ IsDotDot(dotdot, parent) /\ dot.name \notin Names /\ dotdot.name \notin Names
    BY NewEntryFields, SpecialNames DEF IsDot, IsDotDot
  <2> HIDE DEF dot, dotdot
  <2>4. ml \in SlotMap /\ \A p \in Places : At(ml, p) = At(sl, p) \/ (p[1] = c /\ At(ml, p) = dot)
    <3>1. dot \in DirEntry /\ dot.name \notin Names
      BY <2>2, <2>3
    <3> QED
      BY <3>1, PutInClusterAt, Zenon
  <2> HIDE DEF ml
  <2>5. \A p \in Places : At(nl, p) = At(ml, p) \/ (p[1] = c /\ At(nl, p) = dotdot)
    <3>1. dotdot \in DirEntry /\ dotdot.name \notin Names /\ ml \in SlotMap
      BY <2>2, <2>3, <2>4
    <3> QED
      BY <3>1, PutInClusterAt, Zenon
  <2> HIDE DEF nl
  <2> QED
    BY <2>1, <2>3, <2>4, <2>5
<1> QED
  BY <1>1, <1>2

\* The directories' chains after a step, and an entry's place in them.
SameTreeChains == \A h \in Reach(fat, slots) : Chain(fat', h) = Chain(fat, h)

\* A slot outside the directories holds no entry, and a cluster outside their
\* chains is no directory's.
LEMMA OutsideTree ==
  ASSUME TreeInv, NEW p \in Places
  PROVE  /\ ~InTree(fat, slots, p) => At(slots, p).name \notin Names
         /\ p[1] \in Chain(fat, free) => ~InTree(fat, slots, p)
<1>1. ~InTree(fat, slots, p) => At(slots, p).name \notin Names
  BY DEF TreeInv, TreeOK, InTree, Named
<1>2. ASSUME p[1] \in Chain(fat, free), NEW d \in Reach(fat, slots), p[1] \in Chain(fat, d)
      PROVE  FALSE
  <2>1. d \in Heads \ {free} /\ \A h \in Heads : h # d => Chain(fat, h) \cap Chain(fat, d) = {}
    BY TreeFacts
  <2>2. free # END_OF_CHAIN /\ FatInv
    BY <1>2, ChainOfZero DEF TreeInv
  <2>3. free \in Heads
    BY <2>2, InvFacts
  <2> QED
    BY <1>2, <2>1, <2>3
<1> QED
  BY <1>1, <1>2 DEF InTree

\* A step that changes nothing in the slots of the directories but q, except for
\* sizes, and adds no entry outside them.
KeptSlotsBut(q) ==
  /\ \A p \in Places : p # q /\ InTree(fat, slots, p) => SameAt(slots, slots', p)
  /\ \A p \in Places : p # q /\ ~InTree(fat, slots, p) => At(slots', p).name \notin Names

Nowhere == <<END_OF_CHAIN, 0>>

\* A step that neither adds nor removes an entry keeps the tree.
LEMMA QuietTree ==
  ASSUME TreeInv, SameTreeChains, KeptSlotsBut(Nowhere)
  PROVE  TreeOK(fat', slots')
<1>1. Nowhere \notin Places
  BY ZeroNoCluster DEF Places, Nowhere
<1>2. Nowhere \notin Named(slots')
  BY <1>1 DEF Named
<1>3. fat \in [Clusters -> Links] /\ TreeOK(fat, slots)
  BY InvFacts DEF TreeInv
<1> QED
  BY <1>1, <1>2, <1>3, TreeStep DEF SameTreeChains, KeptSlotsBut

\* tl is slots with the clusters of Z zeroed.
Wiped(tl, Z) ==
  /\ tl \in SlotMap
  /\ \A p \in Places : /\ p[1] \in Z => At(tl, p) = FreeSlot
                       /\ p[1] \notin Z => At(tl, p) = At(slots, p)

\* Zeroing free clusters touches no directory.
LEMMA WipedTree ==
  ASSUME TreeInv, NEW Z, Z \subseteq Chain(fat, free), NEW tl, Wiped(tl, Z)
  PROVE  /\ \A p \in Places : InTree(fat, slots, p) => At(tl, p) = At(slots, p)
         /\ \A p \in Places : ~InTree(fat, slots, p) => At(tl, p).name \notin Names
<1>1. FreeSlot.name \notin Names
  BY FreeSlotType, SpecialNames DEF NoName
<1> QED
  BY <1>1, OutsideTree DEF Wiped

\* Popping clusters and zeroing them changes nothing in the tree; nor do the "."
\* and ".." of a directory that gets no entry.
LEMMA FailedInsertSlots ==
  ASSUME TreeInv, NEW Z, Z \subseteq Chain(fat, free), NEW tl, Wiped(tl, Z),
         NEW c \in Chain(fat, free), c \in Clusters, NEW d \in Clusters, NEW type,
         slots' = tl \/ slots' = AddDots(tl, type, c, d)
  PROVE  KeptSlotsBut(Nowhere)
<1>1. /\ \A p \in Places : InTree(fat, slots, p) => At(tl, p) = At(slots, p)
      /\ \A p \in Places : ~InTree(fat, slots, p) => At(tl, p).name \notin Names
  BY WipedTree
<1>2. tl \in SlotMap
  BY DEF Wiped
<1>3. ASSUME NEW p \in Places
      PROVE  \/ At(slots', p) = At(tl, p)
             \/ p[1] = c /\ At(slots', p).name \notin Names
  <2>1. CASE slots' = tl
    BY <2>1
  <2>2. CASE slots' = AddDots(tl, type, c, d)
    <3>1. \/ At(slots', p) = At(tl, p)
          \/ p[1] = c /\ (IsDot(At(slots', p), c) \/ IsDotDot(At(slots', p), d))
      BY <1>2, <2>2, AddDotsAt
    <3> QED
      BY <3>1, SpecialNames DEF IsDot, IsDotDot
  <2> QED
    BY <2>1, <2>2
<1>4. ASSUME NEW p \in Places, InTree(fat, slots, p) PROVE SameAt(slots, slots', p)
  <2>1. p[1] # c
    BY <1>4, OutsideTree
  <2>2. At(slots', p) = At(slots, p)
    BY <1>1, <1>3, <1>4, <2>1
  <2> QED
    BY <2>2 DEF SameAt
<1>5. ASSUME NEW p \in Places, ~InTree(fat, slots, p) PROVE At(slots', p).name \notin Names
  BY <1>1, <1>3, <1>5
<1> QED
  BY <1>4, <1>5 DEF KeptSlotsBut

\* A new entry e in slot q, for an object whose cluster is the one popped first:
\* every other entry and the new one are there.
LEMMA InsertSlots ==
  ASSUME TreeInv, NEW Z, Z \subseteq Chain(fat, free), free \in Z, free \in Clusters,
         NEW tl, Wiped(tl, Z), NEW d \in Clusters,
         NEW q \in Places, NEW e \in DirEntry, NEW type, q[1] # free,
         \/ slots' = AddDots(PutEntry(tl, q, e), type, free, d)
         \/ slots' = PutEntry(tl, q, e) /\ e.type # DIR_ENTRY_TYPE_SUBDIR
  PROVE  /\ KeptSlotsBut(q)
         /\ At(slots', q) = e
         /\ DotsRight(slots', free, d)
<1> DEFINE ul == PutEntry(tl, q, e)
<1>1. /\ \A p \in Places : InTree(fat, slots, p) => At(tl, p) = At(slots, p)
      /\ \A p \in Places : ~InTree(fat, slots, p) => At(tl, p).name \notin Names
  BY WipedTree
<1>2. /\ ul \in SlotMap
      /\ At(ul, q) = e
      /\ \A p \in Places : p # q => At(ul, p) = At(tl, p)
  BY PutAt DEF Wiped
<1> HIDE DEF ul
<1>3. ASSUME NEW p \in Places
      PROVE  \/ At(slots', p) = At(ul, p)
             \/ p[1] = free /\ (IsDot(At(slots', p), free) \/ IsDotDot(At(slots', p), d))
  <2>1. CASE slots' = ul
    BY <2>1
  <2>2. CASE slots' = AddDots(ul, type, free, d)
    BY <1>2, <2>2, AddDotsAt
  <2> QED
    BY <2>1, <2>2 DEF ul
<1>4. At(slots', q) = e
  BY <1>2, <1>3
<1>5. ASSUME NEW p \in Places, p # q, InTree(fat, slots, p) PROVE SameAt(slots, slots', p)
  <2>1. p[1] # free
    BY <1>5, OutsideTree
  <2>2. At(slots', p) = At(slots, p)
    BY <1>1, <1>2, <1>3, <1>5, <2>1
  <2> QED
    BY <2>2 DEF SameAt
<1>6. ASSUME NEW p \in Places, p # q, ~InTree(fat, slots, p) PROVE At(slots', p).name \notin Names
  <2>1. At(ul, p).name \notin Names
    BY <1>1, <1>2, <1>6
  <2> QED
    BY <1>3, <2>1, SpecialNames DEF IsDot, IsDotDot
<1>7. DotsRight(slots', free, d)
  <2> SUFFICES ASSUME NEW s \in Slots
               PROVE  /\ slots'[free][s].name = Dot => slots'[free][s].first = free
                      /\ slots'[free][s].name = DotDot => slots'[free][s].first = d
    BY DEF DotsRight
  <2> DEFINE p == <<free, s>>
  <2>1. p \in Places /\ p[1] = free /\ p[2] = s
    BY DEF Places
  <2>2. At(slots', p) = slots'[free][s]
    BY <2>1 DEF At
  <2> HIDE DEF p
  <2>3. At(ul, p) = FreeSlot
    BY <1>2, <2>1 DEF Wiped
  <2>4. FreeSlot.name = NoName
    BY FreeSlotType DEF NoName
  <2> QED
    BY <1>3, <2>1, <2>2, <2>3, <2>4, SpecialNames DEF IsDot, IsDotDot
<1> QED
  BY <1>4, <1>5, <1>6, <1>7 DEF KeptSlotsBut

\* The slot q was free and is in the directory d after the step, whose table
\* leaves every other entry where it was: the tree has grown by the entry e.
LEMMA InsertTree ==
  ASSUME TreeInv, NEW d \in Reach(fat, slots), NEW q \in Places, NEW e,
         KeptSlotsBut(q), At(slots', q) = e, DotsRight(slots', free, d), free \in Clusters,
         e.type = DIR_ENTRY_TYPE_SUBDIR => e.first = free,
         e.name \in Names, q \notin Named(slots),
         \A p \in Named(slots) : p[1] \in Chain(fat, d) => At(slots, p).name # e.name,
         q[1] \in Chain(fat', d),
         \A h \in Reach(fat, slots) : h # d => q[1] \notin Chain(fat', h),
         \A h \in Reach(fat, slots), p \in Named(slots) :
            p[1] \in Chain(fat', h) <=> p[1] \in Chain(fat, h),
         \A h \in Reach(fat, slots) : Chain(fat', h) \cap Chain(fat', free) = {}
  PROVE  TreeOK(fat', slots')
<1>1. ASSUME NEW p \in Places, p # q, InTree(fat, slots, p) PROVE SameAt(slots, slots', p)
  BY <1>1 DEF KeptSlotsBut
<1>2. ASSUME NEW p \in Places, p # q, ~InTree(fat, slots, p) PROVE At(slots', p).name \notin Names
  BY <1>2 DEF KeptSlotsBut
<1>3. At(slots', q).name \notin {Dot, DotDot}
  BY SpecialNames
<1>4. ASSUME NEW p \in Named(slots') PROVE p[1] \notin Chain(fat', free)
  <2>1. p \in Places /\ At(slots', p).name \in Names
    BY <1>4 DEF Named
  <2>2. CASE p = q
    <3>1. q[1] \in Chain(fat', d) /\ Chain(fat', d) \cap Chain(fat', free) = {}
      OBVIOUS
    <3> QED
      BY <2>2, <3>1
  <2>3. CASE p # q
    <3>1. PICK h \in Reach(fat, slots) : p[1] \in Chain(fat, h)
      BY <1>2, <2>1, <2>3 DEF InTree
    <3>2. At(slots, p).name = At(slots', p).name
      BY <1>1, <2>1, <2>3, <3>1 DEF InTree, SameAt
    <3>3. p \in Named(slots)
      BY <2>1, <3>2 DEF Named
    <3>4. p[1] \in Chain(fat', h)
      BY <3>1, <3>3
    <3> QED
      BY <3>4
  <2> QED
    BY <2>2, <2>3
<1>5. Added(fat, slots, fat', slots', q)
  <2>1. /\ q[1] \in Chain(fat', d)
        /\ \A h \in Reach(fat, slots) : q[1] \in Chain(fat', h) => h = d
        /\ \A p \in Named(slots) : p[1] \in Chain(fat, d) => At(slots, p).name # At(slots', q).name
    OBVIOUS
  <2>2. At(slots', q).type = DIR_ENTRY_TYPE_SUBDIR =>
           /\ At(slots', q).first \in Clusters
           /\ \A p \in Named(slots') : p[1] \notin Chain(fat', At(slots', q).first)
           /\ DotsRight(slots', At(slots', q).first, d)
    BY <1>4
  <2> QED
    BY <2>1, <2>2, Zenon DEF Added
<1>6. fat \in [Clusters -> Links] /\ TreeOK(fat, slots)
  BY InvFacts DEF TreeInv
<1> QED
  BY <1>1, <1>2, <1>3, <1>5, <1>6, TreeStep

-----------------------------------------------------------------------------
(* The clusters that are lost *)

\* The clusters of the root directory, the free list r and the chains that start
\* in F.
Owned(f, r, F) == Chain(f, r) \cup UNION {Chain(f, h) : h \in F \cup {ROOT_CLUSTER_START}}

\* The clusters that nothing owns are the lost ones.
LEMMA LostUnowned ==
  /\ Entries = EntriesOf(slots) /\ Entries' = EntriesOf(slots')
  /\ Lost = Clusters \ Owned(fat, free, Firsts(slots))
  /\ Lost' = Clusters \ Owned(fat', free', Firsts(slots'))
<1>1. Entries = EntriesOf(slots) /\ Entries' = EntriesOf(slots')
  BY DEF Entries, EntriesOf, Named, Places, At, EntryAt
<1>2. ASSUME NEW f, NEW r, NEW sl
      PROVE  Chain(f, ROOT_CLUSTER_START) \cup Chain(f, r)
                \cup UNION {Chain(f, At(sl, p).first) : p \in EntriesOf(sl)}
             = Owned(f, r, Firsts(sl))
  BY DEF Owned, Firsts
<1>3. Lost = Clusters \ Owned(fat, free, Firsts(slots))
  <2>1. Lost = Clusters \ (Chain(fat, ROOT_CLUSTER_START) \cup Chain(fat, free)
                 \cup UNION {Chain(fat, At(slots, p).first) : p \in EntriesOf(slots)})
    BY <1>1 DEF Lost, At, EntryAt
  <2> QED
    BY <1>2, <2>1
<1>4. Lost' = Clusters \ Owned(fat', free', Firsts(slots'))
  <2>1. Lost' = Clusters \ (Chain(fat', ROOT_CLUSTER_START) \cup Chain(fat', free')
                 \cup UNION {Chain(fat', At(slots', p).first) : p \in EntriesOf(slots')})
    BY <1>1 DEF Lost, At, EntryAt
  <2> QED
    BY <1>2, <2>1
<1> QED
  BY <1>1, <1>3, <1>4

\* The first clusters of the entries are heads.
LEMMA FirstsHeads ==
  ASSUME FatInv
  PROVE  Firsts(slots) \subseteq Heads \ {ROOT_CLUSTER_START, free}
<1>1. ASSUME NEW p \in EntriesOf(slots)
      PROVE  At(slots, p).first \in Heads \ {ROOT_CLUSTER_START, free}
  <2>1. p \in Entries /\ At(slots, p) = EntryAt(p)
    BY <1>1, LostUnowned DEF At, EntryAt
  <2> QED
    BY <2>1, InvFacts
<1> QED
  BY <1>1 DEF Firsts

\* Clusters that one chain and the free list pass to each other stay owned.
LEMMA OwnedSame ==
  ASSUME NEW f, NEW g, NEW r, NEW s, NEW F, NEW c \in F \cup {ROOT_CLUSTER_START},
         \A h \in (F \cup {ROOT_CLUSTER_START}) \ {c} : Chain(g, h) = Chain(f, h),
         Chain(f, c) \cup Chain(f, r) = Chain(g, c) \cup Chain(g, s)
  PROVE  Owned(g, s, F) = Owned(f, r, F)
<1>1. ASSUME NEW x \in Owned(f, r, F) PROVE x \in Owned(g, s, F)
  BY <1>1 DEF Owned
<1>2. ASSUME NEW x \in Owned(g, s, F) PROVE x \in Owned(f, r, F)
  BY <1>2 DEF Owned
<1> QED
  BY <1>1, <1>2

\* What is popped is owned again once an entry has it.
LEMMA OwnedPopped ==
  ASSUME FatInv, free # END_OF_CHAIN,
         NEW k \in Nat \ {0}, k <= count_cluster_in_chain(fat, free),
         NEW a, a = pop_free_clusters(Alloc, k), NEW F, F \subseteq Heads \ {free}
  PROVE  /\ Owned(a.fat, a.free, F) = Owned(fat, free, F) \ Chain(a.fat, free)
         /\ Chain(a.fat, free) \subseteq Owned(fat, free, F)
         /\ Owned(a.fat, a.free, F \cup {free}) = Owned(fat, free, F)
<1> DEFINE K == Heads \cup ({a.free} \ {END_OF_CHAIN})
<1>1. /\ fat \in [Clusters -> Links] /\ Forest(fat, Heads) /\ free \in Heads
      /\ ROOT_CLUSTER_START \in Heads \ {free}
  BY InvFacts
<1>2. /\ a.fat \in [Clusters -> Links]
      /\ a.free \in Links \ Heads
      /\ Forest(a.fat, K)
      /\ \A h \in Heads \ {free} : Chain(a.fat, h) = Chain(fat, h)
  BY Popped
<1>3. Chain(fat, free) = Chain(a.fat, free) \cup Chain(a.fat, a.free)
  BY <1>1, PopChains DEF Alloc
<1>4. ASSUME NEW h \in F \cup {ROOT_CLUSTER_START}
      PROVE  Chain(a.fat, h) = Chain(fat, h) /\ Chain(a.fat, h) \cap Chain(a.fat, free) = {}
  <2>1. h \in Heads \ {free} /\ h \in K /\ free \in K
    BY <1>1, <1>4
  <2> HIDE DEF K
  <2> QED
    BY <1>2, <2>1, ForestDisjoint
<1>5. Chain(a.fat, a.free) \cap Chain(a.fat, free) = {}
  <2>1. CASE a.free = END_OF_CHAIN
    BY <2>1, ChainOfZero
  <2>2. CASE a.free # END_OF_CHAIN
    <3>1. a.free \in K /\ free \in K /\ a.free # free
      BY <1>1, <1>2, <2>2
    <3> HIDE DEF K
    <3> QED
      BY <1>2, <3>1, ForestDisjoint
  <2> QED
    BY <2>1, <2>2
<1> HIDE DEF K
<1> DEFINE U == UNION {Chain(fat, h) : h \in F \cup {ROOT_CLUSTER_START}}
<1>6. UNION {Chain(a.fat, h) : h \in F \cup {ROOT_CLUSTER_START}} = U
  BY <1>4
<1>7. U \cap Chain(a.fat, free) = {}
  BY <1>4
<1>8. UNION {Chain(a.fat, h) : h \in (F \cup {free}) \cup {ROOT_CLUSTER_START}}
        = Chain(a.fat, free) \cup U
  BY <1>4
<1>9. /\ Owned(a.fat, a.free, F) = Chain(a.fat, a.free) \cup U
      /\ Owned(fat, free, F) = Chain(fat, free) \cup U
      /\ Owned(a.fat, a.free, F \cup {free}) = Chain(a.fat, a.free) \cup (Chain(a.fat, free) \cup U)
  BY <1>6, <1>8 DEF Owned
<1> HIDE DEF U
<1> QED
  BY <1>3, <1>5, <1>7, <1>9

\* The entries after a step that adds one at most, in slot q.
LEMMA KeptEntries ==
  ASSUME TreeInv, NEW q, KeptSlotsBut(q), q \notin Named(slots)
  PROVE  /\ EntriesOf(slots') \ {q} = EntriesOf(slots)
         /\ Firsts(slots) = {At(slots', p).first : p \in EntriesOf(slots') \ {q}}
<1>1. ASSUME NEW p \in Named(slots) PROVE p \in Named(slots') /\ SameAt(slots, slots', p) /\ p # q
  <2>1. p \in Places /\ InTree(fat, slots, p) /\ p # q
    BY <1>1 DEF Named, InTree, TreeInv, TreeOK
  <2>2. SameAt(slots, slots', p)
    BY <2>1 DEF KeptSlotsBut
  <2> QED
    BY <1>1, <2>1, <2>2 DEF SameAt, Named
<1>2. ASSUME NEW p \in Named(slots'), p # q PROVE p \in Named(slots)
  <2>1. p \in Places /\ At(slots', p).name \in Names
    BY <1>2 DEF Named
  <2>2. SameAt(slots, slots', p)
    BY <1>2, <2>1 DEF KeptSlotsBut
  <2> QED
    BY <2>1, <2>2 DEF SameAt, Named
<1>3. ASSUME NEW p PROVE p \in EntriesOf(slots') \ {q} <=> p \in EntriesOf(slots)
  BY <1>1, <1>2 DEF EntriesOf, SameAt
<1>4. \A p \in EntriesOf(slots) : At(slots', p).first = At(slots, p).first
  BY <1>1 DEF EntriesOf, SameAt
<1> QED
  BY <1>3, <1>4 DEF Firsts

\* No entry is added or removed.
LEMMA QuietEntries ==
  ASSUME TreeInv, KeptSlotsBut(Nowhere)
  PROVE  Entries' = Entries /\ Firsts(slots') = Firsts(slots)
<1>1. Nowhere \notin Places
  BY ZeroNoCluster DEF Places, Nowhere
<1>2. Nowhere \notin Named(slots) /\ Nowhere \notin EntriesOf(slots')
  BY <1>1 DEF Named, EntriesOf
<1>3. EntriesOf(slots') \ {Nowhere} = EntriesOf(slots') 
  BY <1>2
<1> QED
  BY <1>2, <1>3, KeptEntries, LostUnowned DEF Firsts

\* An entry is added in slot q; one without a cluster is not counted.
LEMMA InsertEntries ==
  ASSUME TreeInv, NEW q \in Places, KeptSlotsBut(q), q \notin Named(slots),
         At(slots', q).name \in Names
  PROVE  /\ At(slots', q).first = 0 => Entries' = Entries /\ Firsts(slots') = Firsts(slots)
         /\ At(slots', q).first # 0 => Firsts(slots') = Firsts(slots) \cup {At(slots', q).first}
<1>1. /\ EntriesOf(slots') \ {q} = EntriesOf(slots)
      /\ Firsts(slots) = {At(slots', p).first : p \in EntriesOf(slots') \ {q}}
  BY KeptEntries
<1>2. q \in EntriesOf(slots') <=> At(slots', q).first # 0
  BY DEF EntriesOf, Named
<1>3. CASE At(slots', q).first = 0
  <2>1. EntriesOf(slots') = EntriesOf(slots') \ {q}
    BY <1>2, <1>3
  <2> QED
    BY <1>1, <1>3, <2>1, LostUnowned DEF Firsts
<1>4. CASE At(slots', q).first # 0
  BY <1>1, <1>2, <1>4 DEF Firsts
<1> QED
  BY <1>3, <1>4

\* The handler dies at an assertion.
Aborts == daemon' = "abort"

\* What the property about lost clusters allows a step.
LossAllowed ==
  \/ Lost' = Lost
  \/ Lost' = Lost \cup {free} /\ Entries' = Entries /\ free \notin Lost
  \/ Lost \subseteq Lost' /\ Aborts

\* A step after which the same clusters are owned.
LEMMA LossNone ==
  ASSUME Owned(fat', free', Firsts(slots')) = Owned(fat, free, Firsts(slots))
  PROVE  LossAllowed
  BY LostUnowned DEF LossAllowed

\* A name that a search of d does not find is not in d.
LEMMA NewName ==
  ASSUME TreeInv, NEW d \in Reach(fat, slots), NEW name, IsNew(d, name),
         NEW p \in Named(slots), p[1] \in Chain(fat, d)
  PROVE  At(slots, p).name # name
<1>1. FatInv /\ d \in Clusters /\ NamesOnce(fat, slots, d)
  BY DEF TreeInv, TreeOK, Reach
<1>2. p \in FirstSlot(d, At(slots, p).name)
  BY <1>1, InvFacts, FindsName, SearchIs
<1> QED
  BY <1>2 DEF IsNew, find_dir_entry_by_name

\* The chain of a cluster popped alone.
LEMMA PopOneChain ==
  ASSUME FatInv, free # END_OF_CHAIN, 1 <= count_cluster_in_chain(fat, free),
         NEW a, a = pop_free_clusters(Alloc, 1)
  PROVE  Chain(a.fat, free) = {free}
<1>1. /\ fat \in [Clusters -> Links] /\ Forest(fat, Heads) /\ free \in Heads
      /\ free \in Clusters /\ free \in Links
  BY InvFacts DEF Forest
<1>2. PopResult(fat, Heads, free, 1, a)
  BY <1>1, PopFreeClusters DEF Alloc
<1>3. a.fat \in [Clusters -> Links] /\ count_cluster_in_chain(a.fat, free) = 1
  BY <1>2 DEF PopResult
<1>4. IsFiniteSet(Chain(a.fat, free)) /\ free \in Chain(a.fat, free)
  BY <1>1, <1>3, ChainFinite, ChainBasics
<1>5. \E x : Chain(a.fat, free) = {x}
  BY <1>3, <1>4, FS_Singleton DEF count_cluster_in_chain
<1> QED
  BY <1>4, <1>5

\* Every outcome of add_dir_entry keeps the tree, and loses the object's cluster
\* only if no entry was added for it.
LEMMA AddDirEntryTree ==
  ASSUME TreeInv, has_free_cluster(Alloc),
         NEW d \in Dirs, NEW name \in Names \cup LongNames, IsNew(d, name),
         NEW type \in {DIR_ENTRY_TYPE_FILE, DIR_ENTRY_TYPE_SUBDIR},
         add_dir_entry(d, name, type)
  PROVE  TreeOK(fat', slots') /\ LossAllowed
<1> DEFINE a  == pop_free_clusters(Alloc, 1)
           sl == Zeroed(slots, {free})
           K  == Heads \cup ({a.free} \ {END_OF_CHAIN})
           R  == Reach(fat, slots)
           F  == Firsts(slots)
<1>0. FatInv /\ d \in R
  BY DirsAreReach DEF TreeInv
<1>1. free # END_OF_CHAIN /\ free \in Links /\ free \in Clusters
  <2>1. free > ROOT_CLUSTER_START
    BY DEF has_free_cluster, Alloc
  <2> QED
    BY <1>0, <2>1, InvFacts, ClusterAssumption DEF END_OF_CHAIN, Links
<1>2. /\ fat \in [Clusters -> Links] /\ Forest(fat, Heads) /\ free \in Heads /\ slots \in SlotMap
  BY <1>0, <1>1, InvFacts
<1>3. \A h \in R : /\ h \in Heads \ {free} /\ h \in Clusters
                   /\ \A k \in Heads : k # h => Chain(fat, k) \cap Chain(fat, h) = {}
  BY TreeFacts
<1>4. free \in Chain(fat, free) /\ Chain(fat, free) \subseteq Clusters
  BY <1>1, <1>2, ChainBasics
<1>5. /\ 1 \in Nat \ {0} /\ 1 <= count_cluster_in_chain(fat, free)
  BY <1>2, PopOne
<1>6. /\ a = [fat |-> a.fat, free |-> a.free]
      /\ a.fat \in [Clusters -> Links]
      /\ a.free \in Links \ Heads
      /\ Forest(a.fat, K)
      /\ \A h \in Heads \ {free} : Chain(a.fat, h) = Chain(fat, h)
  BY <1>0, <1>1, <1>5, Popped
<1>7. Chain(fat, free) = Chain(a.fat, free) \cup Chain(a.fat, a.free)
  BY <1>2, <1>5, PopChains DEF Alloc
<1>8. Wiped(sl, {free})
  <2>1. sl \in SlotMap
    BY <1>2, ZeroedFewer
  <2> QED
    BY <1>2, <2>1, ZeroedAt DEF Wiped
<1>9. \A p \in Named(slots) : p[1] \in Chain(fat, d) => At(slots, p).name # name
  BY <1>0, NewName
<1>10. \/ InsertFails(d, name, type, free, a, sl)
       \/ InsertInSlot(d, name, type, free, a, sl)
       \/ InsertTorn(d, name, type, free, a, sl)
       \/ InsertInNewCluster(d, name, type, free, a, sl)
  BY DEF add_dir_entry
<1>101. /\ Owned(a.fat, a.free, F) = Owned(fat, free, F) \ {free}
        /\ free \in Owned(fat, free, F)
        /\ Owned(a.fat, a.free, F \cup {free}) = Owned(fat, free, F)
  <2>1. F \subseteq Heads \ {free}
    BY <1>0, FirstsHeads
  <2>2. Chain(a.fat, free) = {free}
    BY <1>0, <1>1, <1>5, PopOneChain
  <2>3. /\ Owned(a.fat, a.free, F) = Owned(fat, free, F) \ Chain(a.fat, free)
        /\ Chain(a.fat, free) \subseteq Owned(fat, free, F)
        /\ Owned(a.fat, a.free, F \cup {free}) = Owned(fat, free, F)
    BY <1>0, <1>1, <1>5, <2>1, OwnedPopped
  <2> QED
    BY <2>2, <2>3
<1>102. /\ Lost = Clusters \ Owned(fat, free, F)
        /\ Lost' = Clusters \ Owned(fat', free', Firsts(slots'))
  BY LostUnowned
<1> HIDE DEF a, sl, K, R, F
\* No entry for the popped cluster.
<1>103. ASSUME SetAlloc(a), Entries' = Entries, Firsts(slots') = F PROVE LossAllowed
  <2>1. fat' = a.fat /\ free' = a.free
    BY <1>103 DEF SetAlloc
  <2>2. Owned(fat', free', Firsts(slots')) = Owned(fat, free, F) \ {free}
    BY <1>101, <1>103, <2>1
  <2>3. Lost' = Lost \cup {free} /\ free \notin Lost
    BY <1>1, <1>101, <1>102, <2>2
  <2> QED
    BY <1>103, <2>3 DEF LossAllowed
\* A free slot of the directory.
<1>11. ASSUME NEW p \in FirstSlot(d, NoName)
       PROVE  p \in Places /\ p \notin Named(slots) /\ p[1] \in Chain(fat, d) /\ p[1] # free
  <2>1. p \in Places /\ EntryAt(p).name = NoName
    BY <1>0, <1>3, FirstSlotPlace
  <2>2. p[1] \in Chain(fat, d)
    BY DEF FirstSlot
  <2>3. p \notin Named(slots)
    BY <2>1, SpecialNames DEF Named, At, EntryAt
  <2>4. p[1] # free
    BY <1>0, <1>2, <1>3, <1>4, <2>2
  <2> QED
    BY <2>1, <2>2, <2>3, <2>4
\* The table when nothing but the object's cluster was popped.
<1>12. ASSUME SetAlloc(a)
       PROVE  /\ \A h \in R : Chain(fat', h) = Chain(fat, h)
              /\ \A h \in R : Chain(fat', h) \cap Chain(fat', free) = {}
  <2>1. fat' = a.fat
    BY <1>12 DEF SetAlloc
  <2>2. ASSUME NEW h \in R PROVE Chain(a.fat, h) \cap Chain(a.fat, free) = {}
    <3>1. h \in K /\ free \in K /\ h # free
      BY <1>2, <1>3, <2>2 DEF K
    <3> QED
      BY <1>6, <3>1, ForestDisjoint
  <2> QED
    BY <1>3, <1>6, <2>1, <2>2
<1>13. ASSUME NEW q \in FirstSlot(d, NoName), NEW e \in DirEntry, name \in Names, SetAlloc(a),
              \/ slots' = AddDots(PutEntry(sl, q, e), type, free, d)
              \/ slots' = PutEntry(sl, q, e) /\ e.type # DIR_ENTRY_TYPE_SUBDIR,
              e.type = DIR_ENTRY_TYPE_SUBDIR => e.first = free, e.name = name,
              e.first = 0 \/ e.first = free
       PROVE  TreeOK(fat', slots') /\ LossAllowed
  <2>1. q \in Places /\ q \notin Named(slots) /\ q[1] \in Chain(fat, d) /\ q[1] # free
    BY <1>11
  <2>2. /\ \A h \in R : Chain(fat', h) = Chain(fat, h)
        /\ \A h \in R : Chain(fat', h) \cap Chain(fat', free) = {}
    BY <1>12, <1>13
  <2>3. /\ q[1] \in Chain(fat', d)
        /\ \A h \in R : h # d => q[1] \notin Chain(fat', h)
        /\ \A h \in R, p \in Named(slots) : p[1] \in Chain(fat', h) <=> p[1] \in Chain(fat, h)
    BY <1>0, <1>3, <2>1, <2>2
  <2>4. {free} \subseteq Chain(fat, free) /\ free \in {free} /\ d \in Clusters
    BY <1>0, <1>3, <1>4
  <2>5. KeptSlotsBut(q) /\ At(slots', q) = e /\ DotsRight(slots', free, d)
    BY <1>1, <1>8, <1>13, <2>1, <2>4, InsertSlots
  <2>6. /\ e.first = 0 => Entries' = Entries /\ Firsts(slots') = F
        /\ e.first # 0 => Firsts(slots') = F \cup {e.first}
    BY <1>13, <2>1, <2>5, InsertEntries DEF F
  <2>7. LossAllowed
    <3>1. CASE e.first = 0
      BY <1>13, <1>103, <2>6, <3>1
    <3>2. CASE e.first # 0
      <4>1. Firsts(slots') = F \cup {free} /\ fat' = a.fat /\ free' = a.free
        BY <1>13, <2>6, <3>2 DEF SetAlloc
      <4> QED
        BY <1>101, <1>102, <4>1 DEF LossAllowed
    <3> QED
      BY <3>1, <3>2
  <2> QED
    BY <1>0, <1>1, <1>9, <1>13, <2>1, <2>2, <2>3, <2>5, <2>7, InsertTree DEF R
<1>14. CASE InsertFails(d, name, type, free, a, sl)
  <2>1. SetAlloc(a) /\ slots' = AddDots(sl, type, free, d)
    BY <1>14 DEF InsertFails
  <2>2. SameTreeChains
    BY <1>12, <2>1 DEF SameTreeChains, R
  <2>3. {free} \subseteq Chain(fat, free) /\ d \in Clusters
    BY <1>0, <1>3, <1>4
  <2>4. KeptSlotsBut(Nowhere)
    BY <1>1, <1>4, <1>8, <2>1, <2>3, FailedInsertSlots
  <2>5. Entries' = Entries /\ Firsts(slots') = F
    BY <2>4, QuietEntries DEF F
  <2> QED
    BY <1>103, <2>1, <2>2, <2>4, <2>5, QuietTree
<1>15. CASE InsertInSlot(d, name, type, free, a, sl)
  <2> DEFINE e == NewEntry(name, type, free)
  <2>1. name \in Names /\ SetAlloc(a)
    BY <1>15 DEF InsertInSlot
  <2>2. PICK q \in FirstSlot(d, NoName) : slots' = AddDots(PutEntry(sl, q, e), type, free, d)
    BY <1>15 DEF InsertInSlot, NoName
  <2>3. e \in DirEntry
    BY <1>1, <2>1, NewEntryType
  <2>4. e.first = free /\ e.name = name
    BY NewEntryFields
  <2> HIDE DEF e
  <2> QED
    BY <1>13, <2>1, <2>2, <2>3, <2>4
<1>16. CASE InsertTorn(d, name, type, free, a, sl)
  <2> DEFINE e == TornEntry(name)
  <2>1. name \in Names /\ SetAlloc(a)
    BY <1>16 DEF InsertTorn
  <2>2. PICK q \in FirstSlot(d, NoName) :
           \/ slots' = AddDots(PutEntry(sl, q, e), type, free, d)
           \/ slots' = PutEntry(sl, q, e)
    BY <1>16 DEF InsertTorn, NoName
  <2>3. e = NewEntry(name, DIR_ENTRY_TYPE_FILE, 0) /\ 0 \in Links
    BY DEF TornEntry, Links, END_OF_CHAIN
  <2>4. e \in DirEntry
    BY <2>1, <2>3, NewEntryType
  <2>5. e.type # DIR_ENTRY_TYPE_SUBDIR /\ e.name = name /\ e.first = 0
    BY <2>3, NewEntryFields DEF DIR_ENTRY_TYPE_FILE, DIR_ENTRY_TYPE_SUBDIR
  <2> HIDE DEF e
  <2> QED
    BY <1>13, <2>1, <2>2, <2>4, <2>5
<1>17. CASE InsertInNewCluster(d, name, type, free, a, sl)
  <2> DEFINE e == NewEntry(name, type, free)
             q == <<a.free, 0>>
             b == append_free_clusters([fat |-> a.fat, free |-> a.free], d, 1)
             L == (K \ {a.free}) \cup ({b.free} \ {END_OF_CHAIN})
             zl == Zeroed(sl, {a.free})
             Z == {free, a.free}
  <2>1. /\ name \in Names
        /\ a.free > ROOT_CLUSTER_START
        /\ fat' = b.fat /\ free' = b.free
        /\ slots' = AddDots(PutEntry(zl, q, e), type, free, d)
    <3>1. append_free_clusters(a, d, 1) = b
      BY <1>6
    <3> QED
      BY <1>17, <3>1 DEF InsertInNewCluster, has_free_cluster, SetAlloc, add_free_cluster
  <2>2. /\ a.free # END_OF_CHAIN /\ a.free \in Clusters /\ a.free \in K /\ d \in K
        /\ d # a.free /\ a.free # free
    BY <1>0, <1>1, <1>2, <1>3, <1>6, <2>1, ClusterAssumption DEF END_OF_CHAIN, Links, K
  <2>3. 1 <= count_cluster_in_chain(a.fat, a.free)
    BY <1>6, <2>2, PopOne
  <2>4. /\ b.fat \in [Clusters -> Links]
        /\ Forest(b.fat, L)
        /\ \A h \in K \ {a.free, d} : Chain(b.fat, h) = Chain(a.fat, h)
    <3>1. AppendResult(a.fat, K, a.free, d, 1, b)
      BY <1>5, <1>6, <2>2, <2>3, AppendFreeClusters
    <3> QED
      BY <3>1 DEF AppendResult
  <2>5. /\ Chain(a.fat, d) \subseteq Chain(b.fat, d) /\ a.free \in Chain(b.fat, d)
        /\ Chain(a.fat, d) \cup Chain(a.fat, a.free) = Chain(b.fat, d) \cup Chain(b.fat, b.free)
    BY <1>5, <1>6, <2>2, <2>3, AppendChains
  <2>51. d \in F \cup {ROOT_CLUSTER_START} /\ F \cup {free, ROOT_CLUSTER_START} \subseteq Heads
    <3>1. F \subseteq Heads /\ ROOT_CLUSTER_START \in Heads
      BY <1>0, FirstsHeads, InvFacts DEF F
    <3>2. d = ROOT_CLUSTER_START \/ \E p \in Entries : d = EntryAt(p).first
      BY DEF Dirs
    <3>3. d \in F \cup {ROOT_CLUSTER_START}
      BY <3>2, LostUnowned DEF F, Firsts, At, EntryAt
    <3> QED
      BY <1>2, <3>1, <3>3
  <2>52. Owned(b.fat, b.free, F \cup {free}) = Owned(fat, free, F)
    <3> DEFINE G == F \cup {free}
    <3>1. d \in G \cup {ROOT_CLUSTER_START}
      BY <2>51
    <3>2. \A h \in (G \cup {ROOT_CLUSTER_START}) \ {d} : Chain(b.fat, h) = Chain(a.fat, h)
      BY <1>6, <2>4, <2>51 DEF K
    <3> HIDE DEF G
    <3>3. Owned(b.fat, b.free, G) = Owned(a.fat, a.free, G)
      BY <2>5, <3>1, <3>2, OwnedSame
    <3> QED
      BY <1>101, <3>3 DEF G
  <2> HIDE DEF b
  <2>6. R \subseteq L /\ free \in L
    BY <1>2, <1>3, <1>6, <2>2 DEF K
  <2>7. q \in Places /\ q[1] = a.free
    BY <2>2, SlotZero DEF Places
  <2>8. a.free \in Chain(fat, free)
    BY <1>6, <1>7, <2>2, ChainBasics
  <2>9. Wiped(zl, Z)
    <3>1. zl \in SlotMap
      BY <1>8, ZeroedFewer DEF Wiped
    <3>2. ASSUME NEW p \in Places
          PROVE  /\ p[1] \in Z => At(zl, p) = FreeSlot
                 /\ p[1] \notin Z => At(zl, p) = At(slots, p)
      <4>1. /\ p[1] = a.free => At(zl, p) = FreeSlot
            /\ p[1] # a.free => At(zl, p) = At(sl, p)
        BY <1>8, ZeroedAt DEF Wiped
      <4>2. /\ p[1] = free => At(sl, p) = FreeSlot
            /\ p[1] # free => At(sl, p) = At(slots, p)
        BY <1>8 DEF Wiped
      <4> QED
        BY <4>1, <4>2
    <3> QED
      BY <3>1, <3>2 DEF Wiped
  <2> HIDE DEF zl
  <2>10. Z \subseteq Chain(fat, free) /\ free \in Z
    BY <1>4, <2>8
  <2> HIDE DEF Z
  <2>11. e \in DirEntry /\ e.name = name /\ e.first = free
    <3>1. e \in DirEntry
      BY <1>1, <2>1, NewEntryType
    <3> QED
      BY <3>1, NewEntryFields
  <2> HIDE DEF e, q
  <2>12. q \notin Named(slots)
    <3>1. ~InTree(fat, slots, q)
      BY <2>7, <2>8, OutsideTree
    <3> QED
      BY <2>7, <3>1, OutsideTree DEF Named
  <2>13. ASSUME NEW h \in R
         PROVE  /\ Chain(b.fat, h) \cap Chain(b.fat, free) = {}
                /\ h # d => q[1] \notin Chain(b.fat, h)
    <3>1. h \in L /\ free \in L /\ d \in L /\ h # free
      BY <1>0, <1>3, <2>6, <2>13
    <3> QED
      BY <2>4, <2>5, <2>7, <3>1, ForestDisjoint
  <2>14. ASSUME NEW h \in R, NEW p \in Named(slots)
         PROVE  p[1] \in Chain(b.fat, h) <=> p[1] \in Chain(fat, h)
    <3>1. h \in Heads \ {free} /\ Chain(a.fat, h) = Chain(fat, h)
      BY <1>3, <1>6, <2>14
    <3>2. CASE h # d
      BY <1>6, <2>4, <3>1, <3>2 DEF K
    <3>3. CASE h = d
      <4>1. ASSUME p[1] \in Chain(b.fat, d), p[1] \notin Chain(fat, d) PROVE FALSE
        <5>1. p[1] \in Chain(a.fat, a.free)
          BY <2>5, <3>1, <3>3, <4>1
        <5>2. p[1] \in Chain(fat, free) /\ p \in Places
          BY <1>7, <2>14, <5>1 DEF Named
        <5> QED
          BY <2>14, <5>2, OutsideTree DEF Named
      <4> QED
        BY <2>5, <3>1, <3>3, <4>1
    <3> QED
      BY <3>2, <3>3
  <2>15. e.name \in Names /\ q[1] # free
    BY <2>1, <2>2, <2>7, <2>11
  <2>16. KeptSlotsBut(q) /\ At(slots', q) = e /\ DotsRight(slots', free, d)
    BY <1>0, <1>1, <1>3, <2>1, <2>7, <2>9, <2>10, <2>11, <2>15, InsertSlots
  <2>17. LossAllowed
    <3>1. e.first # 0
      BY <1>1, <2>11, ZeroNoCluster DEF END_OF_CHAIN
    <3>2. Firsts(slots') = F \cup {free}
      BY <2>7, <2>11, <2>12, <2>15, <2>16, <3>1, InsertEntries DEF F
    <3> QED
      BY <1>102, <2>1, <2>52, <3>2 DEF LossAllowed
  <2> QED
    BY <1>0, <1>1, <1>9, <2>1, <2>5, <2>7, <2>11, <2>17, <2>12, <2>13, <2>14, <2>15, <2>16,
       InsertTree DEF R
<1> QED
  BY <1>10, <1>14, <1>15, <1>16, <1>17

\* Removing a file or an empty directory keeps the tree.
LEMMA RemoveObjectTree ==
  ASSUME TreeInv, NEW q \in Entries, RemoveObject(q),
         EntryAt(q).type = DIR_ENTRY_TYPE_SUBDIR => is_dir_empty(EntryAt(q).first)
  PROVE  TreeOK(fat', slots') /\ LossAllowed
<1> DEFINE c == EntryAt(q).first
           b == free_cluster_chain([fat |-> fat, free |-> free], c)
           R == Reach(fat, slots)
<1>1. FatInv /\ TreeOK(fat, slots)
  BY DEF TreeInv
<1>2. /\ fat \in [Clusters -> Links] /\ slots \in SlotMap /\ Forest(fat, Heads)
      /\ free \in Heads \cup {END_OF_CHAIN}
      /\ c \in Heads \ {ROOT_CLUSTER_START, free} /\ q \in Places /\ c \in Clusters
  BY <1>1, InvFacts DEF Forest
<1>3. fat' = b.fat /\ slots' = PutEntry(slots, q, FreeSlot) /\ free' = c
  BY DEF RemoveObject, SetAlloc, Alloc, free_cluster_chain
<1>4. q \in Named(slots) /\ At(slots, q) = EntryAt(q)
  BY DEF Entries, Named, Places, At, EntryAt
<1>5. ASSUME EntryAt(q).type = DIR_ENTRY_TYPE_SUBDIR, NEW p \in Named(slots)
      PROVE  p[1] \notin Chain(fat, c)
  <2>1. p \in Places /\ p[2] \in Slots /\ slots[p[1]][p[2]].name \in Names
    BY <1>5 DEF Named, Places, At
  <2>2. ASSUME p[1] \in Chain(fat, c) PROVE slots[p[1]][p[2]].name \in {NoName, Dot, DotDot}
    BY <1>5, <2>1, <2>2 DEF is_dir_empty, NoName, Dot, DotDot
  <2> QED
    BY <2>1, <2>2, SpecialNames
<1>6. ASSUME NEW p \in Named(slots), p # q PROVE At(slots, p).first # c
  <2>1. c # 0
    BY <1>2, ZeroNoCluster DEF END_OF_CHAIN
  <2>2. CASE At(slots, p).first # 0
    <3>1. p \in Entries /\ At(slots, p) = EntryAt(p)
      BY <1>6, <2>2 DEF Named, Entries, Places, At, EntryAt
    <3> QED
      BY <1>1, <1>6, <3>1 DEF FatInv
  <2> QED
    BY <2>1, <2>2
<1> HIDE DEF c
<1>7. \A h \in Heads \ {c} : Chain(b.fat, h) = Chain(fat, h)
  BY <1>2, FreeClusterChainOthers
<1>71. Chain(b.fat, c) = Chain(fat, c) \cup Chain(fat, free)
  BY <1>2, FreeChains
<1> HIDE DEF b
<1>8. /\ At(slots', q) = FreeSlot
      /\ \A p \in Places : p # q => At(slots', p) = At(slots, p)
  <2>1. FreeSlot \in DirEntry
    BY FreeSlotType
  <2>2. slots \in SlotMap /\ q \in Places
    BY <1>2
  <2>3. /\ At(PutEntry(slots, q, FreeSlot), q) = FreeSlot
        /\ \A p \in Places : p # q => At(PutEntry(slots, q, FreeSlot), p) = At(slots, p)
    BY <2>1, <2>2, PutAt
  <2> QED
    BY <1>3, <2>3
<1>9. FreeSlot.name = NoName
  BY FreeSlotType DEF NoName
<1>10. Named(slots') = Named(slots) \ {q}
  BY <1>8, <1>9, SpecialNames DEF Named
<1>11. \A p \in Named(slots') : At(slots', p) = At(slots, p)
  BY <1>8, <1>10 DEF Named
<1>12. \A d \in R \ {c}, p \in Named(slots') : p[1] \in Chain(fat', d) <=> p[1] \in Chain(fat, d)
  BY <1>3, <1>7, TreeFacts
<1>13. ASSUME NEW d \in R, NEW p \in SubdirsIn(fat, slots, d)
       PROVE  DotsRight(slots', At(slots, p).first, d)
  <2> DEFINE x == At(slots, p).first
  <2>1. DotsRight(slots, x, d) /\ x \in Clusters
    BY <1>1, <1>13 DEF TreeOK, SubdirsHaveCluster, SubdirsIn
  <2> HIDE DEF x
  <2>2. ASSUME NEW s \in Slots
        PROVE  slots'[x][s] = slots[x][s] \/ slots'[x][s].name = NoName
    <3> DEFINE r == <<x, s>>
    <3>1. r \in Places /\ At(slots', r) = slots'[x][s] /\ At(slots, r) = slots[x][s]
      BY <2>1 DEF Places, At
    <3> HIDE DEF r
    <3> QED
      BY <1>8, <1>9, <3>1
  <2> QED
    BY <2>1, <2>2, SpecialNames DEF DotsRight, x
<1>14. c = At(slots, q).first /\ c # ROOT_CLUSTER_START
  BY <1>2, <1>4 DEF c
<1>15. At(slots, q).type = DIR_ENTRY_TYPE_SUBDIR => \A p \in Named(slots) : p[1] \notin Chain(fat, c)
  BY <1>4, <1>5 DEF c
<1>16. TreeOK(fat', slots')
  BY <1>1, <1>4, <1>6, <1>10, <1>11, <1>12, <1>13, <1>14, <1>15, TreeShrinks DEF c
<1>17. LossAllowed
  <2> DEFINE F == Firsts(slots)
             G == Firsts(slots')
  <2>1. c \in F /\ c # 0
    BY <1>2, <1>4, <1>14, ZeroNoCluster DEF Firsts, EntriesOf, END_OF_CHAIN
  <2>2. EntriesOf(slots') = EntriesOf(slots) \ {q}
    BY <1>10, <1>11 DEF EntriesOf
  <2>3. G = {At(slots, p).first : p \in EntriesOf(slots) \ {q}}
    BY <1>11, <2>2 DEF Firsts, EntriesOf
  <2>4. G = F \ {c}
    BY <1>6, <1>14, <2>3 DEF Firsts, EntriesOf
  <2>5. F \cup {ROOT_CLUSTER_START} \subseteq Heads
    BY <1>1, FirstsHeads, InvFacts
  <2> HIDE DEF F, G
  <2>6. ASSUME NEW x PROVE x \in Owned(b.fat, c, G) <=> x \in Owned(fat, free, F)
    <3>1. \A h \in (F \cup {ROOT_CLUSTER_START}) \ {c} : Chain(b.fat, h) = Chain(fat, h)
      BY <1>7, <2>5
    <3>2. (G \cup {ROOT_CLUSTER_START}) = (F \cup {ROOT_CLUSTER_START}) \ {c}
      BY <1>14, <2>4
    <3>3. x \in Owned(b.fat, c, G) <=> (x \in Chain(b.fat, c) \/
             \E h \in (F \cup {ROOT_CLUSTER_START}) \ {c} : x \in Chain(b.fat, h))
      BY <3>2 DEF Owned
    <3>4. x \in Owned(fat, free, F) <=> (x \in Chain(fat, free) \/
             \E h \in F \cup {ROOT_CLUSTER_START} : x \in Chain(fat, h))
      BY DEF Owned
    <3> QED
      BY <1>71, <2>1, <3>1, <3>3, <3>4
  <2>7. Owned(b.fat, c, G) = Owned(fat, free, F)
    BY <2>6
  <2> QED
    BY <1>3, <2>7, LossNone DEF F, G
<1> QED
  BY <1>16, <1>17

\* Changing the size of a file keeps the tree.
LEMMA ResizedTree ==
  ASSUME TreeInv, NEW q \in Named(slots), EntryAt(q).type = DIR_ENTRY_TYPE_FILE,
         NEW n \in Nat, NEW Z, Z \subseteq Chain(fat, free), NEW zl, Wiped(zl, Z),
         slots' = PutEntry(zl, q, WithSize(EntryAt(q), n)),
         \A h \in Heads \ {free, EntryAt(q).first} : Chain(fat', h) = Chain(fat, h)
  PROVE  TreeOK(fat', slots') /\ Firsts(slots') = Firsts(slots)
<1> DEFINE c == EntryAt(q).first
           e == WithSize(EntryAt(q), n)
<1>1. FatInv /\ TreeOK(fat, slots)
  BY DEF TreeInv
<1>2. q \in Places /\ At(slots, q) = EntryAt(q) /\ slots \in SlotMap
  BY <1>1, InvFacts DEF Named, At, EntryAt
<1>3. EntryAt(q) \in DirEntry
  BY <1>2 DEF EntryAt, SlotMap, Places
<1>4. e \in DirEntry /\ e.type = EntryAt(q).type /\ e.first = EntryAt(q).first
  BY <1>3, WithSizeFields
<1>5. e.name = EntryAt(q).name
  BY DEF WithSize
<1> HIDE DEF e
<1>6. /\ At(slots', q) = e
      /\ \A p \in Places : p # q => At(slots', p) = At(zl, p)
  <2>1. slots' = PutEntry(zl, q, e) /\ zl \in SlotMap
    BY DEF Wiped, e
  <2> QED
    BY <1>2, <1>4, <2>1, PutAt
<1>7. /\ \A p \in Places : InTree(fat, slots, p) => At(zl, p) = At(slots, p)
      /\ \A p \in Places : ~InTree(fat, slots, p) => At(zl, p).name \notin Names
  BY WipedTree
<1>8. InTree(fat, slots, q)
  BY <1>1 DEF TreeOK, InTree
<1>9. ASSUME NEW p \in Places, InTree(fat, slots, p) PROVE SameAt(slots, slots', p)
  <2>1. CASE p = q
    BY <1>2, <1>4, <1>5, <1>6, <2>1 DEF SameAt
  <2>2. CASE p # q
    BY <1>6, <1>7, <1>9, <2>2 DEF SameAt
  <2> QED
    BY <2>1, <2>2
<1>10. ASSUME NEW p \in Places, ~InTree(fat, slots, p) PROVE At(slots', p).name \notin Names
  BY <1>6, <1>7, <1>8, <1>10
<1>11. ASSUME NEW h \in Reach(fat, slots) PROVE h # c
  <2>1. SubdirsHaveCluster(slots)
    BY <1>1 DEF TreeOK
  <2>2. CASE h = ROOT_CLUSTER_START
    <3>1. CASE c = 0
      BY <2>2, <3>1, RootCluster, ZeroNoCluster DEF END_OF_CHAIN
    <3>2. CASE c # 0
      <4>1. q \in Entries
        BY <1>2, <3>2 DEF Named, Entries, Places
      <4> QED
        BY <1>1, <2>2, <4>1, InvFacts
    <3> QED
      BY <3>1, <3>2
  <2>3. CASE \E p \in Named(slots) : /\ At(slots, p).type = DIR_ENTRY_TYPE_SUBDIR
                                     /\ At(slots, p).first = h
    <3>1. PICK p \in Named(slots) : /\ At(slots, p).type = DIR_ENTRY_TYPE_SUBDIR
                                    /\ At(slots, p).first = h
      BY <2>3
    <3>2. h \in Clusters /\ h # 0
      BY <2>1, <3>1, ZeroNoCluster DEF SubdirsHaveCluster, END_OF_CHAIN
    <3>3. p # q
      BY <1>2, <3>1 DEF DIR_ENTRY_TYPE_FILE, DIR_ENTRY_TYPE_SUBDIR
    <3>4. At(slots, p) = EntryAt(p) /\ p \in Entries
      BY <3>1, <3>2 DEF Named, Entries, Places, At, EntryAt
    <3>5. ASSUME h = c PROVE FALSE
      <4>1. q \in Entries
        BY <1>2, <3>2, <3>5 DEF Named, Entries, Places
      <4> QED
        BY <1>1, <3>1, <3>3, <3>4, <3>5, <4>1 DEF FatInv
    <3> QED
      BY <3>5
  <2> QED
    BY <1>11, <2>1, <2>2, <2>3, ReachParent
<1>12. SameTreeChains
  BY <1>11, TreeFacts DEF SameTreeChains
<1>13. KeptSlotsBut(Nowhere)
  BY <1>9, <1>10 DEF KeptSlotsBut
<1> QED
  BY <1>12, <1>13, QuietTree, QuietEntries

\* A step that changes neither table nor entries.
LEMMA SameTree ==
  ASSUME TreeInv, UNCHANGED <<fat, free, slots>>
  PROVE  TreeOK(fat', slots') /\ LossAllowed
  BY LossNone DEF TreeInv

\* Clusters that an object and the free list pass to each other are not lost.
LEMMA PassedAround ==
  ASSUME FatInv, NEW p \in Entries, Firsts(slots') = Firsts(slots),
         \A h \in Heads \ {free, EntryAt(p).first} : Chain(fat', h) = Chain(fat, h),
         Chain(fat, EntryAt(p).first) \cup Chain(fat, free)
            = Chain(fat', EntryAt(p).first) \cup Chain(fat', free')
  PROVE  LossAllowed
<1> DEFINE c == EntryAt(p).first
           F == Firsts(slots)
<1>1. c \in F
  BY LostUnowned DEF Firsts, At, EntryAt
<1>2. F \cup {ROOT_CLUSTER_START} \subseteq Heads \ {free}
  BY FirstsHeads, InvFacts
<1> HIDE DEF F
<1>3. \A h \in (F \cup {ROOT_CLUSTER_START}) \ {c} : Chain(fat', h) = Chain(fat, h)
  BY <1>2
<1> HIDE DEF c
<1>4. Chain(fat, c) \cup Chain(fat, free) = Chain(fat', c) \cup Chain(fat', free')
  BY DEF c
<1>5. Owned(fat', free', F) = Owned(fat, free, F)
  BY <1>1, <1>3, <1>4, OwnedSame
<1> QED
  BY <1>5, LossNone DEF F

\* Every outcome of update_file keeps the tree, and what it pops is lost only if
\* it dies.
LEMMA UpdateFileTree ==
  ASSUME TreeInv, NEW p \in Named(slots), EntryAt(p).type = DIR_ENTRY_TYPE_FILE,
         NEW size \in Nat, NEW offset \in Nat, NEW ok, NEW fail,
         update_file(p, size, offset, ok, fail)
  PROVE  TreeOK(fat', slots') /\ LossAllowed
<1> DEFINE e      == EntryAt(p)
           final  == (offset + size + UINT_RANGE - 1) % UINT_RANGE
           end    == (final + 1) % UINT_RANGE
           need   == (final \div BYTE_PER_CLUSTER) + 1
           have   == count_cluster_in_chain(fat, e.first)
           more   == need - have
           popped == pop_free_clusters(Alloc, more)
           Z      == Chain(popped.fat, free)
           zl     == Zeroed(slots, Z)
           n      == IF end > e.size THEN end ELSE e.size
<1>1. \/ /\ slots' = PutEntry(slots, p, WithSize(e, n))
         /\ UNCHANGED <<fat, free>>
      \/ /\ more \in 1 .. free_count(Alloc)
         /\ e.first # 0
         /\ SetAlloc(append_free_clusters(Alloc, e.first, more))
         /\ slots' = PutEntry(zl, p, WithSize(e, n))
      \/ /\ more \in 1 .. free_count(Alloc)
         /\ SetAlloc(popped)
         /\ slots' = zl
         /\ Aborts
      \/ UNCHANGED <<fat, free, slots>>
  BY DEF update_file, WildRead, Return, Aborts
<1>2. /\ FatInv /\ fat \in [Clusters -> Links] /\ slots \in SlotMap /\ Forest(fat, Heads)
      /\ free \in Links /\ p \in Places
  BY InvFacts DEF TreeInv, Named
<1>3. e \in DirEntry /\ e.first \in Links /\ e.size \in Nat
  <2>1. e \in DirEntry
    BY <1>2 DEF EntryAt, SlotMap, Places
  <2> HIDE DEF e
  <2> QED
    BY <2>1 DEF DirEntry
<1>4. BYTE_PER_CLUSTER \in Nat \ {0} /\ UINT_RANGE \in Nat \ {0}
  BY ClusterSize
<1>5. final \in Nat
  <2>1. offset + size + UINT_RANGE - 1 \in Nat
    BY <1>4
  <2> QED
    BY <1>4, <2>1, ModBound
<1>6. end \in Nat
  <2>1. final + 1 \in Nat
    BY <1>5
  <2> QED
    BY <1>4, <2>1, ModBound
<1>7. need \in Nat
  <2>1. final \div BYTE_PER_CLUSTER \in Nat
    BY <1>4, <1>5, DivBound
  <2> QED
    BY <2>1
<1>8. have \in Nat /\ count_cluster_in_chain(fat, free) \in Nat
  BY <1>2, <1>3, ChainFinite
<1> HIDE DEF final, end, need, have
<1>9. n \in Nat
  BY <1>3, <1>6
<1>10. free_count(Alloc) = count_cluster_in_chain(fat, free)
  BY DEF free_count, Alloc
<1>11. more \in 1 .. free_count(Alloc) =>
         /\ more \in Nat \ {0} /\ more <= count_cluster_in_chain(fat, free)
         /\ free # END_OF_CHAIN /\ free \in Heads /\ free \in Clusters
  <2> SUFFICES ASSUME more \in 1 .. free_count(Alloc)
               PROVE  /\ more \in Nat \ {0} /\ more <= count_cluster_in_chain(fat, free)
                      /\ free # END_OF_CHAIN /\ free \in Heads /\ free \in Clusters
    OBVIOUS
  <2>1. more \in Nat \ {0} /\ more <= count_cluster_in_chain(fat, free)
    BY <1>8, <1>10
  <2>2. free # END_OF_CHAIN
    BY <2>1, CountZero
  <2> QED
    BY <1>2, <2>1, <2>2, InvFacts DEF Forest
<1> HIDE DEF more, n
<1>12. ASSUME more \in 1 .. free_count(Alloc)
       PROVE  /\ Z \subseteq Chain(fat, free)
              /\ \A h \in Heads \ {free} : Chain(popped.fat, h) = Chain(fat, h)
  <2>1. Chain(fat, free) = Z \cup Chain(popped.fat, popped.free)
    BY <1>2, <1>11, <1>12, PopChains DEF Alloc
  <2>2. \A h \in Heads \ {free} : Chain(popped.fat, h) = Chain(fat, h)
    BY <1>2, <1>11, <1>12, Popped
  <2> QED
    BY <2>1, <2>2
<1>13. Wiped(zl, Z)
  <2>1. zl \in SlotMap
    BY <1>2, ZeroedFewer
  <2> QED
    BY <1>2, <2>1, ZeroedAt DEF Wiped
<1>14. Wiped(slots, {}) /\ {} \subseteq Chain(fat, free)
  BY <1>2 DEF Wiped
<1> HIDE DEF zl, Z
<1>15. CASE slots' = PutEntry(slots, p, WithSize(e, n)) /\ UNCHANGED <<fat, free>>
  <2>1. \A h \in Heads \ {free, EntryAt(p).first} : Chain(fat', h) = Chain(fat, h)
    BY <1>15
  <2>2. TreeOK(fat', slots') /\ Firsts(slots') = Firsts(slots)
    BY <1>9, <1>14, <1>15, <2>1, ResizedTree
  <2> QED
    BY <1>15, <2>2, LossNone
<1>16. CASE /\ more \in 1 .. free_count(Alloc)
            /\ e.first # 0
            /\ SetAlloc(append_free_clusters(Alloc, e.first, more))
            /\ slots' = PutEntry(zl, p, WithSize(e, n))
  <2> DEFINE b == append_free_clusters([fat |-> fat, free |-> free], e.first, more)
  <2>1. fat' = b.fat /\ free' = b.free
    BY <1>16 DEF SetAlloc, Alloc
  <2>2. p \in Entries
    BY <1>16 DEF Entries, Named, Places, At, EntryAt
  <2>3. e.first \in Heads /\ e.first # free
    BY <1>2, <2>2, InvFacts
  <2>4. AppendResult(fat, Heads, free, e.first, more, b)
    BY <1>2, <1>11, <1>16, <2>3, AppendFreeClusters
  <2>41. Chain(fat, e.first) \cup Chain(fat, free) = Chain(b.fat, e.first) \cup Chain(b.fat, b.free)
    BY <1>2, <1>11, <1>16, <2>3, AppendChains
  <2> HIDE DEF b
  <2>5. \A h \in Heads \ {free, EntryAt(p).first} : Chain(fat', h) = Chain(fat, h)
    BY <2>1, <2>4 DEF AppendResult
  <2>6. TreeOK(fat', slots') /\ Firsts(slots') = Firsts(slots)
    BY <1>9, <1>12, <1>13, <1>16, <2>5, ResizedTree
  <2>7. Chain(fat, e.first) \cup Chain(fat, free) = Chain(fat', e.first) \cup Chain(fat', free')
    BY <2>1, <2>41
  <2> QED
    BY <1>2, <2>2, <2>5, <2>6, <2>7, PassedAround
<1>17. CASE /\ more \in 1 .. free_count(Alloc)
            /\ SetAlloc(popped)
            /\ slots' = zl
            /\ Aborts
  <2>1. fat' = popped.fat /\ free' = popped.free
    BY <1>17 DEF SetAlloc
  <2>11. Owned(popped.fat, popped.free, Firsts(slots)) \subseteq Owned(fat, free, Firsts(slots))
    <3>1. Firsts(slots) \subseteq Heads \ {free}
      BY <1>2, FirstsHeads
    <3>2. Owned(popped.fat, popped.free, Firsts(slots))
            = Owned(fat, free, Firsts(slots)) \ Chain(popped.fat, free)
      BY <1>2, <1>11, <1>17, <3>1, OwnedPopped
    <3> QED
      BY <3>2
  <2> HIDE DEF popped
  <2>2. SameTreeChains
    BY <1>12, <1>17, <2>1, TreeFacts DEF SameTreeChains
  <2>3. free \in Chain(fat, free) /\ free \in Clusters
    BY <1>2, <1>11, <1>17, ChainBasics
  <2>4. KeptSlotsBut(Nowhere)
    BY <1>12, <1>13, <1>17, <2>3, FailedInsertSlots
  <2>5. Firsts(slots') = Firsts(slots)
    BY <2>4, QuietEntries
  <2>6. Lost \subseteq Lost'
    BY <2>1, <2>5, <2>11, LostUnowned
  <2> QED
    BY <1>17, <2>2, <2>4, <2>6, QuietTree DEF LossAllowed
<1>18. CASE UNCHANGED <<fat, free, slots>>
  BY <1>18, SameTree
<1> HIDE DEF popped
<1> QED
  BY <1>1, <1>15, <1>16, <1>17, <1>18

\* fat_truncate keeps the tree.
LEMMA TruncateTree ==
  ASSUME TreeInv, NEW p \in Named(slots), NEW size \in Nat, fat_truncate(p, size)
  PROVE  TreeOK(fat', slots') /\ LossAllowed
<1>1. /\ FatInv /\ fat \in [Clusters -> Links] /\ slots \in SlotMap /\ Forest(fat, Heads)
      /\ p \in Places
  BY InvFacts DEF TreeInv, Named
<1>2. EntryAt(p).type = DIR_ENTRY_TYPE_FILE
  BY DEF fat_truncate
<1>3. PICK old \in SizeRead(EntryAt(p)) :
        \/ UNCHANGED <<fat, free, slots>>
        \/ /\ size > old
           /\ \E fail : update_file(p, (size + UINT_RANGE - old) % UINT_RANGE, old, "0", fail)
        \/ /\ size < old
           /\ EntryAt(p).first # 0
           /\ SetAlloc(cut_chain(Alloc, EntryAt(p).first, size \div BYTE_PER_CLUSTER))
           /\ slots' = PutEntry(slots, p, WithSize(EntryAt(p), size))
  BY DEF fat_truncate, Return, WildRead
<1>4. EntryAt(p) \in DirEntry /\ EntryAt(p).size \in Nat
  <2>1. EntryAt(p) \in DirEntry
    BY <1>1 DEF EntryAt, SlotMap, Places
  <2> QED
    BY <2>1 DEF DirEntry
<1>5. old \in Nat
  <2>1. HeapBytes \subseteq Nat
    BY RequestAssumption
  <2>2. CASE EntryAt(p).first = 0
    BY <2>1, <2>2 DEF SizeRead
  <2>3. CASE EntryAt(p).first # 0
    BY <1>4, <2>3 DEF SizeRead
  <2> QED
    BY <2>2, <2>3
<1>6. CASE UNCHANGED <<fat, free, slots>>
  BY <1>6, SameTree
<1>7. ASSUME size > old, NEW fail,
             update_file(p, (size + UINT_RANGE - old) % UINT_RANGE, old, "0", fail)
      PROVE  TreeOK(fat', slots') /\ LossAllowed
  <2> DEFINE zeros == (size + UINT_RANGE - old) % UINT_RANGE
  <2>1. size + UINT_RANGE - old \in Nat
    BY <1>5, <1>7, ClusterSize
  <2>2. zeros \in Nat
    BY <2>1, ClusterSize, ModBound
  <2>3. update_file(p, zeros, old, "0", fail)
    BY <1>7
  <2> HIDE DEF zeros
  <2> QED
    BY <1>2, <1>5, <2>2, <2>3, UpdateFileTree
<1>8. CASE /\ size < old
           /\ EntryAt(p).first # 0
           /\ SetAlloc(cut_chain(Alloc, EntryAt(p).first, size \div BYTE_PER_CLUSTER))
           /\ slots' = PutEntry(slots, p, WithSize(EntryAt(p), size))
  <2> DEFINE c == EntryAt(p).first
             n == size \div BYTE_PER_CLUSTER
             b == cut_chain([fat |-> fat, free |-> free], c, n)
  <2>1. p \in Entries /\ old = EntryAt(p).size
    BY <1>8 DEF Entries, Named, Places, At, EntryAt, SizeRead
  <2>2. c \in Heads /\ c # free /\ free \in Heads \cup {END_OF_CHAIN} /\ c \in Links
    BY <1>1, <1>4, <2>1, InvFacts DEF DirEntry
  <2>3. count_cluster_in_chain(fat, c) \in Nat
    BY <1>1, <2>2, ChainFinite
  <2>4. EntryAt(p).size <= BYTE_PER_CLUSTER * count_cluster_in_chain(fat, c)
    BY <1>1, <1>2, <2>1 DEF FatInv, SizeCovered, count_cluster_in_chain
  <2>5. BYTE_PER_CLUSTER * count_cluster_in_chain(fat, c) \in Nat
    BY <2>3, ClusterSize
  <2>6. size < BYTE_PER_CLUSTER * count_cluster_in_chain(fat, c)
    BY <1>4, <1>8, <2>1, <2>4, <2>5
  <2>7. n \in Nat /\ n < count_cluster_in_chain(fat, c)
    BY <2>3, <2>6, ClusterSize, DivBound, DivLess
  <2>8. fat' = b.fat /\ free' = b.free
    BY <1>8 DEF SetAlloc, Alloc
  <2> HIDE DEF n, c
  <2>9. CutResult(fat, Heads, free, c, n, b)
    BY <1>1, <2>2, <2>7, CutChainBehind
  <2>91. Chain(fat, c) \cup Chain(fat, free) = Chain(b.fat, c) \cup Chain(b.fat, b.free)
    BY <1>1, <2>2, <2>7, CutChains
  <2> HIDE DEF b
  <2>10. \A h \in Heads \ {free, EntryAt(p).first} : Chain(fat', h) = Chain(fat, h)
    BY <2>8, <2>9 DEF CutResult, c
  <2>11. Wiped(slots, {}) /\ {} \subseteq Chain(fat, free)
    BY <1>1 DEF Wiped
  <2>12. TreeOK(fat', slots') /\ Firsts(slots') = Firsts(slots)
    BY <1>2, <1>8, <2>10, <2>11, ResizedTree
  <2>13. Chain(fat, EntryAt(p).first) \cup Chain(fat, free)
           = Chain(fat', EntryAt(p).first) \cup Chain(fat', free')
    BY <2>8, <2>91 DEF c
  <2> QED
    BY <1>1, <2>1, <2>10, <2>12, <2>13, PassedAround
<1> QED
  BY <1>3, <1>6, <1>7, <1>8

\* mkdir, mknod and create keep the tree.
LEMMA CreateTree ==
  ASSUME TreeInv, CreateRequest
  PROVE  TreeOK(fat', slots') /\ LossAllowed
<1>1. PICK d \in Dirs, name \in Names \cup LongNames :
        \/ fat_mkdir(d, name)
        \/ \E regular \in BOOLEAN : fat_mknod(d, name, regular)
        \/ fat_create(d, name)
  BY DEF CreateRequest
<1>2. /\ IsNew(d, name)
      /\ \/ UNCHANGED <<fat, free, slots>>
         \/ has_free_cluster(Alloc) /\ add_dir_entry(d, name, DIR_ENTRY_TYPE_SUBDIR)
         \/ has_free_cluster(Alloc) /\ add_dir_entry(d, name, DIR_ENTRY_TYPE_FILE)
  BY <1>1 DEF fat_mkdir, fat_mknod, fat_create, Return
<1> QED
  BY <1>2, AddDirEntryTree, SameTree

\* rmdir, unlink, write and truncate keep the tree.
LEMMA ObjectTree ==
  ASSUME TreeInv, ObjectRequest
  PROVE  TreeOK(fat', slots') /\ LossAllowed
<1>1. PICK d \in Dirs, name \in Names : \E p \in find_dir_entry_by_name(d, name) :
        \/ fat_rmdir(p)
        \/ fat_unlink(p)
        \/ \E size \in WriteSizes, offset \in WriteOffsets : fat_write(p, size, offset)
        \/ \E size \in TruncateSizes : fat_truncate(p, size)
  BY DEF ObjectRequest
<1>2. PICK p \in FirstSlot(d, name) :
        \/ fat_rmdir(p)
        \/ fat_unlink(p)
        \/ \E size \in WriteSizes, offset \in WriteOffsets : fat_write(p, size, offset)
        \/ \E size \in TruncateSizes : fat_truncate(p, size)
  BY <1>1 DEF find_dir_entry_by_name
<1>3. FatInv
  BY DEF TreeInv
<1>4. p \in Places /\ EntryAt(p).name \in Names
  BY <1>3, DirsHeads, FirstSlotPlace
<1>5. /\ p \in Named(slots)
      /\ EntryAt(p).first # 0 => p \in Entries
  BY <1>4 DEF Named, At, EntryAt, Entries, Places
<1>6. WriteSizes \subseteq Nat /\ WriteOffsets \subseteq Nat /\ TruncateSizes \subseteq Nat
  BY RequestAssumption
<1>7. CASE UNCHANGED <<fat, free, slots>>
  BY <1>7, SameTree
<1>8. CASE fat_rmdir(p)
  <2>1. \/ UNCHANGED <<fat, free, slots>>
        \/ EntryAt(p).first # 0 /\ is_dir_empty(EntryAt(p).first) /\ RemoveObject(p)
    BY <1>8 DEF fat_rmdir, Return, AssertionFails
  <2> QED
    BY <1>5, <1>7, <2>1, RemoveObjectTree
<1>9. CASE fat_unlink(p)
  <2>1. \/ UNCHANGED <<fat, free, slots>>
        \/ EntryAt(p).type = DIR_ENTRY_TYPE_FILE /\ EntryAt(p).first # 0 /\ RemoveObject(p)
    BY <1>9 DEF fat_unlink, Return, WildRead
  <2>2. DIR_ENTRY_TYPE_FILE # DIR_ENTRY_TYPE_SUBDIR
    BY DEF DIR_ENTRY_TYPE_FILE, DIR_ENTRY_TYPE_SUBDIR
  <2> QED
    BY <1>5, <1>7, <2>1, <2>2, RemoveObjectTree
<1>10. CASE \E size \in WriteSizes, offset \in WriteOffsets : fat_write(p, size, offset)
  <2>1. PICK size \in WriteSizes, offset \in WriteOffsets : fat_write(p, size, offset)
    BY <1>10
  <2>2. /\ EntryAt(p).type = DIR_ENTRY_TYPE_FILE
        /\ update_file(p, size, offset, "size", "ENOMEM")
        /\ size \in Nat /\ offset \in Nat
    BY <1>6, <2>1 DEF fat_write
  <2> QED
    BY <1>5, <2>2, UpdateFileTree
<1>11. CASE \E size \in TruncateSizes : fat_truncate(p, size)
  BY <1>5, <1>6, <1>11, TruncateTree
<1> QED
  BY <1>2, <1>8, <1>9, <1>10, <1>11

\* A formatted disk has no entry.
LEMMA InitTree == Init => TreeInv
<1> SUFFICES ASSUME Init PROVE TreeInv
  OBVIOUS
<1>1. FatInv
  BY InitInv
<1> DEFINE sl == [c \in Clusters |-> ZeroCluster]
<1>2. sl \in SlotMap /\ \A q \in Places : At(sl, q) = FreeSlot
  BY FreeSlotType DEF SlotMap, ZeroCluster, Places, At
<1>3. slots = AddDots(sl, DIR_ENTRY_TYPE_SUBDIR, ROOT_CLUSTER_START, ROOT_CLUSTER_START)
  BY DEF Init
<1> HIDE DEF sl
<1>4. FreeSlot.name \notin Names
  BY FreeSlotType, SpecialNames DEF NoName
<1>5. \A p \in Places : At(slots, p).name \notin Names
  <2>1. \A p \in Places :
            \/ At(slots, p) = At(sl, p)
            \/ IsDot(At(slots, p), ROOT_CLUSTER_START) \/ IsDotDot(At(slots, p), ROOT_CLUSTER_START)
    BY <1>2, <1>3, RootCluster, AddDotsAt
  <2> QED
    BY <1>2, <1>4, <2>1, SpecialNames DEF IsDot, IsDotDot
<1>6. Named(slots) = {}
  BY <1>5 DEF Named
<1> QED
  BY <1>1, <1>6 DEF TreeInv, TreeOK, SubdirsHaveCluster, NamesOnce, SubdirsIn

\* Every step keeps the tree.
LEMMA NextTree == TreeInv /\ [Next]_vars => TreeInv' /\ LossAllowed
<1> SUFFICES ASSUME TreeInv, [Next]_vars PROVE TreeInv' /\ LossAllowed
  OBVIOUS
<1>1. FatInv'
  BY NextInv DEF TreeInv
<1>2. TreeOK(fat', slots') /\ LossAllowed
  <2>1. CASE CreateRequest
    BY <2>1, CreateTree
  <2>2. CASE ObjectRequest
    BY <2>2, ObjectTree
  <2>3. CASE UNCHANGED <<fat, free, slots>>
    BY <2>3, SameTree
  <2> QED
    BY <2>1, <2>2, <2>3 DEF Next, Remount, vars
<1> QED
  BY <1>1, <1>2 DEF TreeInv

-----------------------------------------------------------------------------
(* Theorems *)

\* Whatever the kernel asks of the handlers, and wherever one of them dies by
\* a wild read or a failed assertion, table, free list and entries satisfy
\* the inductive invariant.
THEOREM InvariantHolds == Spec => []FatInv
  BY InitInv, NextInv, PTL DEF Spec

\* The state has its type at every moment; in particular no handler links to
\* a cluster outside the table or makes the root directory the free list.
THEOREM TypeCorrect == Spec => []TypeOK
<1>1. FatInv => TypeOK
  BY DEF FatInv
<1> QED
  BY <1>1, InvariantHolds, PTL

\* No cluster is ever in two of the chains of files, directories and the free
\* list: what pop_free_clusters hands out belongs to nobody.
THEOREM NoClusterShared == Spec => []NoCrossLink
<1>1. FatInv => NoCrossLink
  <2> SUFFICES ASSUME FatInv PROVE NoCrossLink
    OBVIOUS
  <2>1. /\ fat \in [Clusters -> Links] /\ Forest(fat, Heads)
        /\ ROOT_CLUSTER_START \in Heads
        /\ free = END_OF_CHAIN \/ free \in Heads
        /\ free # ROOT_CLUSTER_START
    BY InvFacts
  <2>2. ASSUME NEW c \in Heads, c # free PROVE Chain(fat, c) \cap Chain(fat, free) = {}
    BY <2>1, <2>2, ChainOfZero, ForestDisjoint
  <2>3. Chain(fat, ROOT_CLUSTER_START) \cap Chain(fat, free) = {}
    BY <2>1, <2>2
  <2>4. ASSUME NEW p \in Entries
        PROVE  /\ Chain(fat, EntryAt(p).first) \cap Chain(fat, free) = {}
               /\ Chain(fat, EntryAt(p).first) \cap Chain(fat, ROOT_CLUSTER_START) = {}
               /\ \A q \in Entries : p # q =>
                     Chain(fat, EntryAt(p).first) \cap Chain(fat, EntryAt(q).first) = {}
    <3>1. EntryAt(p).first \in Heads \ {ROOT_CLUSTER_START, free}
      BY <2>4, InvFacts
    <3>2. ASSUME NEW q \in Entries, p # q
          PROVE  EntryAt(q).first \in Heads /\ EntryAt(p).first # EntryAt(q).first
      BY <3>2, InvFacts DEF FatInv
    <3> QED
      BY <2>1, <2>2, <3>1, <3>2, ForestDisjoint
  <2> QED
    BY <2>3, <2>4 DEF NoCrossLink
<1> QED
  BY <1>1, InvariantHolds, PTL

\* The links never form a cycle: every loop of the code over a chain ends.
THEOREM WalksEnd == Spec => []ChainsEnd
<1>1. FatInv => ChainsEnd
  BY DEF FatInv, Forest, ChainsEnd
<1> QED
  BY <1>1, InvariantHolds, PTL

\* A file never claims more bytes than its clusters hold, so reading it and
\* shrinking it stay inside its chain.
THEOREM SizesCovered == Spec => []SizeCovered
<1>1. FatInv => SizeCovered
  BY DEF FatInv
<1> QED
  BY <1>1, InvariantHolds, PTL

\* Whatever directories are made, filled and removed, every entry stays in a
\* directory that a path leads to: fat_rmdir, which searches all clusters of a
\* directory before it removes it, orphans nothing.
THEOREM TreeStaysConnected == Spec => []TreeConnected
<1>1. TreeInv => TreeConnected
  BY TreeProperties
<1> QED
  BY <1>1, InitTree, NextTree, PTL DEF Spec

\* "." and ".." of every directory are its own first cluster and its parent's,
\* whatever the cluster held before.
THEOREM DotsStayCorrect == Spec => []DotsCorrect
<1>1. TreeInv => DotsCorrect
  BY TreeProperties
<1> QED
  BY <1>1, InitTree, NextTree, PTL DEF Spec

\* Clusters leave the disk's use in two ways only: an insertion that adds no entry
\* loses the one cluster it had popped, and a handler dies with what it popped.
\* Everything else that allocates, cuts and frees keeps count of every cluster.
THEOREM ClustersAreLostOnlyByFailures == Spec => LossOnlyByFailedInsertion
<1>1. TreeInv /\ [Next]_vars =>
        [\/ Lost' = Lost
         \/ Lost' = Lost \cup {free} /\ Entries' = Entries /\ free \notin Lost
         \/ Lost \subseteq Lost' /\ daemon' = "abort"]_vars
  BY NextTree DEF LossAllowed, Aborts
<1> QED
  BY <1>1, InitTree, NextTree, PTL DEF Spec, LossOnlyByFailedInsertion
=============================================================================
