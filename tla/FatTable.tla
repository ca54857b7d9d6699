------------------------------ MODULE FatTable ------------------------------
(***************************************************************************)
(* The file allocation table of src/FAT/fat.c as a data structure: the     *)
(* links between clusters, the walks the code makes along them, and the    *)
(* operations that take clusters from the free list and give them back.    *)
(*                                                                         *)
(* A table is a function from Clusters to Links; the loops of the code     *)
(* that follow read_fat_entry until END_OF_CHAIN are defined without       *)
(* recursion, from the set of clusters a walk visits.                      *)
(***************************************************************************)
EXTENDS Integers, FiniteSets

CONSTANTS
    CLUSTER_COUNT,        \* clusters of the disk, 2560 in the code
    ROOT_CLUSTER_START    \* first cluster behind superblock and FAT, 4

ASSUME ClusterAssumption ==
    /\ ROOT_CLUSTER_START \in Nat \ {0}
    /\ CLUSTER_COUNT \in Nat
    /\ ROOT_CLUSTER_START + 1 < CLUSTER_COUNT

END_OF_CHAIN == 0

\* Mutant: the first free cluster is the one of the root directory.
FREE_FROM_ROOT == ROOT_CLUSTER_START

FREE_CLUSTER_START == ROOT_CLUSTER_START + 1

\* The clusters the table has an entry for; update_fat_entry asserts that it
\* is given one of them.
Clusters == ROOT_CLUSTER_START .. CLUSTER_COUNT - 1

Links == Clusters \cup {END_OF_CHAIN}

\* A freshly formatted table: the root directory is one cluster, every other
\* cluster is linked to its successor.
init_fat ==
    [c \in Clusters |->
        IF c = ROOT_CLUSTER_START \/ c = CLUSTER_COUNT - 1
        THEN END_OF_CHAIN ELSE c + 1]

-----------------------------------------------------------------------------
(* Walks *)

Closed(f, S) == \A c \in S : f[c] \in S \cup {END_OF_CHAIN}

\* The clusters visited by a walk from c: the least set that contains c and
\* is closed under the links.
Chain(f, c) ==
    LET closed == {S \in SUBSET Clusters : c \in S /\ Closed(f, S)}
    IN  IF c = END_OF_CHAIN THEN {}
        ELSE Clusters \ UNION {Clusters \ S : S \in closed}

\* A walk from c terminates.
Ends(f, c) == \E e \in Chain(f, c) : f[e] = END_OF_CHAIN

\* The clusters of K head chains of their own: all walks end, and no two of
\* these chains share a cluster.  What nothing refers to may link anywhere.
Forest(f, K) ==
    /\ K \subseteq Clusters
    /\ \A c \in Clusters : Ends(f, c)
    /\ \A c, d \in K : c # d => Chain(f, c) \cap Chain(f, d) = {}

\* Mutant: the recursion counts END_OF_CHAIN as well.
count_past_end(f, c) == Cardinality(Chain(f, c)) + 1

count_cluster_in_chain(f, c) == Cardinality(Chain(f, c))

get_last_cluster_in_chain(f, c) ==
    CHOOSE e \in Chain(f, c) : f[e] = END_OF_CHAIN

\* The cluster n links behind c: as many clusters are left from it as the
\* chain has beyond the first n.
nth_cluster(f, c, n) ==
    CHOOSE x \in Chain(f, c) :
        count_cluster_in_chain(f, x) + n = count_cluster_in_chain(f, c)

-----------------------------------------------------------------------------
(* The free list.  An allocator state a is a record with the table a.fat   *)
(* and the head a.free of the free list (superblock.s.free_cluster_start). *)

has_free_cluster(a) == a.free > ROOT_CLUSTER_START

free_count(a) == count_cluster_in_chain(a.fat, a.free)

update_fat_entry(f, c, value) == [f EXCEPT ![c] = value]

\* Mutant: the last cluster taken keeps its link into the free list.
pop_without_cut(a, k) ==
    [fat |-> a.fat, free |-> a.fat[nth_cluster(a.fat, a.free, k - 1)]]

\* Taking k clusters off the front of the free list, for k at most
\* free_count(a): the k-th becomes the end of the chain that starts at the
\* old head a.free.
pop_free_clusters(a, k) ==
    LET last == nth_cluster(a.fat, a.free, k - 1)
    IN  [fat  |-> update_fat_entry(a.fat, last, END_OF_CHAIN),
         free |-> a.fat[last]]

\* The loop that looks for the k-th free cluster stops early only when the
\* list ends two or more clusters short.  One cluster short, it runs out with
\* length = 0 and last_cluster = END_OF_CHAIN, and the entry of cluster 0 is
\* read: 2^32 - 16 bytes behind the table.
pop_reports_shortage(a, k) == k > free_count(a) + 1
pop_reads_wild(a, k)       == k = free_count(a) + 1

\* k free clusters taken off the list and linked behind the chain that
\* starts at c.
append_free_clusters(a, c, k) ==
    LET b == pop_free_clusters(a, k)
    IN  [fat  |-> update_fat_entry(b.fat, get_last_cluster_in_chain(b.fat, c), a.free),
         free |-> b.free]

add_free_cluster(a, c) == append_free_clusters(a, c, 1)

\* Mutant: the head of the free list is replaced before it is linked to.
free_after_new_head(a, c) ==
    [fat  |-> update_fat_entry(a.fat, get_last_cluster_in_chain(a.fat, c), c),
     free |-> c]

\* The chain that starts at c put in front of the free list.
free_cluster_chain(a, c) ==
    [fat  |-> update_fat_entry(a.fat, get_last_cluster_in_chain(a.fat, c), a.free),
     free |-> c]

\* Mutant: what is cut off is not given back.
cut_and_drop(a, c, n) ==
    [fat |-> update_fat_entry(a.fat, nth_cluster(a.fat, c, n), END_OF_CHAIN), free |-> a.free]

\* The chain that starts at c cut behind its cluster number n (from 0), what
\* follows given back to the free list.
cut_chain(a, c, n) ==
    LET last  == nth_cluster(a.fat, c, n)
        after == a.fat[last]
        b     == [fat |-> update_fat_entry(a.fat, last, END_OF_CHAIN), free |-> a.free]
    IN  IF after = END_OF_CHAIN THEN b ELSE free_cluster_chain(b, after)
=============================================================================
