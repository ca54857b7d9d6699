------------------------------ MODULE FatFile ------------------------------
(***************************************************************************)
(* The bytes of a file of src/FAT/fat.c: how update_file, fat_truncate and *)
(* fat_read spread them over clusters, and what clusters that others used  *)
(* before do to them.                                                      *)
(*                                                                         *)
(* A chain and the free list are sequences of clusters: that chains end    *)
(* and share no cluster is what Fat shows.  Offsets and sizes stay below   *)
(* the range of unsigned int; Fat has the ones that wrap.                  *)
(***************************************************************************)
EXTENDS Integers, Sequences

CONSTANTS
    BYTE_PER_CLUSTER,   \* 4096 in the code
    ClusterTotal,       \* bound: clusters that files can have
    OwnBytes,           \* bytes that are written to the file; 0 among them
    Foreign,            \* a byte that only another file is given
    Buffers,            \* bound: the buffers of the write requests
    Offsets,            \* bound: the offsets of the write requests
    Sizes,              \* bound: the sizes of the truncate requests
    Reads               \* bound: offset and length of the read requests

\* The kernel reads pages, which are as long as clusters: offsets of read
\* requests are multiples of it.
ASSUME FileAssumption ==
    /\ BYTE_PER_CLUSTER \in Nat \ {0}
    /\ ClusterTotal \in Nat \ {0}
    /\ 0 \in OwnBytes /\ Foreign \notin OwnBytes
    /\ Buffers \subseteq Seq(OwnBytes)
    /\ \A buf \in Buffers : Len(buf) > 0
    /\ Offsets \subseteq Nat
    /\ Sizes \subseteq Nat
    /\ Reads \subseteq Nat \X Nat
    /\ \A r \in Reads : r[1] % BYTE_PER_CLUSTER = 0

VARIABLES
    chain,    \* the clusters of the file
    other,    \* the clusters of another file
    pool,     \* the free list
    data,     \* the bytes in every cluster
    size,     \* the size in the file's entry
    answer    \* what the last handler on the file returned, with the bytes it read

Returned(n, bytes) == [ret |-> n, bytes |-> bytes]

fileVars == <<chain, other, pool, data, size, answer>>

-----------------------------------------------------------------------------
(* Clusters *)

InCluster == 0 .. BYTE_PER_CLUSTER - 1

\* Mutant: the clusters keep their bytes.
take_dirty(d, k) == d

\* The bytes after pop_free_clusters(k), which zeroes what it takes.
pop_free_clusters(d, k) ==
    [c \in 1 .. ClusterTotal |->
        IF \E i \in 1 .. k : pool[i] = c THEN [j \in InCluster |-> 0] ELSE d[c]]

\* memcpy of n bytes of buf behind its first from, to offset within of a
\* cluster that holds bytes.
Copied(bytes, within, buf, from, n) ==
    [j \in InCluster |->
        IF j \in within .. within + n - 1 THEN buf[from + j - within + 1] ELSE bytes[j]]

\* Byte j of cluster number i (from 0) of the file.
ByteAt(i, j) == data[chain[i + 1]][j]

-----------------------------------------------------------------------------
(* Handlers *)

\* Mutant: the last cluster is not read before it is written.
overwrite_last(bytes, buf, from, n) == Copied([j \in InCluster |-> 0], 0, buf, from, n)

\* The last bytes of buf, fewer than a cluster: read, modify, write.
modify_last(bytes, buf, from, n) == Copied(bytes, 0, buf, from, n)

\* The loops of update_file: the first cluster from within on, full clusters,
\* then the rest at the start of the last one.
write_clusters(d, ch, buf, offset) ==
    LET start  == offset \div BYTE_PER_CLUSTER
        within == offset % BYTE_PER_CLUSTER
        room   == BYTE_PER_CLUSTER - within
        num    == IF Len(buf) < room THEN Len(buf) ELSE room
        full   == (Len(buf) - num) \div BYTE_PER_CLUSTER
        rest   == (Len(buf) - num) % BYTE_PER_CLUSTER
    IN  [c \in 1 .. ClusterTotal |->
            IF ch[start + 1] = c THEN Copied(d[c], within, buf, 0, num)
            ELSE IF \E n \in 1 .. full : ch[start + 1 + n] = c
            THEN LET n == CHOOSE n \in 1 .. full : ch[start + 1 + n] = c
                 IN  Copied(d[c], 0, buf, num + (n - 1) * BYTE_PER_CLUSTER, BYTE_PER_CLUSTER)
            ELSE IF rest > 0 /\ ch[start + 2 + full] = c
            THEN modify_last(d[c], buf, num + full * BYTE_PER_CLUSTER, rest)
            ELSE d[c]]

\* The entry, with the current time, is written when the size grows.  A
\* shortage is answered by an error; but when one cluster is missing the
\* daemon dies (pop_reads_wild in FatTable): no answer, and the file is as it
\* was when the daemon is started again.
update_file(buf, offset, ok) ==
    LET end  == offset + Len(buf)
        need == (end - 1) \div BYTE_PER_CLUSTER + 1
        more == IF need > Len(chain) THEN need - Len(chain) ELSE 0
        ch   == chain \o SubSeq(pool, 1, more)
    IN  \/ /\ more <= Len(pool)
           /\ chain' = ch
           /\ pool' = SubSeq(pool, more + 1, Len(pool))
           /\ data' = write_clusters(pop_free_clusters(data, more), ch, buf, offset)
           /\ size' = IF end > size THEN end ELSE size
           /\ answer' = Returned(ok, <<>>)
           /\ UNCHANGED other
        \/ /\ more > Len(pool) + 1
           /\ answer' = Returned(-1, <<>>)
           /\ UNCHANGED <<chain, other, pool, data, size>>
        \/ more = Len(pool) + 1 /\ UNCHANGED fileVars

fat_write == \E buf \in Buffers, offset \in Offsets : update_file(buf, offset, Len(buf))

\* Cutting keeps the cluster in which the new end lies, also when that is its
\* first byte, and gives the others back with what is in them.
Shrink(n) ==
    LET keep == n \div BYTE_PER_CLUSTER + 1
    IN  /\ n < size
        /\ chain' = SubSeq(chain, 1, keep)
        /\ pool' = SubSeq(chain, keep + 1, Len(chain)) \o pool
        /\ size' = n
        /\ answer' = Returned(0, <<>>)
        /\ UNCHANGED <<other, data>>

fat_truncate ==
    \E n \in Sizes :
        \/ n = size /\ answer' = Returned(0, <<>>) /\ UNCHANGED <<chain, other, pool, data, size>>
        \/ n > size /\ update_file([i \in 1 .. n - size |-> 0], size, 0)
        \/ Shrink(n)

\* Every cluster is read from its start, the first one too.
read_clusters(offset, n) ==
    LET length == IF size - offset < n THEN size - offset ELSE n
        start  == offset \div BYTE_PER_CLUSTER
        room   == BYTE_PER_CLUSTER - (offset % BYTE_PER_CLUSTER)
        num    == IF length < room THEN length ELSE room
    IN  IF offset >= size THEN <<>>
        ELSE [k \in 1 .. length |->
                 IF k <= num THEN ByteAt(start, k - 1)
                 ELSE ByteAt(start + 1 + (k - num - 1) \div BYTE_PER_CLUSTER,
                             (k - num - 1) % BYTE_PER_CLUSTER)]

fat_read ==
    /\ \E r \in Reads : LET bytes == read_clusters(r[1], r[2])
                       IN  answer' = Returned(Len(bytes), bytes)
    /\ UNCHANGED <<chain, other, pool, data, size>>

\* Times asked for are accepted and dropped.
fat_utimens ==
    /\ answer' = Returned(0, <<>>)
    /\ UNCHANGED <<chain, other, pool, data, size>>

\* Another file takes a cluster and fills it; later it is removed.
OtherGrows ==
    /\ pool # <<>>
    /\ other' = Append(other, Head(pool))
    /\ pool' = Tail(pool)
    /\ data' = [data EXCEPT ![Head(pool)] = [j \in InCluster |-> Foreign]]
    /\ UNCHANGED <<chain, size, answer>>

OtherRemoved ==
    /\ other # <<>>
    /\ pool' = other \o pool
    /\ other' = <<>>
    /\ UNCHANGED <<chain, data, size, answer>>

\* A new file has one cluster.
Init ==
    /\ chain = <<1>>
    /\ other = <<>>
    /\ pool = [i \in 1 .. ClusterTotal - 1 |-> i + 1]
    /\ data = [c \in 1 .. ClusterTotal |-> [j \in InCluster |-> 0]]
    /\ size = 0
    /\ answer = Returned(0, <<>>)

Next == fat_write \/ fat_truncate \/ fat_read \/ fat_utimens \/ OtherGrows \/ OtherRemoved

Spec == Init /\ [][Next]_fileVars

-----------------------------------------------------------------------------
(* Properties *)

\* The file as its users see it: byte i is in cluster i div BYTE_PER_CLUSTER
\* of its chain.
Contents ==
    [i \in 1 .. size |->
        ByteAt((i - 1) \div BYTE_PER_CLUSTER, (i - 1) % BYTE_PER_CLUSTER)]

File == INSTANCE ByteFile WITH contents <- Contents

\* The clusters, with their first, full and last parts, the zeroing, the cut
\* and the reading loop behave as an array of bytes: a write changes its own
\* bytes and no others, an extension reads as zeros, reads return what was
\* written.  Behind the old end of the file only its own bytes come back.
ImplementsByteFile == File!Spec

\* "The allocated cluster is zeroed out to prevent data leak"
\* (pop_free_clusters): what another file stored in a cluster is nowhere in
\* the clusters of the file, in or behind its contents.
NoForeignBytes ==
    \A i \in 1 .. Len(chain), j \in InCluster : data[chain[i]][j] # Foreign
=============================================================================
