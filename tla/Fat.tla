--------------------------------- MODULE Fat ---------------------------------
(***************************************************************************)
(* The mounted FAT file system of src/FAT/fat.c: the allocation table and  *)
(* the free list in memory, the directory entries on disk, and one action  *)
(* per FUSE handler that changes them.  FUSE runs the handlers one at a    *)
(* time (the Makefile mounts with -s), so a handler is one step; what a    *)
(* crash inside a handler leaves on disk is not the subject of this        *)
(* module.                                                                 *)
(*                                                                         *)
(* The bytes of files are left out; a file is its directory entry (with    *)
(* its size) and its chain of clusters.                                    *)
(***************************************************************************)
EXTENDS FatTable

CONSTANTS
    BYTE_PER_CLUSTER,   \* 4096 in the code
    DIR_ENTRY_SIZE,     \* sizeof(struct fat_dir_entry), 40 on x86-64
    UINT_RANGE,         \* 2^32, the range of unsigned int
    Names,              \* names a directory entry can hold, see TornEntry
    LongNames,          \* names longer than DIR_ENTRY_MAX_NAME_LEN
    WriteOffsets,       \* bound: offsets of the write requests
    WriteSizes,         \* bound: lengths of the write requests
    TruncateSizes,      \* bound: sizes of the truncate requests
    HeapBytes           \* bound: numbers found in the heap behind a cluster

ASSUME LayoutAssumption ==
    /\ BYTE_PER_CLUSTER \in Nat
    /\ DIR_ENTRY_SIZE \in Nat \ {0}
    /\ 2 * DIR_ENTRY_SIZE <= BYTE_PER_CLUSTER

ASSUME RequestAssumption ==
    /\ UINT_RANGE \in Nat \ {0}
    /\ CLUSTER_COUNT * BYTE_PER_CLUSTER <= UINT_RANGE
    /\ WriteOffsets \subseteq Nat
    /\ WriteSizes \subseteq Nat \ {0}
    /\ \A size \in WriteSizes : CLUSTER_COUNT * BYTE_PER_CLUSTER + size <= UINT_RANGE
    /\ TruncateSizes \subseteq Nat
    /\ HeapBytes \subseteq Nat
    /\ {"", ".", ".."} \cap (Names \cup LongNames) = {}
    /\ Names \cap LongNames = {}

VARIABLES
    fat,        \* fat_table: the link of every cluster
    free,       \* superblock.s.free_cluster_start
    slots,      \* the directory entries stored in every cluster
    daemon,     \* "up", or the way the daemon died; "lost" if the disk went with it
    reply       \* what the last handler returned to FUSE

vars == <<fat, free, slots, daemon, reply>>

-----------------------------------------------------------------------------
(* Directory entries *)

DIR_ENTRY_TYPE_FILE   == 0
DIR_ENTRY_TYPE_SUBDIR == 1

\* Entry number s starts s * DIR_ENTRY_SIZE bytes into its cluster.  Every
\* loop over a cluster runs while that offset is inside the cluster, so the
\* last slot need not fit: 4096 is no multiple of 40.
Slots == {s \in 0 .. BYTE_PER_CLUSTER : s * DIR_ENTRY_SIZE < BYTE_PER_CLUSTER}
Fits(s) == (s + 1) * DIR_ENTRY_SIZE <= BYTE_PER_CLUSTER

DirEntry ==
    [name  : Names \cup {"", ".", ".."},
     type  : {DIR_ENTRY_TYPE_FILE, DIR_ENTRY_TYPE_SUBDIR},
     size  : Nat,
     first : Links]

\* A slot is free when the first byte of its name is 0.
FreeSlot == [name |-> "", type |-> DIR_ENTRY_TYPE_FILE, size |-> 0, first |-> 0]

ZeroCluster == [s \in Slots |-> FreeSlot]

NewEntry(name, type, first) ==
    [name |-> name, type |-> type, size |-> 0, first |-> first]

\* What is left of an entry in a slot that does not fit: the first 16 bytes
\* of its name.  Names are taken to be no longer: a longer one would be found
\* under its first 16 characters, which may be the name of another.  The fields behind the cluster's end are read from the heap behind
\* the calloc'ed buffer: type from its zeroed last bytes, size and first
\* cluster from the low and the high half of the next chunk's size.
TornEntry(name) == NewEntry(name, DIR_ENTRY_TYPE_FILE, 0)

SizeRead(e) == IF e.first = 0 THEN HeapBytes ELSE {e.size}

\* A slot is addressed by a cluster and a slot number.
EntryAt(p) == slots[p[1]][p[2]]

PutEntry(sl, p, e) == [sl EXCEPT ![p[1]][p[2]] = e]

WithSize(e, n) == [name |-> e.name, type |-> e.type, size |-> n, first |-> e.first]

\* The slot of the directory with first cluster d that holds the given name,
\* the first one in the order in which the directory's clusters are searched;
\* with name "", the first free slot.  Empty when there is none.
FirstSlot(d, name) ==
    LET holding == {x \in Chain(fat, d) : \E s \in Slots : slots[x][s].name = name}
    IN  {p \in holding \X Slots :
            /\ EntryAt(p).name = name
            /\ \A s \in Slots : slots[p[1]][s].name = name => p[2] <= s
            /\ holding \subseteq Chain(fat, p[1])}

find_dir_entry_by_name(d, name) == FirstSlot(d, name)

\* The subdirectories of d, by first cluster: one component of a path.
Subdirs(d) ==
    {EntryAt(p).first : p \in
        {p \in UNION {find_dir_entry_by_name(d, name) : name \in Names} :
            EntryAt(p).type = DIR_ENTRY_TYPE_SUBDIR}}

\* The entries of files and subdirectories that have a cluster; "." and ".."
\* left out.
Entries == {p \in Clusters \X Slots :
               EntryAt(p).name \in Names /\ EntryAt(p).first # 0}

\* The directories that paths lead to, by first cluster: the root and what
\* is reached from it, subdirectory by subdirectory.
Dirs ==
    LET heads  == {ROOT_CLUSTER_START} \cup {EntryAt(p).first : p \in Entries}
        sub    == [d \in heads |-> Subdirs(d)]
        closed == {S \in SUBSET heads :
                      ROOT_CLUSTER_START \in S /\ \A d \in S : sub[d] \subseteq S}
    IN  heads \ UNION {heads \ S : S \in closed}

\* Mutant: the directory's first cluster only.
is_first_cluster_empty(d) == \A s \in Slots : slots[d][s].name \in {"", ".", ".."}

\* Every cluster of the directory is searched; "." and ".." do not count.
is_dir_empty(d) ==
    \A x \in Chain(fat, d), s \in Slots : slots[x][s].name \in {"", ".", ".."}

-----------------------------------------------------------------------------
(* Creating files and directories *)

Alloc == [fat |-> fat, free |-> free]

SetAlloc(a) == fat' = a.fat /\ free' = a.free

Zeroed(sl, S) == [c \in Clusters |-> IF c \in S THEN ZeroCluster ELSE sl[c]]

\* An entry added to the first free slot of cluster c.
PutInCluster(sl, c, e) ==
    LET s == CHOOSE s \in Slots :
                /\ sl[c][s].name = ""
                /\ \A t \in Slots : sl[c][t].name = "" => s <= t
    IN  PutEntry(sl, <<c, s>>, e)

\* Mutant: the parent is the root directory.
AddDotsOfRoot(sl, type, c, parent) ==
    IF type = DIR_ENTRY_TYPE_SUBDIR
    THEN PutInCluster(PutInCluster(sl, c, NewEntry(".", type, c)),
                      c, NewEntry("..", type, ROOT_CLUSTER_START))
    ELSE sl

\* The "." and ".." entries of a new directory.
AddDots(sl, type, c, parent) ==
    IF type = DIR_ENTRY_TYPE_SUBDIR
    THEN PutInCluster(PutInCluster(sl, c, NewEntry(".", type, c)),
                      c, NewEntry("..", type, parent))
    ELSE sl

\* The outcomes of add_dir_entry_to_cluster for the new object in the parent
\* directory d.  The object's own cluster c has been popped and zeroed before:
\* a and sl are the allocator and the entries after that.  add_dir_entry
\* ignores the result and answers 0 in every case.

\* A name that does not fit, or a full directory on a full disk: -1.
InsertFails(d, name, type, c, a, sl) ==
    /\ \/ name \in LongNames
       \/ /\ name \in Names
          /\ FirstSlot(d, "") = {}
          /\ ~has_free_cluster(a)
    /\ SetAlloc(a)
    /\ slots' = AddDots(sl, type, c, d)
    /\ daemon' = "up"
    /\ reply' = "0"

InsertInSlot(d, name, type, c, a, sl) ==
    /\ name \in Names
    /\ \E p \in FirstSlot(d, "") :
          /\ Fits(p[2])
          /\ slots' = AddDots(PutEntry(sl, p, NewEntry(name, type, c)), type, c, d)
    /\ SetAlloc(a)
    /\ daemon' = "up"
    /\ reply' = "0"

\* The free slot is the one that crosses the end of the cluster.  memcpy
\* writes behind the buffer; the disk keeps the part of the entry inside the
\* cluster.  The heap is damaged: free() aborts, or goes unnoticed.
InsertTorn(d, name, type, c, a, sl) ==
    /\ name \in Names
    /\ \E p \in FirstSlot(d, "") :
          /\ ~Fits(p[2])
          /\ LET torn == PutEntry(sl, p, TornEntry(name))
             IN  \/ /\ slots' = AddDots(torn, type, c, d)
                    /\ daemon' = "up"
                    /\ reply' = "0"
                 \/ /\ slots' = torn
                    /\ daemon' = "abort"
                    /\ reply' = "none"
    /\ SetAlloc(a)

\* No free slot: the directory grows by a cluster, the entry is its first.
InsertInNewCluster(d, name, type, c, a, sl) ==
    /\ name \in Names
    /\ FirstSlot(d, "") = {}
    /\ has_free_cluster(a)
    /\ SetAlloc(add_free_cluster(a, d))
    /\ slots' = AddDots(PutEntry(Zeroed(sl, {a.free}), <<a.free, 0>>, NewEntry(name, type, c)),
                        type, c, d)
    /\ daemon' = "up"
    /\ reply' = "0"

add_dir_entry(d, name, type) ==
    LET a  == pop_free_clusters(Alloc, 1)
        sl == Zeroed(slots, {free})
    IN  \/ InsertFails(d, name, type, free, a, sl)
        \/ InsertInSlot(d, name, type, free, a, sl)
        \/ InsertTorn(d, name, type, free, a, sl)
        \/ InsertInNewCluster(d, name, type, free, a, sl)

\* A handler that changes nothing and returns r.
Return(r) == reply' = r /\ UNCHANGED <<fat, free, slots, daemon>>

\* The kernel looks a name up before it asks for its creation, and asks only
\* for names it did not find.
IsNew(d, name) == find_dir_entry_by_name(d, name) = {}

fat_mkdir(d, name) ==
    /\ IsNew(d, name)
    /\ \/ has_free_cluster(Alloc) /\ add_dir_entry(d, name, DIR_ENTRY_TYPE_SUBDIR)
       \/ ~has_free_cluster(Alloc) /\ Return("ENOMEM")

fat_mknod(d, name, regular) ==
    /\ IsNew(d, name)
    /\ \/ ~regular /\ Return("EACCES")
       \/ regular /\ ~has_free_cluster(Alloc) /\ Return("ENOMEM")
       \/ regular /\ has_free_cluster(Alloc) /\ add_dir_entry(d, name, DIR_ENTRY_TYPE_FILE)

\* fat_create drops the result of fat_mknod.
fat_create(d, name) ==
    /\ IsNew(d, name)
    /\ \/ has_free_cluster(Alloc) /\ add_dir_entry(d, name, DIR_ENTRY_TYPE_FILE)
       \/ ~has_free_cluster(Alloc) /\ Return("0")

-----------------------------------------------------------------------------
(* Removing files and directories.  p is the slot of the object's entry.   *)

\* An entry torn at the end of its cluster reads as a file without a first
\* cluster.  Handlers that follow its chain read the table's entry 0, far
\* outside the table, or fail the assertion that they were given a cluster.
WildRead ==
    /\ daemon' = "segv"
    /\ reply' = "none"
    /\ UNCHANGED <<fat, free, slots>>

AssertionFails ==
    /\ daemon' = "abort"
    /\ reply' = "none"
    /\ UNCHANGED <<fat, free, slots>>

\* Removal frees the object's chain and clears the first byte of the name.
RemoveObject(p) ==
    /\ SetAlloc(free_cluster_chain(Alloc, EntryAt(p).first))
    /\ slots' = PutEntry(slots, p, FreeSlot)
    /\ reply' = "0"
    /\ UNCHANGED daemon

\* A file is read as if it were a directory before its type is looked at, so
\* its bytes decide between the two errors.
fat_rmdir(p) ==
    LET e == EntryAt(p)
    IN  \/ /\ e.type = DIR_ENTRY_TYPE_SUBDIR
           /\ ~is_dir_empty(e.first)
           /\ Return("ENOTEMPTY")
        \/ /\ e.type = DIR_ENTRY_TYPE_FILE
           /\ e.first # 0
           /\ Return("ENOTEMPTY") \/ Return("ENOTDIR")
        \/ /\ e.first = 0
           /\ AssertionFails
        \/ /\ e.type = DIR_ENTRY_TYPE_SUBDIR
           /\ e.first # 0
           /\ is_dir_empty(e.first)
           /\ RemoveObject(p)

fat_unlink(p) ==
    LET e == EntryAt(p)
    IN  \/ e.type # DIR_ENTRY_TYPE_FILE /\ Return("-1")
        \/ e.type = DIR_ENTRY_TYPE_FILE /\ e.first # 0 /\ RemoveObject(p)
        \/ e.first = 0 /\ WildRead

-----------------------------------------------------------------------------
(* Changing the size of a file.  p is the slot of the file's entry.        *)

\* size bytes written at offset, in unsigned int arithmetic; ok and fail are
\* what the calling handler returns.  Clusters are allocated up to the last
\* byte written; when offset + size exceeds UINT_RANGE that byte is before the
\* first one, and the walk along the clusters to write leaves the chain.  It
\* first comes to END_OF_CHAIN, which is 0 and as a cluster the superblock,
\* then reads the table's entry 0.  A walk that writes before that, zeros of
\* fat_truncate in a buffer of almost UINT_RANGE bytes, clears the superblock,
\* unless calloc has refused the buffer.
update_file(p, size, offset, ok, fail) ==
    LET e      == EntryAt(p)
        final  == (offset + size + UINT_RANGE - 1) % UINT_RANGE
        end    == (final + 1) % UINT_RANGE
        need   == (final \div BYTE_PER_CLUSTER) + 1
        have   == count_cluster_in_chain(fat, e.first)
        more   == need - have
        start  == (offset % UINT_RANGE) \div BYTE_PER_CLUSTER
        wraps  == (offset % UINT_RANGE) + (size % UINT_RANGE) > UINT_RANGE
        popped == pop_free_clusters(Alloc, more)
        Zeros  == Zeroed(slots, Chain(popped.fat, free))
        Resized(sl) ==
            PutEntry(sl, p, WithSize(e, IF end > e.size THEN end ELSE e.size))
        WriteData ==
            \/ ~wraps /\ reply' = ok /\ daemon' = "up"
            \/ /\ wraps /\ start > need /\ start > have
               /\ reply' = "none" /\ daemon' = "segv"
            \/ /\ wraps /\ (start <= need \/ start <= have)
               /\ reply' = "none"
               /\ daemon' \in {"lost", IF offset % BYTE_PER_CLUSTER = 0 THEN "abort" ELSE "segv"}
    IN  \/ /\ more <= 0
           /\ slots' = Resized(slots)
           /\ WriteData
           /\ UNCHANGED <<fat, free>>
        \/ /\ more \in 1 .. free_count(Alloc)
           /\ e.first # 0
           /\ SetAlloc(append_free_clusters(Alloc, e.first, more))
           /\ slots' = Resized(Zeros)
           /\ WriteData
        \/ /\ more \in 1 .. free_count(Alloc)
           /\ e.first = 0
           /\ SetAlloc(popped)
           /\ slots' = Zeros
           /\ reply' = "none"
           /\ daemon' = "abort"
        \/ more > 0 /\ pop_reads_wild(Alloc, more) /\ WildRead
        \/ more > 0 /\ pop_reports_shortage(Alloc, more) /\ Return(fail)

fat_write(p, size, offset) ==
    /\ EntryAt(p).type = DIR_ENTRY_TYPE_FILE
    /\ update_file(p, size, offset, "size", "ENOMEM")

\* Extending compares the result of update_file, (int) num_zeros or -ENOMEM,
\* with (int) num_zeros.
ENOMEM == 12

fat_truncate(p, size) ==
    /\ EntryAt(p).type = DIR_ENTRY_TYPE_FILE
    /\ \E old \in SizeRead(EntryAt(p)) :
          \/ size = old /\ Return("0")
          \/ /\ size > old
             /\ LET num_zeros == (size + UINT_RANGE - old) % UINT_RANGE
                IN  update_file(p, num_zeros, old, "0",
                                IF num_zeros = UINT_RANGE - ENOMEM THEN "0" ELSE "-1")
          \/ size < old /\ EntryAt(p).first = 0 /\ WildRead
          \/ /\ size < old
             /\ EntryAt(p).first # 0
             /\ SetAlloc(cut_chain(Alloc, EntryAt(p).first, size \div BYTE_PER_CLUSTER))
             /\ slots' = PutEntry(slots, p, WithSize(EntryAt(p), size))
             /\ reply' = "0"
             /\ UNCHANGED daemon

-----------------------------------------------------------------------------
(* Mounting *)

\* The first mount formats the disk: fat_init with no disk file.
Init ==
    /\ fat = init_fat
    /\ free = FREE_CLUSTER_START
    /\ slots = AddDots([c \in Clusters |-> ZeroCluster], DIR_ENTRY_TYPE_SUBDIR,
                       ROOT_CLUSTER_START, ROOT_CLUSTER_START)
    /\ daemon = "up"
    /\ reply = "none"

\* A daemon that died is started again and reads superblock and table from
\* the disk, where every completed update has put them.  With a cleared
\* superblock it mounts, and no request succeeds: a lookup aborts, for no
\* cluster is below its cluster_count, and readdir never leaves its first loop.
Remount ==
    /\ daemon # "up"
    /\ daemon' = IF daemon = "lost" THEN "lost" ELSE "up"
    /\ reply' = "none"
    /\ UNCHANGED <<fat, free, slots>>

CreateRequest ==
    \E d \in Dirs, name \in Names \cup LongNames :
        \/ fat_mkdir(d, name)
        \/ \E regular \in BOOLEAN : fat_mknod(d, name, regular)
        \/ fat_create(d, name)

\* Requests on an existing object.  The kernel has looked its name up.
ObjectRequest ==
    \E d \in Dirs, name \in Names : \E p \in find_dir_entry_by_name(d, name) :
        \/ fat_rmdir(p)
        \/ fat_unlink(p)
        \/ \E size \in WriteSizes, offset \in WriteOffsets : fat_write(p, size, offset)
        \/ \E size \in TruncateSizes : fat_truncate(p, size)

Next ==
    \/ daemon = "up" /\ CreateRequest
    \/ daemon = "up" /\ ObjectRequest
    \/ Remount

Spec == Init /\ [][Next]_vars

-----------------------------------------------------------------------------
(* Properties *)

\* Table, free list, entries, daemon and reply have the values their C types
\* and the handlers' return statements allow; the root directory is never
\* the head of the free list.
TypeOK ==
    /\ fat \in [Clusters -> Links]
    /\ free \in Links \ {ROOT_CLUSTER_START}
    /\ slots \in [Clusters -> [Slots -> DirEntry]]
    /\ daemon \in {"up", "segv", "abort", "lost"}
    /\ reply \in {"none", "0", "-1", "size", "ENOMEM", "ENOTEMPTY", "ENOTDIR", "EACCES"}

\* No cluster is in two chains: the chains of any two files or directories,
\* of the root directory and of the free list are pairwise disjoint, whatever
\* pop_free_clusters, free_cluster_chain, growing, shrinking and removing did
\* to the table.
NoCrossLink ==
    /\ Chain(fat, ROOT_CLUSTER_START) \cap Chain(fat, free) = {}
    /\ \A p \in Entries :
          /\ Chain(fat, EntryAt(p).first) \cap Chain(fat, free) = {}
          /\ Chain(fat, EntryAt(p).first) \cap Chain(fat, ROOT_CLUSTER_START) = {}
          /\ \A q \in Entries :
                p # q => Chain(fat, EntryAt(p).first) \cap Chain(fat, EntryAt(q).first) = {}

\* From every cluster the links lead to END_OF_CHAIN: the loops of
\* get_last_cluster_in_chain, free_cluster_chain, is_dir_empty and the
\* recursion of count_cluster_in_chain terminate.
ChainsEnd == \A c \in Clusters : Ends(fat, c)

\* A file's chain has room for the size its entry states, so that fat_read
\* and the shrinking loop of fat_truncate never walk past END_OF_CHAIN.
SizeCovered ==
    \A p \in Entries :
        EntryAt(p).type = DIR_ENTRY_TYPE_FILE =>
            EntryAt(p).size <= BYTE_PER_CLUSTER * Cardinality(Chain(fat, EntryAt(p).first))

\* Every entry is stored in a directory that a path leads to: removing a
\* directory never orphans what is in it, in whichever of its clusters.
TreeConnected ==
    \A p \in Entries : \E d \in Dirs : p[1] \in Chain(fat, d)

\* "." and ".." of a directory are its own and its parent's first cluster:
\* nothing an earlier owner of the cluster left there shows through.
DotsCorrect ==
    \A d \in Dirs, p \in Entries :
        /\ p[1] \in Chain(fat, d)
        /\ EntryAt(p).type = DIR_ENTRY_TYPE_SUBDIR
        => LET c == EntryAt(p).first
           IN  \A s \in Slots :
                  /\ slots[c][s].name = "." => slots[c][s].first = c
                  /\ slots[c][s].name = ".." => slots[c][s].first = d

\* The clusters that are neither free nor part of a file or directory.
Lost ==
    Clusters \ (Chain(fat, ROOT_CLUSTER_START) \cup Chain(fat, free)
                \cup UNION {Chain(fat, EntryAt(p).first) : p \in Entries})

\* A step loses no cluster, except that an insertion that adds no entry loses
\* the one cluster it had popped for the new object, and that a handler may
\* die with the clusters it had popped.
LossOnlyByFailedInsertion ==
    [][\/ Lost' = Lost
       \/ Lost' = Lost \cup {free} /\ Entries' = Entries /\ free \notin Lost
       \/ Lost \subseteq Lost' /\ daemon' = "abort"]_vars

\* "If there is not enough cluster, return ENOMEM" (update_file): a write that
\* needs more clusters than are free does not bring the daemon down.  For
\* constants under which nothing else kills it.
ShortageReturnsENOMEM == daemon # "segv"
=============================================================================
