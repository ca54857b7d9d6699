------------------------------ MODULE FatDisk ------------------------------
(***************************************************************************)
(* The disk under the file system of src/FAT/fat.c.  The handlers of Fat   *)
(* reach the disk file as a sequence of pwrite calls; the daemon can be    *)
(* killed between any two of them and is mounted again from what the file  *)
(* then holds.  The calls of one process take effect in their order; a     *)
(* power failure that reorders them is not modelled.                       *)
(*                                                                         *)
(* The variables of Fat are the state that the running handler leaves when *)
(* it ends; the disk follows, write by write.  The bytes of files are left *)
(* out, as in Fat.                                                         *)
(***************************************************************************)
EXTENDS Fat, Sequences

CONSTANTS
    LINKS_PER_CLUSTER,    \* links in a cluster of the table, 1024 in the code
    CrashIn,              \* the kinds of handlers inside which the daemon is killed
    MaxCrashes            \* bound: how often it is killed

Kinds == {"format", "create", "grow", "remove", "shrink"}

ASSUME TableAssumption == LINKS_PER_CLUSTER \in Nat \ {0}

ASSUME CrashAssumption == CrashIn \subseteq Kinds /\ MaxCrashes \in Nat

VARIABLES
    disk,     \* the disk file: its state, and superblock, table and entries in it;
              \* in a "zeroed" file the superblock is zeros, whatever free says
    todo,     \* the writes the running handler has still to make
    kind,     \* what the running handler does ("none" when none runs), and
    at,       \* the slot of the object it does it to; <<>> for a new one
    crashes

diskVars == <<fat, free, slots, daemon, reply, disk, todo, kind, at, crashes>>

\* What Fat says of its state, said of the disk.
D == INSTANCE Fat WITH fat <- disk.fat, free <- disk.free, slots <- disk.slots

-----------------------------------------------------------------------------
(* Writes.  The superblock and the clusters of a directory are written as  *)
(* a whole; all of a write but the named part repeats what has been read.  *)

\* The clusters whose links share a cluster of the table with the one of c.
TableCluster(c) ==
    LET number(x) == (x - ROOT_CLUSTER_START) \div LINKS_PER_CLUSTER
    IN  {x \in Clusters : number(x) = number(c)}

Super(v)  == [op |-> "super", value |-> v]
Zero(c)   == [op |-> "zero", cluster |-> c]
Put(p, e) == [op |-> "put", slot |-> p, entry |-> e]
Clear     == [op |-> "clear"]

\* update_fat_entry changes the table f in memory and writes the cluster of
\* the table that holds the link, with its neighbours, from there.
Link(f, c, v) == [op |-> "link", cluster |-> c, table |-> update_fat_entry(f, c, v)]

Written(d, w) ==
    CASE w.op = "create" -> [d EXCEPT !.file = "empty"]
      [] w.op = "size"   -> [d EXCEPT !.file = "zeroed"]
      [] w.op = "super"  -> [d EXCEPT !.file = "formatted", !.free = w.value]
      [] w.op = "table"  -> [d EXCEPT !.fat = init_fat]
      [] w.op = "link"   -> [d EXCEPT !.fat = [c \in Clusters |->
                                IF c \in TableCluster(w.cluster) THEN w.table[c] ELSE d.fat[c]]]
      [] w.op = "zero"   -> [d EXCEPT !.slots[w.cluster] = ZeroCluster]
      [] w.op = "put"    -> [d EXCEPT !.slots = PutEntry(d.slots, w.slot, w.entry)]
      [] w.op = "clear"  -> [d EXCEPT !.file = "zeroed"]

\* The superblock is written before the table; only then are the clusters
\* zeroed, one by one along the chain.
pop_writes(a, k) ==
    <<Super(pop_free_clusters(a, k).free),
      Link(a.fat, nth_cluster(a.fat, a.free, k - 1), END_OF_CHAIN)>>
    \o [i \in 1 .. k |-> Zero(nth_cluster(a.fat, a.free, i - 1))]

\* Mutant: the chain is extended before the clusters are taken.
append_before_pop(a, c, k) ==
    LET link == Link(a.fat, get_last_cluster_in_chain(a.fat, c), a.free)
    IN  <<link>> \o pop_writes([fat |-> link.table, free |-> a.free], k)

append_writes(a, c, k) ==
    pop_writes(a, k)
    \o <<Link(pop_free_clusters(a, k).fat, get_last_cluster_in_chain(a.fat, c), a.free)>>

free_writes(a, c) ==
    <<Link(a.fat, get_last_cluster_in_chain(a.fat, c), a.free), Super(c)>>

\* Mutant: the first entry of a new cluster is written before the cluster is
\* part of the directory.
put_before_link(d, e, a) ==
    pop_writes(a, 1)
    \o <<Put(<<a.free, 0>>, e),
         Link(pop_free_clusters(a, 1).fat, get_last_cluster_in_chain(a.fat, d), a.free)>>

new_cluster_writes(d, e, a) == append_writes(a, d, 1) \o <<Put(<<a.free, 0>>, e)>>

\* add_dir_entry_to_cluster in the parent directory d, when the object's own
\* cluster c has been popped, which leaves the allocator a.
insert_writes(d, name, type, c, a) ==
    CASE name \notin Names -> <<>>
      [] name \in Names /\ FirstSlot(d, "") # {} ->
            LET p == CHOOSE p \in FirstSlot(d, "") : TRUE
            IN  <<Put(p, IF Fits(p[2]) THEN NewEntry(name, type, c) ELSE TornEntry(name))>>
      [] name \in Names /\ FirstSlot(d, "") = {} ->
            IF has_free_cluster(a) THEN new_cluster_writes(d, NewEntry(name, type, c), a) ELSE <<>>

dot_writes(c, parent) ==
    <<Put(<<c, 0>>, NewEntry(".", DIR_ENTRY_TYPE_SUBDIR, c)),
      Put(<<c, 1>>, NewEntry("..", DIR_ENTRY_TYPE_SUBDIR, parent))>>

\* The writes of add_dir_entry, which dies in the insertion unless survives.
create_writes(d, name, type, survives) ==
    IF ~has_free_cluster(Alloc) THEN <<>>
    ELSE pop_writes(Alloc, 1)
         \o insert_writes(d, name, type, free, pop_free_clusters(Alloc, 1))
         \o (IF survives /\ type = DIR_ENTRY_TYPE_SUBDIR THEN dot_writes(free, d) ELSE <<>>)

\* Removal gives the clusters back first and clears the entry last.
remove_writes(p) == free_writes(Alloc, EntryAt(p).first) \o <<Put(p, FreeSlot)>>

\* The writes of update_file up to the entry, for a last byte number final; an
\* entry without a first cluster fails an assertion behind the pop.
grow_writes(p, final) ==
    LET e    == EntryAt(p)
        end  == (final + 1) % UINT_RANGE
        more == ((final \div BYTE_PER_CLUSTER) + 1) - count_cluster_in_chain(fat, e.first)
        size == IF end > e.size THEN <<Put(p, WithSize(e, end))>> ELSE <<>>
    IN  IF more <= 0 THEN size
        ELSE IF more > free_count(Alloc) THEN <<>>
        ELSE IF e.first = 0 THEN pop_writes(Alloc, more)
        ELSE append_writes(Alloc, e.first, more) \o size

\* The data that update_file writes last: bytes of files, but for the walk
\* that wraps around, which clears the superblock before it kills the daemon.
data_writes(lost) == IF lost THEN <<Clear>> ELSE <<>>

\* Mutant: the cut is made in memory only, update_fat_entry(..., false).
shrink_unwritten(p, size) ==
    LET e     == EntryAt(p)
        last  == nth_cluster(fat, e.first, size \div BYTE_PER_CLUSTER)
        after == fat[last]
        cut   == [fat |-> update_fat_entry(fat, last, END_OF_CHAIN), free |-> free]
    IN  (IF after = END_OF_CHAIN THEN <<>> ELSE free_writes(cut, after))
        \o <<Put(p, WithSize(e, size))>>

\* Shrinking cuts the chain, gives back what follows, then stores the size.
shrink_writes(p, size) ==
    LET e     == EntryAt(p)
        last  == nth_cluster(fat, e.first, size \div BYTE_PER_CLUSTER)
        after == fat[last]
        cut   == [fat |-> update_fat_entry(fat, last, END_OF_CHAIN), free |-> free]
    IN  <<Link(fat, last, END_OF_CHAIN)>>
        \o (IF after = END_OF_CHAIN THEN <<>> ELSE free_writes(cut, after))
        \o <<Put(p, WithSize(e, size))>>

\* Mutant: the free list starts at the root directory.
format_from_root ==
    <<[op |-> "create"], [op |-> "size"], Super(ROOT_CLUSTER_START), [op |-> "table"]>>
    \o dot_writes(ROOT_CLUSTER_START, ROOT_CLUSTER_START)

format_writes ==
    <<[op |-> "create"], [op |-> "size"], Super(FREE_CLUSTER_START), [op |-> "table"]>>
    \o dot_writes(ROOT_CLUSTER_START, ROOT_CLUSTER_START)

-----------------------------------------------------------------------------
(* Handlers *)

Blank == [file |-> "absent", fat |-> [c \in Clusters |-> END_OF_CHAIN], free |-> END_OF_CHAIN,
          slots |-> [c \in Clusters |-> ZeroCluster]]

\* No disk file yet, and no daemon.
DiskInit ==
    /\ fat = Blank.fat /\ free = Blank.free /\ slots = Blank.slots
    /\ daemon = "killed" /\ reply = "none"
    /\ disk = Blank
    /\ todo = <<>> /\ kind = "none" /\ at = <<>>
    /\ crashes = 0

Running == todo # <<>>

\* The handler has been called with Fat's effect and makes the writes ws.
Runs(k, p, ws) ==
    /\ todo' = ws
    /\ kind' = IF ws = <<>> THEN "none" ELSE k
    /\ at' = IF ws = <<>> THEN <<>> ELSE p
    /\ UNCHANGED <<disk, crashes>>

RunCreate ==
    /\ daemon = "up" /\ ~Running
    /\ \E d \in Dirs, name \in Names \cup LongNames :
          \/ /\ fat_mkdir(d, name)
             /\ Runs("create", <<>>, create_writes(d, name, DIR_ENTRY_TYPE_SUBDIR, daemon' = "up"))
          \/ /\ \/ fat_mknod(d, name, TRUE) \/ fat_create(d, name)
             /\ Runs("create", <<>>, create_writes(d, name, DIR_ENTRY_TYPE_FILE, daemon' = "up"))
          \/ fat_mknod(d, name, FALSE) /\ Runs("create", <<>>, <<>>)

RunRemove(p) ==
    /\ fat_rmdir(p) \/ fat_unlink(p)
    /\ Runs("remove", p, IF reply' = "0" THEN remove_writes(p) ELSE <<>>)

RunWrite(p) ==
    \E size \in WriteSizes, offset \in WriteOffsets :
        /\ fat_write(p, size, offset)
        /\ Runs("grow", p, grow_writes(p, (offset + size + UINT_RANGE - 1) % UINT_RANGE)
                           \o data_writes(daemon' = "lost"))

\* What is extended ends with the byte before the new size, whatever the old
\* size was read as; an entry without a first cluster may be read as one of
\* any size, and pops clusters only if the assertion behind fails.
RunTruncate(p) ==
    \E size \in TruncateSizes :
        /\ fat_truncate(p, size)
        /\ LET e     == EntryAt(p)
               grows == grow_writes(p, (size + UINT_RANGE - 1) % UINT_RANGE)
                        \o data_writes(daemon' = "lost")
           IN  CASE e.first = 0 /\ daemon' = "abort" -> Runs("grow", p, grows)
                 [] e.first = 0 /\ daemon' # "abort" -> Runs("grow", p, <<>>)
                 [] e.first # 0 /\ size > e.size     -> Runs("grow", p, grows)
                 [] e.first # 0 /\ size < e.size     -> Runs("shrink", p, shrink_writes(p, size))
                 [] e.first # 0 /\ size = e.size     -> Runs("shrink", p, <<>>)

RunOnObject ==
    /\ daemon = "up" /\ ~Running
    /\ \E d \in Dirs, name \in Names : \E p \in find_dir_entry_by_name(d, name) :
          RunRemove(p) \/ RunWrite(p) \/ RunTruncate(p)

Write ==
    /\ Running
    /\ disk' = Written(disk, Head(todo))
    /\ todo' = Tail(todo)
    /\ kind' = IF todo' = <<>> THEN "none" ELSE kind
    /\ at' = IF todo' = <<>> THEN <<>> ELSE at
    /\ UNCHANGED <<fat, free, slots, daemon, reply, crashes>>

-----------------------------------------------------------------------------
(* Crashing and mounting *)

Crash ==
    /\ Running
    /\ kind \in CrashIn
    /\ crashes < MaxCrashes
    /\ fat' = disk.fat /\ free' = disk.free /\ slots' = disk.slots
    /\ daemon' = "killed"
    /\ reply' = "none"
    /\ todo' = <<>> /\ kind' = "none" /\ at' = <<>>
    /\ crashes' = crashes + 1
    /\ UNCHANGED disk

\* fat_init.  A disk file that does not exist is formatted.
Format ==
    /\ daemon # "up" /\ ~Running
    /\ disk.file = "absent"
    /\ fat' = init_fat
    /\ free' = FREE_CLUSTER_START
    /\ slots' = AddDots(slots, DIR_ENTRY_TYPE_SUBDIR, ROOT_CLUSTER_START, ROOT_CLUSTER_START)
    /\ daemon' = "up"
    /\ reply' = "none"
    /\ Runs("format", <<>>, format_writes)

\* Any other is read.  An empty one fails the assertion on its superblock.  One
\* with a superblock of zeros mounts, and no request succeeds: a lookup aborts,
\* for no cluster is below its cluster_count, and readdir never leaves its
\* first loop.
Mount ==
    /\ daemon # "up" /\ ~Running
    /\ disk.file # "absent"
    /\ daemon' = IF disk.file = "empty" THEN "abort"
                 ELSE IF disk.file = "zeroed" THEN "lost" ELSE "up"
    /\ reply' = "none"
    /\ UNCHANGED <<fat, free, slots, disk, todo, kind, at, crashes>>

DiskNext == RunCreate \/ RunOnObject \/ Write \/ Crash \/ Format \/ Mount

DiskSpec == DiskInit /\ [][DiskNext]_diskVars

-----------------------------------------------------------------------------
(* Properties *)

\* The disk file, the pending writes and the handler have the values the code
\* can give them; the root directory never heads the free list of the disk.
DiskTypeOK ==
    /\ disk.file \in {"absent", "empty", "zeroed", "formatted"}
    /\ disk.fat \in [Clusters -> Links]
    /\ disk.free \in Links \ {ROOT_CLUSTER_START}
    /\ disk.slots \in [Clusters -> [Slots -> DirEntry]]
    /\ daemon \in {"up", "segv", "abort", "lost", "killed"}
    /\ \A i \in 1 .. Len(todo) :
          todo[i].op \in {"create", "size", "table", "super", "link", "zero", "put", "clear"}
    /\ kind \in Kinds \cup {"none"}
    /\ at = <<>> \/ at \in Clusters \X Slots
    /\ crashes \in 0 .. MaxCrashes

\* Every handler writes all it changes: when it has ended, superblock, table
\* and entries on the disk are those it works on in memory.  The writes, each
\* derived from the call that makes it, add up to the handler's effect, though
\* each write of a link carries the copy in memory of all its neighbours; and a
\* daemon that goes on has not written over the superblock.
DiskCurrent ==
    ~Running =>
        /\ disk.fat = fat /\ disk.free = free /\ disk.slots = slots
        /\ daemon = "up" => disk.file = "formatted"

\* The object that is being removed or shrunk.
InDoubt == IF kind \in {"remove", "shrink"} THEN {at} ELSE {}

\* Whenever the daemon is killed, inside which handler ever, the damage is
\* confined to the object that was being removed or shrunk: on the disk all
\* walks end, no two files or directories share a cluster, the free list runs
\* into nothing but that object, and no other size lacks clusters.  Creating
\* and growing are safe, also on disks that crashes have left before.
CrashDamageLocal ==
    LET chain(p) == Chain(disk.fat, D!EntryAt(p).first)
        root     == Chain(disk.fat, ROOT_CLUSTER_START)
        unused   == Chain(disk.fat, disk.free)
    IN  /\ D!ChainsEnd
        /\ root \cap unused = {}
        /\ \A p \in D!Entries :
              /\ chain(p) \cap root = {}
              /\ \A q \in D!Entries : p # q => chain(p) \cap chain(q) = {}
              /\ p \notin InDoubt =>
                    /\ chain(p) \cap unused = {}
                    /\ D!EntryAt(p).type = DIR_ENTRY_TYPE_FILE =>
                          D!EntryAt(p).size <= BYTE_PER_CLUSTER * Cardinality(chain(p))

\* Whenever the daemon is killed, every entry on the disk is in a directory
\* that a path leads to: the entry of a new object is written only when the
\* cluster it is put in belongs to the directory.
EntriesReachable == D!TreeConnected
=============================================================================
