----------------------------- MODULE FatReaddir -----------------------------
(***************************************************************************)
(* Listing a directory of src/FAT/fat.c.  fat_readdir is called until it   *)
(* returns no entry; each call resumes at the offset that the last entry   *)
(* of the call before came with, while entries are added and removed       *)
(* between the calls.                                                      *)
(*                                                                         *)
(* Offsets count DIR_ENTRY_SIZE bytes for every slot.  A cluster has       *)
(* PerCluster slots, the last of which crosses its end unless the one size *)
(* divides the other.                                                      *)
(***************************************************************************)
EXTENDS Integers, Sequences, FiniteSets

CONSTANTS
    BYTE_PER_CLUSTER,   \* 4096 in the code
    DIR_ENTRY_SIZE,     \* 40
    Names,              \* names of files
    Spelled,            \* what bytes inside an entry may spell when taken for a name
    MaxClusters,        \* bound: clusters of the directory
    PerCall             \* bound: entries that the buffer of a call has room for

\* A cluster has room for "." and ".."; no file has one of these names, or
\* none.  The bytes of an entry, its size among them, may spell any name.
ASSUME ReaddirAssumption ==
    /\ DIR_ENTRY_SIZE \in Nat \ {0}
    /\ BYTE_PER_CLUSTER \in Nat /\ BYTE_PER_CLUSTER > DIR_ENTRY_SIZE
    /\ Names \cap {"", ".", ".."} = {}
    /\ MaxClusters \in Nat \ {0} /\ PerCall \in Nat \ {0}

VARIABLES
    dir,       \* the names in the slots of the directory's clusters; "" is free
    offset,    \* where the next call resumes
    listed,    \* how often the names have been returned, 2 for more than once
    stayed,    \* the names that have been there all the time
    done       \* a call has returned nothing

vars == <<dir, offset, listed, stayed, done>>

PerCluster == (BYTE_PER_CLUSTER + DIR_ENTRY_SIZE - 1) \div DIR_ENTRY_SIZE

EmptyCluster == [s \in 0 .. PerCluster - 1 |-> ""]

Positions == (1 .. Len(dir)) \X (0 .. PerCluster - 1)

NamesIn == {dir[p[1]][p[2]] : p \in Positions} \ {""}

-----------------------------------------------------------------------------
(* Other handlers change the directory between two calls. *)

Before(p, q) == p[1] < q[1] \/ (p[1] = q[1] /\ p[2] <= q[2])

\* An entry is put in the first free slot, or in a new cluster.
Add(name) ==
    LET unused == {p \in Positions : dir[p[1]][p[2]] = ""}
    IN  /\ name \notin NamesIn
        /\ \/ \E p \in unused :
                 /\ \A q \in unused : Before(p, q)
                 /\ dir' = [dir EXCEPT ![p[1]][p[2]] = name]
           \/ /\ unused = {}
              /\ Len(dir) < MaxClusters
              /\ dir' = Append(dir, [EmptyCluster EXCEPT ![0] = name])
        /\ UNCHANGED <<offset, listed, stayed, done>>

Remove(name) ==
    /\ \E p \in Positions :
          /\ dir[p[1]][p[2]] = name
          /\ dir' = [dir EXCEPT ![p[1]][p[2]] = ""]
    /\ stayed' = stayed \ {name}
    /\ UNCHANGED <<offset, listed, done>>

-----------------------------------------------------------------------------
(* read_dir_entries *)

\* The place where the entry number n (from 1) of a call that starts at offset
\* is read, as cluster and byte.  Every BYTE_PER_CLUSTER bytes of the offset
\* skip a cluster; what remains is where the first cluster is entered, the
\* others are read from their start.
Place(start, n) ==
    LET cluster == start \div BYTE_PER_CLUSTER
        byte    == start % BYTE_PER_CLUSTER
        first   == (BYTE_PER_CLUSTER - byte + DIR_ENTRY_SIZE - 1) \div DIR_ENTRY_SIZE
    IN  IF n <= first THEN <<cluster + 1, byte + (n - 1) * DIR_ENTRY_SIZE>>
        ELSE <<cluster + 2 + (n - first - 1) \div PerCluster,
               ((n - first - 1) % PerCluster) * DIR_ENTRY_SIZE>>

\* The entries of a call: as long as there are clusters.
Scanned(start) == {n \in 1 .. Len(dir) * PerCluster : Place(start, n)[1] <= Len(dir)}

Misplaced(n) == Place(offset, n)[2] % DIR_ENTRY_SIZE # 0

\* The name of entry number n.  Where no slot starts it is what the bytes of
\* misread spell, nothing if a zero comes first.
NameRead(n, misread) ==
    IF Misplaced(n) THEN misread[n]
    ELSE dir[Place(offset, n)[1]][Place(offset, n)[2] \div DIR_ENTRY_SIZE]

\* Mutant: filler is given the offset of the entry instead of the next one.
resume_at_entry(start, n) == start + (n - 1) * DIR_ENTRY_SIZE

\* Mutant: one entry too far.
resume_behind_next(start, n) == start + (n + 1) * DIR_ENTRY_SIZE

\* The offset that comes with entry number n of a call.
entry_offset(start, n) == start + n * DIR_ENTRY_SIZE

OnceMore(x) == IF x = 0 THEN 1 ELSE 2

\* One call, with room for room entries: free slots are skipped, the entry that
\* finds no room ends the call.
fat_readdir ==
    /\ ~done
    /\ \E room \in 1 .. PerCall,
          misread \in [{n \in Scanned(offset) : Misplaced(n)} -> Spelled \cup {""}] :
          LET read(n) == NameRead(n, misread)
              found   == {n \in Scanned(offset) : read(n) # ""}
              taken   == {n \in found : Cardinality({m \in found : m <= n}) <= room}
          IN  /\ listed' = [name \in DOMAIN listed |->
                               IF \E n \in taken : read(n) = name
                               THEN OnceMore(listed[name]) ELSE listed[name]]
              /\ \/ taken = {} /\ done' = TRUE /\ UNCHANGED offset
                 \/ \E last \in taken :
                       /\ \A n \in taken : n <= last
                       /\ offset' = entry_offset(offset, last)
                       /\ UNCHANGED done
    /\ UNCHANGED <<dir, stayed>>

\* A new listing begins.
Rewind ==
    /\ done
    /\ offset' = 0
    /\ listed' = [name \in DOMAIN listed |-> 0]
    /\ stayed' = NamesIn
    /\ done' = FALSE
    /\ UNCHANGED dir

\* "." and ".." of a new directory.
Init ==
    /\ dir = <<[EmptyCluster EXCEPT ![0] = ".", ![1] = ".."]>>
    /\ offset = 0
    /\ listed = [name \in Names \cup {".", ".."} \cup Spelled |-> 0]
    /\ stayed = {".", ".."}
    /\ done = FALSE

Next ==
    \/ \E name \in Names : Add(name) \/ Remove(name)
    \/ fat_readdir
    \/ Rewind

\* The reader goes on calling.
Spec == Init /\ [][Next]_vars /\ WF_vars(fat_readdir)

-----------------------------------------------------------------------------
(* Properties *)

\* What no slot can have for a name.
Foreign == Spelled \ (Names \cup {".", ".."})

\* No call has resumed behind the first cluster and found one there.
NeverBehind == Len(dir) = 1 \/ offset < BYTE_PER_CLUSTER

\* When the listing has ended, every name that was there all the time in the
\* first cluster has been returned, in however many calls and whatever was added
\* and removed between them; and returned once, nothing foreign with it, unless
\* a call resumed in a second cluster.  That one resumes inside an entry: it may
\* pass over names of its cluster, and return foreign ones or, again, one of the
\* first cluster that the bytes happen to spell.
ListedOnce ==
    done =>
        /\ \A s \in 0 .. PerCluster - 1 :
              dir[1][s] \in stayed => listed[dir[1][s]] \in (IF NeverBehind THEN {1} ELSE {1, 2})
        /\ NeverBehind => \A x \in Foreign : listed[x] = 0

\* A listing ends, whatever is added and removed meanwhile.
ListingEnds == ~done ~> done
=============================================================================
