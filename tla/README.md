# Verification of LLP_filesystem

The repository holds three independent programs that serve files:

* **FAT** (`src/FAT/fat.c`): a FUSE daemon that keeps a simplified FAT file system
  in one file of 10 MB;
* **FTP** (`src/FTP/ftp_server.c`): an FTP server for one client at a time, passive
  mode only;
* **NFS** (`src/NFS/`): a stateless, read-only NFS v3 server over ONC RPC.

This directory holds TLA+ modules that model them, TLC configurations that check the
modules on small instances, and TLAPS proofs for every value of the constants.

## 1. Inventory

### FAT

| part | state | operations |
|---|---|---|
| allocation table and free list (166-292) | `fat_table` in memory, its copy in clusters 1..3, `superblock.s.free_cluster_start` | `read_fat_entry`, `update_fat_entry`, `pop_free_clusters`, `add_free_cluster`, `free_cluster_chain`, `count_cluster_in_chain`, `get_last_cluster_in_chain` |
| directories (294-546) | 40-byte entries in the clusters of a directory: name, type, size, first cluster, time | find by name and by path, add, update, remove, list, test for emptiness |
| files (548-632, 852-960) | the clusters of a chain | `update_file`, `fat_read`, `fat_truncate` |
| mounting (634-718) | the disk file | format, read back |
| handlers (720-996) | none | one per FUSE operation |

The Makefile mounts with `-s`: libfuse runs one handler at a time, so there is no
interleaving of handlers. What is hard here is the shape that long sequences of requests
give the table and the free list, the limits (free list nearly exhausted, directory
cluster full, `unsigned int` arithmetic on sizes), steps of a handler that fail after
earlier ones have changed the disk, and a daemon that dies in the middle.

Correct means: no cluster in two chains; every chain ends; a file's chain covers its
size; the entries form a tree rooted in the root directory; clusters are not lost;
what a handler reports is what it did; through its paths the disk is one tree of files and
directories, and a file one array of bytes; a listing returns every entry once; a crash
between two writes damages at most the object that was being changed.

### FTP

State: `client_socket` and `server_socket` (global), `data_socket` (local to a session),
the working directory (of the process, so it outlives the session), the files below it.
Operations: accepting a client, one branch of `handle_ftp_commands` per command, the
passive socket's `accept`, `receive_file`, `send_file`, `get_listing`.

The server is one thread: while it waits in the `accept` of a data socket or in the `recv`
of a transfer nothing else is served. Hard: clients that stop in the middle of a transfer,
a second `PASV`, commands that arrive together in one `recv`, descriptors that are never
closed, writes to a connection the client has closed (SIGPIPE), a working directory that
other processes rename or remove, transfers that fail half-way.

Correct means: every client is served and every command answered; descriptors come back; the
server dies of nothing a client does in order; MKD and RMD act in the directory the session
is in; an acknowledged transfer has delivered its bytes.

### NFS

State: one static result structure per procedure, which survives the call; the files of
the host. Operations: MNT, FSINFO, PATHCONF, GETATTR, ACCESS, READDIR, LOOKUP, READ;
`fill_attributes`, `fill_entries_for_readdir`, `fill_READ3res_stream`.
Hard: attributes left by an earlier call when `stat` fails, retransmitted and reordered
calls, files that change or vanish between two calls, the end-of-file flags of READDIR and
READ. `nfs_svc.c`, `nfs_xdr.c` and `nfs.h` are generated by rpcgen from `nfs.x`.

## 2. Modules

| module | models | extends |
|---|---|---|
| `FatTable` | the allocation table and the free list, as a data structure | |
| `Fat` | the mounted file system: handlers, directories, sizes, remounting | `FatTable` |
| `MCFat` | model values and symmetry for TLC | `Fat` |
| `FatProofs` | lemmas about chains, and the theorems about the file system | `Fat` |
| `FatDisk`, `MCFatDisk` | the handlers as writes to the disk, the daemon killed between two of them | `Fat` |
| `FatDiskProofs` | the theorems about the disk | `FatDisk`, `FatProofs` |
| `FsTree` | abstract: what a mounted file system promises | |
| `FatTree`, `MCFatTree` | the handlers that look things up; `Fat` implements `FsTree` | `Fat` |
| `ByteFile` | abstract: what a file promises | |
| `FatFile`, `MCFatFile` | the bytes of a file in its clusters; implements `ByteFile` | |
| `FatReaddir`, `MCFatReaddir` | listing a directory in several calls | |
| `FatFileProofs`, `FatReaddirProofs` | the theorems about files and listings | `FatFile`; `FatReaddir` |
| `FtpServer`, `MCFtp` | the FTP server and its clients | |
| `FtpDirectories`, `MCFtpDirectories` | the working directory that the sessions share | |
| `FtpFiles`, `MCFtpFiles` | the bytes that STOR and RETR move | |
| `NfsServer`, `MCNfs` | the NFS server, its clients, network and host | |
| `FtpServerProofs`, `FtpDirectoriesProofs`, `FtpFilesProofs`, `NfsServerProofs` | the theorems about the servers | the module of that name |

Definitions have the names of the functions they stand for; `PROJECT.json` has the lines.
Operators whose comment begins with "Mutant" are wrong on purpose: each replaces the
definition behind it to show that a property notices the error.

### FatTable

A table is a function from clusters to links. The code walks along it with loops and
recursion; here `Chain(f, c)`, the clusters a walk from `c` visits, is the least set that
holds `c` and is closed under the links. The end of a chain, its length and its n-th cluster
are defined from it, so that the module has no recursion and can be proved about.
An operation takes and returns an allocator state, a record of the table and the head of
the free list. `pop_free_clusters` is the successful case; `pop_reports_shortage` and
`pop_reads_wild` are the two ways in which too short a list is met (see 5).

### Fat

State: `fat` (`fat_table`), `free` (`superblock.s.free_cluster_start`), `slots` (the
entries of every cluster, as they are on disk), `daemon` (up, or how it died) and `reply`
(what the last handler returned). One action per handler that changes anything: `fat_mkdir`,
`fat_rmdir`, `fat_mknod`, `fat_create`, `fat_unlink`, `fat_write`, `fat_truncate`, and
`Remount`. Each is the whole handler, the inlined calls included.

* Paths are resolved by the kernel one name at a time. A request therefore names a directory
  that a path leads to (`Dirs`) and a name in it; creation is asked for only when the name
  was not found, everything else when it was. This is FUSE's behaviour, not the daemon's.
* Cluster size and entry size are constants, so that the last slot need not fit
  (4096 is no multiple of 40). An entry put there is torn: type, size and first cluster are
  read from the heap behind the buffer from then on. `HeapBytes` are the sizes found there.
  Its name keeps 16 bytes. `TornEntry` keeps the whole name: names are taken to be no longer. A
  longer one would be found under its beginning only, which may be another entry's name.
* `unsigned int` is arithmetic modulo `UINT_RANGE`.
* A handler that dies leaves what it had written before; `Remount` starts the daemon again.
* Sizes, not contents, of files are kept.

### FatDisk

`Fat` lets a handler change memory and disk in one step. Here its step fills `todo` with the
`pwrite` calls the handler makes, in their order, and `Write` performs them one by one on
`disk`, the disk file (superblock, table and entries). Formatting (create the file, set its size, write
superblock, table and the root's dots) is a handler too. A link is written as the code writes
it, with the whole cluster of the table that it is in, from memory (`TableCluster`); of the
data that `update_file` writes last only the write of a wrapped walk over cluster 0 matters
here, which clears the superblock (`Clear`). `Crash` kills the daemon between any two
writes; `Mount` starts it from what the file then holds, formatted or not. The variables of `Fat`
are the state that the running handler leaves at its end. A process that is killed loses
nothing of what it has written, and its writes keep their order: a power failure, which can
lose and reorder them, is not modelled.

### FsTree and FatTree

`FsTree` knows paths, types, sizes and a number of free blocks. `FatTree` adds the lookups of
`find_dir_entry_by_path`, `fat_getattr` (whose lookup is also that of `fat_access` and
`fat_open`) and `fat_statfs` to `Fat`; `tree` and `avail` hold what they answer, for every
path, after every step. `ImplementsFsTree` says that these answers change as `FsTree`
allows. It is stated for constants under which no entry is torn and no extension of a file
wraps around; section 5 says what happens otherwise.

### ByteFile and FatFile

One file with its clusters and their bytes, a second file that takes and returns clusters, and the
free list. `update_file` is the code's split of a write into a first, full and last part,
`pop_free_clusters` the zeroing, `Shrink` the cut that leaves bytes behind the new end.
`ByteFile` is an array of bytes; `ImplementsByteFile` maps byte `i` to its place in the chain.
The one freedom that `ByteFile` grants: after a cut, a write that starts behind the end leaves
a gap in which the file's own old bytes may show. Read offsets are multiples of the cluster
size, as the page-wise reads of the kernel are: `fat_read` ignores the offset within a cluster.

### FatReaddir

A directory as slots, the offset at which the reader resumes, and additions and removals between
its calls. Offsets and places are computed as `read_dir_entries` does, the place where no slot
starts included. What is read there are bytes from within an entry, its size among them, and
these may spell any name of `Spelled`, that of a file of the first cluster too, or nothing.

### FtpServer

The server's steps end where it can block or where it sends. `pc` tells where it is: in the
`accept` of `main`, in the `recv` of a command, in the `accept` of a data socket, in a
transfer, or dead. `passive` is `data_socket`, which keeps its number after it was closed.
`Descriptors` counts what is open; `leaked` the listening sockets that no variable refers to
any more. A send to a connection that the other side has closed succeeds once; the next one
may raise SIGPIPE, which nothing handles.

Clients connect, send commands, connect to the data port, end their data and leave, at any
time. A client in `Impatient` may also leave things unfinished and send commands before the
answers to earlier ones. Commands without a socket are one command, `other`, but for the ones
that change the working directory, `CWD`: `readable` says whether the directory it leads to can be
listed, and `Chmod` changes that (if `Unreadable`). `announced` is what a patient client knows of its
passive socket: it has been told a port and not yet how a transfer on it ended. After a 425
it takes the port for gone, and asks for another or leaves, whether or not the server has closed it.

### FtpDirectories

The host's directories are a tree of identities with parent and name, so that a directory
that is renamed stays itself while paths to it change. `cwd` is the directory of the process; `current_directory` the path that
`getcwd` returned when the command began. The host makes, removes and renames directories and moves
them to other parents (`Rename`, not into themselves: `Outside`). MKD and RMD are three steps (receive, change to the
path, make or remove), between which `Host` may act; `meddled` records that it did.

### FtpFiles

One file and one data connection as a stream of bytes. `recv` returns any piece of what has
arrived; stdio writes any part of what it has been given, the rest at `fclose` or `exit`. `fopen`, the
disk and the connection may fail; `failed` records which did.

### NfsServer

`static` holds the attributes in the static result of every procedure. Calls and replies are
sets of datagrams: losing removes one, serving a call may leave a copy of it, and calls are
served in any order. Clients repeat a call until it is answered and drop replies to calls
that have been. The host creates, removes and extends files; files in `Stable` are never
removed. `Restart` zeroes the static results. `Faults` lets `malloc` and `readdir` fail; a failing
`readdir` is taken for the end of the directory, as in the code (`cut` records it). A result that is
larger than the transport's buffer, `MaxReply`, is answered by an RPC error (`svc_sendreply`).

## 3. What TLC checks

| run | instance | properties |
|---|---|---|
| `fat_tree` | 5 clusters, 2 slots in each, all paths; sizes at and around cluster limits, an offset that wraps | `TypeOK`, `DotsCorrect`, `NoCrossLink`, `ChainsEnd`, `SizeCovered`, `TreeConnected`, `LossOnlyByFailedInsertion`, `ImplementsFsTree` |
| `fat_disk` | 4 clusters, 3 slots in each, the last one torn; wrapping sizes, a name too long; killed once | `DiskTypeOK`, `DiskCurrent`, `CrashDamageLocal`, `EntriesReachable` |
| `fat_bytes` | 3 clusters of 2 bytes, writes of 1 and 4 bytes at offsets inside and at limits | `NoForeignBytes`, `ImplementsByteFile` |
| `fat_readdir` | up to two clusters of 4 slots, the last one crossing its cluster's end; 3 names beside the dots | `ListedOnce`, `ListingEnds` |
| `ftp_patient` | 3 clients that finish what they begin, fairness | `AnsweredBeforeNext`, `EveryClientServed`, `CommandsAnswered` |
| `ftp_impatient` | 2 clients, one impatient; 5 descriptors; directories that cannot be read | `TypeOK`, `DeathHasCause`, `LeaksHaveCause` |
| `ftp_directories` | 3 directories beside the root, 2 names | `WorkingDirectoryKept`, `ChangesWhereWorking` |
| `ftp_bytes` | uploads of 0, 1 and 5 bytes, a buffer of 2 | `CompleteUnlessFailed`, `StoredPrefix` |
| `nfs_reader` | a reader and a lister, fairness | `TypeOK`, `ReadsPrefix`, `ReadsToEnd`, `ReaderFinishes`, `ListingEnds` |
| `nfs_static` | a client that makes two calls of any kind, files that come and go; `malloc` and `readdir` fail, and a listing of two files does not fit the reply | `StableFilesSeen`, `ListingComplete` |

Why the bounds are enough. FAT: with five clusters a directory can grow into a second
cluster, two files can be long while the free list is empty, one short, or two short, and
every cluster is reused by objects of the other type; the remaining limit, the number of
clusters, is removed by the proofs. With two slots per cluster a directory's first cluster
holds only its dots, so that every name is in a later one; with three slots, the instance of
`fat_disk`, insertions meet the torn slot. The two names are interchangeable, hence the symmetry. FTP:
five descriptors are exactly what a transfer needs (server, client, passive socket, data
connection, file), so that one forgotten socket already makes a transfer fail. Three
directories nest three deep, with room for one to be removed under the server and another to take its
name; five bytes through a buffer of two arrive in full and in short pieces. NFS: two names, one of them stable; a file of up to
three bytes read two at a time ends inside and at a chunk's limit.

`fat_disk` kills the daemon once inside formatting, creating and growing and goes on with the disk
it finds; the properties look at every point between two writes, so that a second kill is
covered. Removing and shrinking are cut at every write too, and `CrashDamageLocal` is checked
there, but the disk they leave is not used further: an entry whose chain is already free
would, removed a second time, close a cycle in the free list. `CrashDamageLocal` therefore
describes, for these two, damage that a later request can make worse. The view of
`fat_disk` leaves the last reply out of the state; no action and no property reads it.

Deadlock is checked everywhere but in `ftp_impatient`, where the server may die.

Fairness. The FTP server is a running process (weak fairness of its steps). A patient client
connects to the port it asked for, starts the transfer, ends the file it stores and leaves
in the end, and directories can be read; the code has no timeouts, so that nothing can be shown without it, and the runs
say what the server promises to clients that do. NFS clients repeat calls for ever, as a
hard mount does; a datagram sent again and again arrives in the end and the server
serves it (strong fairness of serving and of receiving). The reader of a directory goes on
calling until a call returns nothing (weak fairness of `fat_readdir`), as `readdir` loops do.

What the violation runs show is in section 5.

## 4. What TLAPS proves

| module | theorem | statement |
|---|---|---|
| `FatProofs` | `InvariantHolds` | `Spec => []FatInv` |
| | `TypeCorrect` | `Spec => []TypeOK` |
| | `NoClusterShared` | `Spec => []NoCrossLink` |
| | `WalksEnd` | `Spec => []ChainsEnd` |
| | `SizesCovered` | `Spec => []SizeCovered` |
| | `TreeStaysConnected` | `Spec => []TreeConnected` |
| | `DotsStayCorrect` | `Spec => []DotsCorrect` |
| | `ClustersAreLostOnlyByFailures` | `Spec => LossOnlyByFailedInsertion` |
| `FatDiskProofs` | `DiskTyped` | `OrderlyCrashes => (DiskSpec => []DiskTypeOK)` |
| | `DiskStaysCurrent` | `OrderlyCrashes => (DiskSpec => []DiskCurrent)` |
| | `CrashDamageStaysLocal` | `OrderlyCrashes => (DiskSpec => []CrashDamageLocal)` |
| | `EntriesStayReachable` | `OrderlyCrashes => (DiskSpec => []EntriesReachable)` |
| `FatFileProofs` | `ForeignBytesStayOut` | `Spec => []NoForeignBytes` |
| | `FileImplementsByteFile` | `Spec => ImplementsByteFile` |
| `FatReaddirProofs` | `StayingNamesListed` | `Spec => []ListedOnce` |
| `FtpServerProofs` | `TypeCorrect` | `Spec => []TypeOK` |
| | `DeathsHaveCauses` | `Spec => []DeathHasCause` |
| | `CommandsAnsweredInTurn` | `Spec => []AnsweredBeforeNext` |
| | `LeaksHaveCauses` | `Spec => LeaksHaveCause` |
| `FtpDirectoriesProofs` | `WorkingDirectoryStays` | `Spec => WorkingDirectoryKept` |
| | `ChangesAreWhereWorking` | `Spec => ChangesWhereWorking` |
| `FtpFilesProofs` | `FileIsPrefix` | `Spec => []StoredPrefix` |
| | `CompleteOrFailed` | `Spec => []CompleteUnlessFailed` |
| `NfsServerProofs` | `TypeCorrect` | `Spec => []TypeOK` |
| | `ReadersHavePrefix` | `Spec => []ReadsPrefix` |
| | `ReadersReachEnd` | `Spec => []ReadsToEnd` |
| | `StableFilesAreSeen` | `Spec => []StableFilesSeen` |
| | `ListingsAreComplete` | `Spec => []ListingComplete` |

Every module of proofs also shows that its inductive invariant holds (`InvariantHolds`; in
`FatDiskProofs` the lemma `DiskInvHolds`). Each of these invariants was checked by TLC on the run's instance before it was proved.

### Assumptions

They are the `ASSUME`s of the modules; TLC evaluates them on every instance, and the code's
constants satisfy them.

* `Fat`: there is a free cluster after formatting, a cluster holds "." and "..", the disk and one
  write beyond it are smaller than the range of `unsigned int`, no name is empty, "." or "..", and no
  name is both one that an entry can hold and a longer one.
* `FatDisk`: `OrderlyCrashes` is a hypothesis of the theorems and true of the run: the daemon is not killed
  inside removing and shrinking. These two give clusters back to the free list before the entry lets
  go of them; a daemon that mounts what lies between can hand the clusters of the old object to a new
  one. What the disk is like at that moment the theorems do say, since they hold in every state
  of a handler that removes or shrinks: all but its object is intact.
* `FatFile`: writes, cuts and reads have natural offsets and sizes, writes are not empty, and
  reads start at a multiple of the cluster size; a byte of the other file is told from the file's own.
* `FatReaddir`: a cluster is larger than an entry; no file has the name "", "." or "..".
* `FtpServer`: there are the five descriptors that one transfer needs. With fewer a session could
  fail without anybody's fault.
* `FtpDirectories`: the root is none of the other directories. Their number is not limited, nor is the depth of
  the tree.
* `FtpFiles`: what is uploaded are bytes, 0 to 255, so that a byte is never EOF.
* `NfsServer`: files are finitely many, the ones in `Stable` fewer than the bound on files, readers do
  nothing but read; `None` is like no object and no message.

### Arguments

**FAT, chains (`FatInv`).** That chains are disjoint is not inductive: pushing a chain on the free
list relies on every chain having an end, and cutting a file relies on its size being covered by
its chain, without which the cut would be looked for behind the end. `FatInv` adds what is
needed: every walk ends, also one from a lost cluster, the chains of the root, the free list and
all entries are disjoint and have different heads, and sizes are covered. It says nothing
of where a lost cluster links to. A handler that is killed behind the write of the superblock leaves
a popped cluster linked into the free list, and the invariant is meant to hold of such disks too.
The first part of `FatProofs` shows from the definition of `Chain` what cutting a chain
(`CutForest`, `CutChain`), linking two (`LinkForest`, `LinkChain`) and therefore popping,
appending, freeing and truncating do to all chains and their lengths. Then there is one
lemma per handler; `Rebuild` collects what a handler must leave behind for the invariant to
hold again. `InitEnds` shows that a formatted disk's free list ends, by counting: the links
would otherwise map a chain one-to-one into a proper subset of itself.

**FAT, the tree (`TreeInv`).** `TreeInv` is `FatInv` and `TreeOK`: subdirectories have a cluster, every
entry, also one torn at the end of its cluster, is in a directory below the root, no directory holds a
name twice, and dots are right. That names are held once is needed because a path finds the first
entry of a name only: a subdirectory behind a second one would be in the directory and out of
reach. `Dirs`, defined by searching, is then the least set with the root and all subdirectories of its
members (`DirsAreReach`), and this is the form to reason about: a new directory has no children yet, so the
set grows by it (`TreeGrows`); a removed one had none, so the set without it is closed (`TreeShrinks`).
There is no induction over the depth of the tree. Per handler it remains that chains of
directories keep their entries and that no free cluster is part of one (`OutsideTree`).

**FAT, lost clusters.** What the root, the free list and the entries own (`Owned`) is compared before and after a
step. An object and the free list that pass clusters to each other own the same together (`OwnedSame`, from
`AppendChains`, `CutChains`, `FreeChains`); what is popped is missing until an entry has it (`OwnedPopped`).

**FAT, the disk (`DiskInv`).** `Safe(f, r, sl, Q)` is `TreeInv` said of any table `f`, head `r` of the free list and
entries `sl`, except that the slots in `Q` may have clusters that are free as well. `Leads(d, ws, e, X)` says that
the writes `ws` take the disk `d` to `e` and that every disk before `e` is in `X`. `DiskInv`: what is in memory is
safe, and the writes still to be made lead from the disk to it through disks that are safe (`InOrder`) but for the
object being removed or shrunk. So the end of a handler gives `DiskCurrent`, every moment before it
`CrashDamageLocal` and `EntriesReachable`, and a crash outside removing and shrinking makes a safe disk the memory of
the next daemon, from which everything starts again. The work is in showing, handler by handler, that its writes
lead from the old state to the one `Fat` gives (`CreateLeads`, `GrowLeads`, `RemoveLeads`, `ShrinkLeads`,
`FormatLeads`). They are put together from those of its parts with `LeadsThen`: popping clusters (`PopLeads`),
appending (`AppendLeads`), the dots of a directory (`DotLeads`). That a disk
between two writes is safe follows from three lemmas: popped clusters that nothing refers to yet do no harm
(`QuietSafe`), nor do dots that are missing (`UndottedSafe`), and an object whose chain is on its way to the free
list is the only one in doubt (`DoubtSafe`).

**FAT, bytes (`FileInv`).** That the file behaves as an array relies on every cluster having one
owner and one place (`Owned`), on the chain having room for the size (`Room`) and on every byte
in the file's clusters being its own (`OwnData`), the ones behind the end included: they show
again when the file grows. `WriteEffect` says what the split of a write into a first, full
and last part does to each byte, whether the position and length meet cluster limits or not; `TakenClusters` what
a growing file gets; `ReadsContents` that the loop of `fat_read` returns the bytes of the array.
The refinement then follows handler by handler (`StepRefines`).

**FAT, listings (`ReaddirInv`).** That a finished listing is right must be told of an unfinished
one: of the names that stayed in the first cluster, those in front of the offset have been
returned once and the others not yet (`ReturnedSoFar`), as long as no call has resumed behind the first cluster;
after that they all have been returned, some perhaps again. It needs that names are in one slot each,
and that an offset inside the first cluster is where a slot begins (`Aligned`): the arithmetic of
`Place` is the content of `PlaceFirst`, `PlaceOfSlot` and `PlaceBehind`. That a call takes the first
entries and some if there are any (`FirstNumbers`) is counting.

**FTP, sessions (`FtpInv`).** The invariant says how many answers are owed in each place where the
server waits, which descriptors are open there, and for a patient client that it forgets no port it has
been told (`PatientSession`). A passive socket that is still open
after a 425 then means that no descriptor is left, and this stays so until it is lost (`Listening`). Without `NoSession`, what is left between two sessions, none of it is inductive.

**FTP, directories (`DirectoriesInv`).** The server forgets which directory it is in and finds it again by its path, so
that the properties rest on paths telling directories apart. `PathOf` is recursive, and no induction over the depth
is at hand. Instead `Acyclic` says that no set of directories is closed under their parents: then one that has no
path of its own, or the first difference between two equal paths, would give such a set. So the equation of
`PathOf` has a solution (`SolvedEverywhere`), one only (`SolutionsAgree`), and in a tree without two siblings of one name it
is one-to-one on the directories that exist (`PathsDiffer`). What the host does keeps that tree (`HostKeepsTree`; a
removed directory still leads to the root), and as long as nobody else changes it during a command, the path that
`getcwd` returned is the working directory's and leads to no other (`ResolvesToItself`).

**FTP, bytes (`FilesInv`).** At every point of `receive_file` the file, stdio's buffer, the connection and
what the client has still to send are, one after the other, the file that is sent (`Stored`); the
same in the other direction for RETR (`Retrieved`).

**NFS (`NfsInv`).** A client waits for one call; every reply that can still be delivered is a reply to it
(`ReplyInv`) and says the right thing of the offset that the reader is at. This is what makes
retransmissions and late replies harmless. The static results need only their type: no procedure that
the properties speak of answers from what an earlier call left.

### Only model-checked

* `ImplementsFsTree`: `Fat` is proved to keep the tree connected, names single and dots right; that its handlers
  do to the paths of this tree what `FsTree` says is checked by `fat_tree` for trees of the run's depth.
* Liveness under fairness (`ListingEnds`, `EveryClientServed`, `CommandsAnswered`, `ReaderFinishes`) is out of the
  prover's reach.

## 5. Where code and comments disagree

Two runs end with a counterexample on purpose; their properties are a sentence of the code's
comments and one of its answers.

* `fat_shortage`: a write that needs exactly one cluster more than is free. The loop of
  `pop_free_clusters` ends with `length` 0 and the shortage is not seen; the link of cluster
  0 is read far outside the table and the daemon dies instead of returning ENOMEM.
* `ftp_complete`: 226 is answered whether or not the file could be opened, written and received.

More disagreements are part of the models, as behaviour of the code, without a run of their
own:

* Extending a file to 2^32 bytes and a few (`fat.c:563`, `daemon' = "lost"` in
  `update_file`): the last byte to write wraps below the old size, no cluster is allocated, and zeros
  are written along the chain and on into cluster 0, the superblock.
* The last slot of a directory cluster keeps 16 bytes of an entry (`fat.c:352`, `InsertTorn`).
* A creation that adds nothing answers 0 (`fat.c:509`, `InsertFails`; `fat_create`).
* Killed between creating the disk file and giving it its size, the daemon fails the assertion
  of `fat_init` at every later mount (`fat.c:679`, `Mount` of `FatDisk`).
* Only growth of a file sets its time (`fat.c:577`), although `src/FAT/README.md` promises date
  and time; overwriting, cutting and `utimens` do not.
* An offset of `readdir` counts 4120 bytes for a cluster's 103 slots, the code that resumes 4096
  (`fat.c:301`): a listing that is resumed in the second cluster starts inside an entry.
  `ListedOnce` is therefore about the first cluster: its names are not missed, but may be returned
  again when the bytes of a size spell them (97 is the name "a").
* `LIST` of a directory that can be entered and not read frees a string constant, and the server
  aborts for an orderly client (`ftp_server.c:414`, `DeathHasCause`).
* After a 425 for lack of a descriptor `data_socket` stays open (`ftp_server.c:350`), and the next PASV or
  QUIT loses it (`LeaksHaveCause`).
* A failing `readdir` ends a listing with eof set and files missing (`tools.c:53`, `ListingComplete`).
* A superblock that a wrapped write has zeroed is mounted: lookups abort, and `readdir` never ends
  (`fat.c:301`), so that nothing is promised of such a disk (`Remount`).
* A client that leaves after `PASV` and a transfer command blocks the server in `accept` for ever
  (`ftp_server.c:177`); `ftp_patient` is about clients that do not.

## 6. Not modelled, and the plan

Not modelled: the text of listings and replies (so not the 1024 bytes to which `LIST` cuts its
listing, nor the unbounded `strcat` in `get_listing`), the text of commands (one that two `recv`s split, a name longer
than the 100 bytes of the `sscanf`s of RETR, STOR, CWD, MKD and RMD), permissions of FAT files, the encoding of XDR
(`nfs_xdr.c` and `nfs.h` are generated), the NFS handle functions (`fh_encode`,
`fh_length`: nothing calls them), memory that is overrun (`nfs_server.c:88` ends a handle one byte
behind it), `fat_release` and `fat_destroy` (they change nothing),
writes to the disk that a power failure reorders, and an NFS host that renames files: a
handle is a path, and no document says what a handle of a replaced file should mean.
