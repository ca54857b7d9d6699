------------------------------- MODULE FsTree -------------------------------
(***************************************************************************)
(* What a mounted file system promises those who use it: a tree of         *)
(* directories and files under their paths, and a number of free blocks.   *)
(* Abstract: no clusters, no table, no entries.                            *)
(***************************************************************************)
EXTENDS Integers, Sequences, TLC

CONSTANTS
    BlockSize     \* st_size of a directory is a multiple of it

VARIABLES
    tree,         \* path |-> type and size; the path of the root is <<>>
    avail         \* free blocks

treeVars == <<tree, avail>>

Paths == DOMAIN tree

Parent(path) == SubSeq(path, 1, Len(path) - 1)

IsDirectory(path) == path \in Paths /\ tree[path].type = "directory"

\* At least one block, and as many as the bytes need.
Blocks(size) == IF size = 0 THEN 1 ELSE (size + BlockSize - 1) \div BlockSize

\* A new, empty object.  The directory it is put in may take more room; nothing
\* else in the tree changes.
Create(path) ==
    /\ path # <<>> /\ path \notin Paths
    /\ IsDirectory(Parent(path))
    /\ DOMAIN tree' = Paths \cup {path}
    /\ tree'[path] \in {[type |-> "file", size |-> 0], [type |-> "directory", size |-> BlockSize]}
    /\ \A q \in Paths \ {Parent(path)} : tree'[q] = tree[q]
    /\ LET more == tree'[Parent(path)].size - tree[Parent(path)].size
       IN  /\ more >= 0
           /\ IsDirectory(Parent(path))'
           /\ avail' = avail - 1 - more \div BlockSize

\* A creation that fails may cost a block.
FailToCreate == avail' = avail - 1 /\ UNCHANGED tree

\* A file, or a directory with nothing in it, goes and leaves its blocks.
Remove(path) ==
    /\ path # <<>> /\ path \in Paths
    /\ \A q \in Paths : Parent(q) # path \/ q = <<>>
    /\ tree' = [q \in Paths \ {path} |-> tree[q]]
    /\ IF IsDirectory(path) THEN avail' = avail + tree[path].size \div BlockSize
       ELSE avail' >= avail + Blocks(tree[path].size)

\* A file gets another size.  No more blocks than it needs are taken; all that
\* lie behind the one with its new end are given back.
Resize(path) ==
    /\ path \in Paths /\ ~IsDirectory(path)
    /\ DOMAIN tree' = Paths
    /\ \A q \in Paths \ {path} : tree'[q] = tree[q]
    /\ tree'[path].type = "file"
    /\ LET old  == Blocks(tree[path].size)
           new  == Blocks(tree'[path].size)
           kept == tree'[path].size \div BlockSize + 1
       IN  IF tree'[path].size >= tree[path].size THEN avail' \in avail - (new - old) .. avail
           ELSE avail' >= avail + old - kept

Init ==
    /\ tree = (<<>> :> [type |-> "directory", size |-> BlockSize])
    /\ avail \in Nat

Next ==
    \/ FailToCreate
    \/ \E path \in DOMAIN tree' : Create(path)
    \/ \E path \in Paths : Remove(path) \/ Resize(path)

Spec == Init /\ [][Next]_treeVars
=============================================================================
