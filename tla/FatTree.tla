------------------------------ MODULE FatTree ------------------------------
(***************************************************************************)
(* The file system of Fat as its users see it, through the handlers that   *)
(* only read: paths are looked up component by component, fat_getattr and  *)
(* fat_access answer for a path, fat_statfs for the disk.  What they       *)
(* answer, while the other handlers change table and entries, is a tree of *)
(* the kind FsTree specifies.                                              *)
(***************************************************************************)
EXTENDS Fat, SequencesExt

VARIABLES
    tree,     \* what fat_getattr answers, for every path that fat_access finds
    avail     \* what fat_statfs answers

\* "/" has no entry.
RootEntry == NewEntry("/", DIR_ENTRY_TYPE_SUBDIR, ROOT_CLUSTER_START)

\* The slots that names are found in below an entry.
Children(e) ==
    IF e.type = DIR_ENTRY_TYPE_SUBDIR
    THEN UNION {find_dir_entry_by_name(e.first, name) : name \in Names}
    ELSE {}

\* What is found, as pairs of a path (a sequence of names) and an entry, with
\* what is in its directories.
WithChildren(found) ==
    UNION {{x} \cup {<<Append(x[1], EntryAt(p).name), EntryAt(p)>> : p \in Children(x[2])} :
              x \in found}

\* All paths that are found, with the entry they lead to.  Every directory on
\* the way has a cluster.
find_dir_entry_by_path ==
    LET find[n \in 0 .. Cardinality(Clusters) - 1] ==
            IF n = 0 THEN {<<<<>>, RootEntry>>} ELSE WithChildren(find[n - 1])
    IN  find[Cardinality(Clusters) - 1]

\* The stat of an entry that has been found.
fat_getattr(e) ==
    IF e.type = DIR_ENTRY_TYPE_SUBDIR
    THEN [type |-> "directory", size |-> BYTE_PER_CLUSTER * count_cluster_in_chain(fat, e.first)]
    ELSE [type |-> "file", size |-> e.size]

\* f_bfree.
fat_statfs == free_count(Alloc)

\* Every path with what fat_getattr answers.
Answers == {<<x[1], fat_getattr(x[2])>> : x \in find_dir_entry_by_path}

AsFunction(pairs) ==
    [path \in {x[1] : x \in pairs} |-> (CHOOSE x \in pairs : x[1] = path)[2]]

TreeInit ==
    /\ Init
    /\ \E answers \in {Answers} : tree = AsFunction(answers)
    /\ avail = fat_statfs

TreeNext ==
    /\ Next
    /\ \E answers \in {Answers'} : tree' = AsFunction(answers)
    /\ avail' = fat_statfs'

TreeSpec == TreeInit /\ [][TreeNext]_<<vars, tree, avail>>

-----------------------------------------------------------------------------
(* Properties *)

Abstract == INSTANCE FsTree WITH BlockSize <- BYTE_PER_CLUSTER

\* Through every path, the handlers behave as one tree: creating, growing,
\* cutting and removing change the object they are asked for and the directory
\* it is in, and no attribute of any other path, in whichever cluster of a
\* directory its entry is; only an empty directory goes; the free blocks that
\* statfs reports follow.  For constants under which no entry is torn and no
\* size wraps around.
ImplementsFsTree == Abstract!Spec
=============================================================================
