--------------------------- MODULE FtpDirectories ---------------------------
(***************************************************************************)
(* The working directory of the FTP server of src/FTP/ftp_server.c: the    *)
(* directory of the process, which the sessions share one after the other, *)
(* the commands that change it, and MKD and RMD, which go to it again      *)
(* through its path.  Other processes of the host make, remove, rename and *)
(* move directories at any time, also between the system calls of a command.    *)
(*                                                                         *)
(* Data connections and transfers are the subject of FtpServer.            *)
(***************************************************************************)
EXTENDS Integers, Sequences, FiniteSets

CONSTANTS
    Root,       \* the root directory
    Dirs,       \* bound: the other directories there can be
    Names,      \* bound: their names
    Nowhere     \* current_directory when getcwd has failed: ""

ASSUME DirectoryAssumption == Root \notin Dirs

VARIABLES
    parent,     \* the directory that a directory is in, or was in when removed
    name,       \* its name there
    exists,     \* the directories that have not been removed
    cwd,        \* the working directory of the process
    pc,         \* where the server is: "accept", "recv", "chdir", "change"
    command,    \* the command that is executed
    argument,   \* the name it has been given
    current_directory,  \* the path that getcwd returned at the command's start
    reply,      \* the last answer
    meddled     \* the host has changed directories since the command's start

tree  == <<parent, name, exists>>
local == <<command, argument, current_directory>>
vars  == <<parent, name, exists, cwd, pc, command, argument, current_directory, reply, meddled>>

-----------------------------------------------------------------------------
(* Directories of the host *)

\* The names on the way from the root directory.
PathOf ==
    LET path[d \in Dirs \cup {Root}] ==
            IF d = Root THEN <<>> ELSE Append(path[parent[d]], name[d])
    IN  path

Child(d, n) == {e \in exists \ {Root} : parent[e] = d /\ name[e] = n}

Children(d) == {e \in exists \ {Root} : parent[e] = d}

\* The directory a path leads to, if there is one.
Resolve(path) == {d \in exists : path # Nowhere /\ PathOf[d] = path}

\* The working directory and those above it, removed or not.
InUse ==
    LET up[d \in Dirs \cup {Root}] == IF d = Root THEN {Root} ELSE {d} \cup up[parent[d]]
    IN  up[cwd]

\* A directory n made in d.  A removed one that the process is still in, or
\* was in below, is not used for another.
MakeIn(d, n) ==
    /\ Child(d, n) = {}
    /\ \E new \in Dirs \ (exists \cup InUse) :
          /\ parent' = [parent EXCEPT ![new] = d]
          /\ name' = [name EXCEPT ![new] = n]
          /\ exists' = exists \cup {new}

Unlink(d) ==
    /\ Children(d) = {}
    /\ exists' = exists \ {d}
    /\ UNCHANGED <<parent, name>>

\* The parents lead from e to the root without coming to d.
Outside(d, e) ==
    \E way \in SUBSET exists :
       e \in way /\ d \notin way /\ \A x \in way \ {Root} : parent[x] \in way

\* d is given another name, another parent or both; not one inside itself.
Rename(d, to, n) ==
    /\ Child(to, n) = {}
    /\ Outside(d, to)
    /\ parent' = [parent EXCEPT ![d] = to]
    /\ name' = [name EXCEPT ![d] = n]
    /\ UNCHANGED exists

Host ==
    /\ \/ \E d \in exists, n \in Names : MakeIn(d, n)
       \/ \E d \in exists \ {Root} : Unlink(d)
       \/ \E d \in exists \ {Root}, to \in exists, n \in Names : Rename(d, to, n)
    /\ meddled' = TRUE
    /\ UNCHANGED <<cwd, pc, local, reply>>

-----------------------------------------------------------------------------
(* The server *)

Answer(r) == reply' = r /\ pc' = "recv"

\* A session begins where the last one has left the process.
Connect ==
    /\ pc = "accept"
    /\ Answer("220")
    /\ UNCHANGED <<tree, cwd, local, meddled>>

Disconnect ==
    /\ pc = "recv"
    /\ pc' = "accept"
    /\ UNCHANGED <<tree, cwd, local, reply, meddled>>

\* Mutant: asked for once, at the server's start.
getcwd_once == <<>>

\* The path of the working directory; fails if it has been removed.
getcwd == IF cwd \in exists THEN PathOf[cwd] ELSE Nowhere

\* chdir to one of the directories of targets, empty if there is none.
change_directory(targets) ==
    \/ \E d \in targets : cwd' = d /\ Answer("250")
    \/ targets = {} /\ Answer("550") /\ UNCHANGED cwd

\* A command arrives.  CWD takes a name or "/"; ".." leads to the parent, also
\* from a directory that has been removed.
Receive(cmd, arg) ==
    /\ pc = "recv"
    /\ command' = cmd
    /\ argument' = arg
    /\ current_directory' = getcwd
    /\ meddled' = FALSE
    /\ \/ cmd = "CWD" /\ change_directory({d \in Child(cwd, arg) : cwd \in exists})
       \/ cmd = "CWD /" /\ change_directory({Root})
       \/ cmd = "CDUP" /\ change_directory({IF cwd = Root THEN Root ELSE parent[cwd]})
       \/ cmd = "PWD" /\ Answer("257 current") /\ UNCHANGED cwd
       \/ cmd \in {"MKD", "RMD"} /\ pc' = "chdir" /\ UNCHANGED <<cwd, reply>>
    /\ UNCHANGED tree

\* MKD and RMD first change to the path that getcwd has returned.
Return ==
    /\ pc = "chdir"
    /\ \/ \E d \in Resolve(current_directory) :
             cwd' = d /\ pc' = "change" /\ UNCHANGED reply
       \/ Resolve(current_directory) = {} /\ Answer("550") /\ UNCHANGED cwd
    /\ UNCHANGED <<tree, local, meddled>>

\* Mutant: the name is appended to "/".
create_in_root ==
    /\ pc = "change" /\ command = "MKD"
    /\ \/ \E d \in Resolve(<<>>) : MakeIn(d, argument) /\ Answer("257 created")
       \/ Answer("550") /\ UNCHANGED tree
    /\ UNCHANGED <<cwd, local, meddled>>

\* mkdir of the path with the name appended; it may fail for other reasons.
create_directory ==
    /\ pc = "change" /\ command = "MKD"
    /\ \/ \E d \in Resolve(current_directory) : MakeIn(d, argument) /\ Answer("257 created")
       \/ Answer("550") /\ UNCHANGED tree
    /\ UNCHANGED <<cwd, local, meddled>>

remove_directory ==
    /\ pc = "change" /\ command = "RMD"
    /\ \/ \E d \in Resolve(current_directory) : \E e \in Child(d, argument) :
             Unlink(e) /\ Answer("250 deleted")
       \/ Answer("550") /\ UNCHANGED tree
    /\ UNCHANGED <<cwd, local, meddled>>

Commands == {"CWD", "CWD /", "CDUP", "PWD", "MKD", "RMD"}

Init ==
    /\ parent = [d \in Dirs |-> Root]
    /\ name \in [Dirs -> Names]
    /\ exists = {Root}
    /\ cwd = Root
    /\ pc = "accept"
    /\ command = "PWD" /\ argument \in Names /\ current_directory = <<>>
    /\ reply = "none" /\ meddled = FALSE

Next ==
    \/ Host
    \/ Connect
    \/ Disconnect
    \/ \E cmd \in Commands, arg \in Names : Receive(cmd, arg)
    \/ Return
    \/ create_directory
    \/ remove_directory

Spec == Init /\ [][Next]_vars

-----------------------------------------------------------------------------
(* Properties *)

\* The working directory is what the clients make it: no command but CWD and
\* CDUP changes it, no end of a session and no renaming or moving of it or above it
\* between commands does.  MKD and RMD, which go by its path, can do so only
\* when directories are changed by others while they run.
WorkingDirectoryKept ==
    [][cwd' # cwd => command' \in {"CWD", "CWD /", "CDUP"} \/ meddled]_vars

\* MKD makes, and RMD removes, a directory of the working directory, wherever
\* that has been moved to and whoever was in it before: none that only has the
\* path it once had.
ChangesWhereWorking ==
    [][pc = "change" /\ ~meddled' /\ exists' # exists =>
          \E d \in Dirs : /\ exists' \in {exists \cup {d}, exists \ {d}}
                          /\ parent'[d] = cwd]_vars
=============================================================================
