------------------------------ MODULE NfsServer ------------------------------
(***************************************************************************)
(* The NFS server of src/NFS (nfs_server.c, tools.c, read.c), its clients, *)
(* and the host whose files it serves.  Calls and replies travel in        *)
(* datagrams that may be lost, duplicated, delayed and reordered; a client *)
(* repeats a call with the same xid until it has a reply to it.            *)
(*                                                                         *)
(* A procedure is one step: svc_run serves one call after the other.  The  *)
(* server keeps nothing but the static results of its procedures, whose    *)
(* attributes outlive a call; a file handle is the path of the object.     *)
(*                                                                         *)
(* A path is the sequence of the names below the exported directory, which *)
(* has one level; a file is its number and its size, byte i of file f is   *)
(* <<f, i>>.  An entry of a directory is the number of its file: the names *)
(* that READDIR sends are left out.                                        *)
(***************************************************************************)
EXTENDS Integers, Sequences, FiniteSets

CONSTANTS
    Names,          \* names in the exported directory
    Stable,         \* names of files that are there from the start and only grow
    Readers,        \* clients that read a stable file from start to end
    Listers,        \* clients that list the exported directory
    Probers,        \* clients that make any call but READ
    None,
    COUNT,          \* bytes a reader asks for in a call
    Faults,         \* malloc and readdir may fail
    MaxReply,       \* bytes of a file, or entries, that a datagram holds
    MaxSize,        \* bound: size of a file
    MaxFiles,       \* bound: numbers of files and directories
    MaxCalls        \* bound: calls of a lister or prober

ASSUME NfsAssumption ==
    /\ IsFiniteSet(Names) /\ Stable \subseteq Names
    /\ Readers # {} => Stable # {}
    /\ Readers \cap (Listers \cup Probers) = {}
    /\ COUNT \in Nat \ {0}
    /\ Faults \in BOOLEAN /\ MaxReply \in Nat
    /\ MaxSize \in Nat /\ MaxFiles \in Nat /\ MaxCalls \in Nat
    /\ Cardinality(Stable) < MaxFiles

VARIABLES
    host,       \* the object of every path, or None
    files,      \* the last number given to a file
    static,     \* the attributes in the static result of every procedure
    wire,       \* calls on their way to the server
    replies,    \* replies on their way to the clients
    call,       \* the call every client waits for, or None
    xid,        \* the number of calls every client has made
    phase,      \* what every client is doing: "busy", "done", "failed"
    data,       \* the bytes every reader has got
    start       \* the size every reader's file had at its first call

hostVars   == <<host, files>>
clientVars == <<call, xid, phase, data, start>>
vars       == <<host, files, static, wire, replies, call, xid, phase, data, start>>

Clients == Readers \cup Listers \cup Probers

Root  == <<>>
Paths == {Root} \cup {<<n>> : n \in Names}

-----------------------------------------------------------------------------
(* The host *)

File(id, size) == [id |-> id, type |-> "NF3REG", size |-> size]
Directory(id)  == [id |-> id, type |-> "NF3DIR", size |-> 0]
Objects        == [id : Nat, type : {"NF3REG", "NF3DIR"}, size : Nat]

stat(path) == IF path \in Paths THEN host[path] ELSE None

Create(n) ==
    /\ host[<<n>>] = None /\ files < MaxFiles
    /\ files' = files + 1
    /\ \E new \in {File(files', 0), Directory(files')} : host' = [host EXCEPT ![<<n>>] = new]

Remove(n) ==
    /\ n \notin Stable /\ host[<<n>>] # None
    /\ host' = [host EXCEPT ![<<n>>] = None]
    /\ UNCHANGED files

Grow(n) ==
    /\ host[<<n>>] # None
    /\ host[<<n>>].type = "NF3REG" /\ host[<<n>>].size < MaxSize
    /\ host' = [host EXCEPT ![<<n>>].size = @ + 1]
    /\ UNCHANGED files

Host ==
    /\ \E n \in Names : Create(n) \/ Remove(n) \/ Grow(n)
    /\ UNCHANGED <<static, wire, replies, clientVars>>

-----------------------------------------------------------------------------
(* The server *)

Attributed == {"FSINFO", "PATHCONF", "GETATTR", "ACCESS", "READDIR", "LOOKUP"}
Procs      == Attributed \cup {"MNT", "READ"}

NoAttributes == [id |-> 0, type |-> "none", size |-> 0]

\* Mutant: attributes that are there already are not filled in again.
attributes_once(proc, path) ==
    IF stat(path) = None \/ static[proc] # NoAttributes THEN static[proc] ELSE stat(path)

\* The attributes in the result of a procedure after fill_attributes: when stat
\* fails those of an earlier call stay.
fill_attributes(proc, path) == IF stat(path) = None THEN static[proc] ELSE stat(path)

\* A result, with fields that are empty where a procedure does not have them.
\* cut is not sent: it records that readdir has failed.
Result(status, attributes) ==
    [status |-> status, attributes |-> attributes, bytes |-> <<>>, entries |-> {}, eof |-> FALSE,
     cut |-> FALSE]

Fits(result) == Len(result.bytes) + Cardinality(result.entries) <= MaxReply

\* What is sent: an error, if the result does not fit the transport's buffer.
svc_sendreply(result) == IF Fits(result) THEN result ELSE Result("SYSTEM_ERR", None)

\* The client drops a reply to a call that it has a reply to: it is not kept.
Reply(m, path, result) ==
    replies' = replies \cup
        {r \in {[client |-> m.client, proc |-> m.proc, path |-> path,
                 result |-> svc_sendreply(result)]} :
            call[m.client] = m}

SetStatic(proc, attributes) == static' = [static EXCEPT ![proc] = attributes]

\* Any path can be mounted, and becomes the handle.
mountproc3_mnt(m) ==
    /\ m.proc = "MNT"
    /\ Reply(m, m.path, Result("OK", None))
    /\ UNCHANGED static

ReplyAttributes(m, attributes) ==
    /\ SetStatic(m.proc, attributes)
    /\ Reply(m, m.path, Result("OK", attributes))

\* FSINFO and PATHCONF do not terminate the path: what follows it in memory may
\* make it another path, taken to be one that does not exist.
unterminated(m) == {fill_attributes(m.proc, m.path), static[m.proc]}

nfsproc3_fsinfo(m) ==
    /\ m.proc = "FSINFO"
    /\ \E attributes \in unterminated(m) : ReplyAttributes(m, attributes)

nfsproc3_pathconf(m) ==
    /\ m.proc = "PATHCONF"
    /\ \E attributes \in unterminated(m) : ReplyAttributes(m, attributes)

nfsproc3_getattr(m) ==
    /\ m.proc = "GETATTR"
    /\ ReplyAttributes(m, fill_attributes(m.proc, m.path))

\* Every access asked for is granted.
nfsproc3_access(m) ==
    /\ m.proc = "ACCESS"
    /\ ReplyAttributes(m, fill_attributes(m.proc, m.path))

\* The files of a directory.
entries_of(path) == {host[p].id : p \in {p \in Paths : p # Root /\ host[p] # None /\ path = Root}}

opendir_fails(path) == stat(path) = None \/ stat(path).type # "NF3DIR"

\* The entries, and the variable eof: 1 after an error of opendir or malloc, which
\* leaves no entries.  A readdir that fails is taken for the end.
fill_entries_for_readdir(path) ==
    LET list(entries, cut) == [entries |-> entries, eof |-> 0, cut |-> cut]
        error              == [entries |-> {}, eof |-> 1, cut |-> FALSE]
    IN  IF opendir_fails(path) THEN {error}
        ELSE {list(entries_of(path), FALSE)}
             \cup IF Faults THEN {error} \cup {list(part, TRUE) : part \in SUBSET entries_of(path)}
                  ELSE {}

\* Mutant: the reply's eof is the variable eof.
eof_as_is(eof) == eof = 1

\* The reply's eof is the opposite of the variable.
reply_eof(eof) == eof = 0

\* The cookie of the call is not looked at: a reply has all entries.
nfsproc3_readdir(m) ==
    /\ m.proc = "READDIR"
    /\ \E found \in fill_entries_for_readdir(m.path) :
          LET attributes == fill_attributes(m.proc, m.path)
          IN  /\ SetStatic(m.proc, attributes)
              /\ Reply(m, m.path,
                       [Result("OK", attributes) EXCEPT !.entries = found.entries,
                                                        !.eof = reply_eof(found.eof),
                                                        !.cut = found.cut])

\* The object's path is the directory's path and the name.
nfsproc3_lookup(m) ==
    /\ m.proc = "LOOKUP"
    /\ LET path == Append(m.path, m.name)
       IN  \/ /\ stat(path) # None
              /\ SetStatic(m.proc, fill_attributes(m.proc, path))
              /\ Reply(m, path, Result("OK", fill_attributes(m.proc, path)))
           \/ /\ stat(path) = None
              /\ Reply(m, path, Result("NOENT", None))
              /\ UNCHANGED static

\* Mutant: the file's size is not looked at.
read_whole_chunk(path, offset) ==
    [i \in 1 .. COUNT |-> <<stat(path).id, offset + i>>]

\* Mutant: the offset of the call is not looked at.
read_from_start(path, offset) ==
    [i \in 1 .. (IF stat(path).size < COUNT THEN stat(path).size ELSE COUNT) |->
        <<stat(path).id, i>>]

\* The bytes pread returns: none at and behind the end of the file.
read_file_chunk(path, offset) ==
    LET rest == stat(path).size - offset
    IN  [i \in 1 .. (IF rest < COUNT THEN rest ELSE COUNT) |-> <<stat(path).id, offset + i>>]

\* Mutant: eof with the first chunk.
eof_of_any_chunk(bytes) == TRUE

\* Mutant: eof is not set.
eof_never(bytes) == FALSE

\* eof is 1 only if nothing is left to read.
eof_of(bytes) == bytes = <<>>

\* The results of READ.  open succeeds on a directory, pread does not.
fill_READ3res_stream(path, offset) ==
    IF stat(path) = None \/ stat(path).type # "NF3REG" THEN {Result("IO", None)}
    ELSE LET bytes == read_file_chunk(path, offset)
         IN  {[Result("OK", None) EXCEPT !.bytes = bytes, !.eof = eof_of(bytes)]}
             \cup IF Faults THEN {Result("IO", None)} ELSE {}

nfsproc3_read(m) ==
    /\ m.proc = "READ"
    /\ \E result \in fill_READ3res_stream(m.path, m.offset) : Reply(m, m.path, result)
    /\ UNCHANGED static

\* One call is served; another copy of it may still be on its way.
Serve(m) ==
    /\ m \in wire
    /\ wire' \in {wire, wire \ {m}}
    /\ \/ mountproc3_mnt(m)
       \/ nfsproc3_fsinfo(m)
       \/ nfsproc3_pathconf(m)
       \/ nfsproc3_getattr(m)
       \/ nfsproc3_access(m)
       \/ nfsproc3_readdir(m)
       \/ nfsproc3_lookup(m)
       \/ nfsproc3_read(m)
    /\ UNCHANGED <<hostVars, clientVars>>

\* The server is stopped and started again: static results are zero.
Restart ==
    /\ static' = [p \in Attributed |-> NoAttributes]
    /\ UNCHANGED <<hostVars, wire, replies, clientVars>>

-----------------------------------------------------------------------------
(* Clients and network *)

ReadPath == <<CHOOSE n \in Stable : TRUE>>

Message(c, proc, path, name, offset) ==
    [client |-> c, xid |-> xid[c] + 1, proc |-> proc, path |-> path, name |-> name,
     offset |-> offset]

Messages == [client : Clients, xid : Nat, proc : Procs, path : Paths,
             name : Names \cup {None}, offset : Nat]

\* None is neither an object nor a call.
ASSUME NoneAssumption == None \notin Objects /\ None \notin Messages

Send(c, m) ==
    /\ call[c] = None /\ phase[c] = "busy"
    /\ call' = [call EXCEPT ![c] = m]
    /\ xid' = [xid EXCEPT ![c] = m.xid]
    /\ wire' = wire \cup {m}
    /\ UNCHANGED <<hostVars, static, replies, phase, data>>

\* Bound: every call but the last gets a byte of the file, so that a reader
\* makes at most MaxSize + 1 calls; it could make one more.
MaxReads == MaxSize + 2

CallRead(c) ==
    /\ c \in Readers /\ xid[c] < MaxReads
    /\ Send(c, Message(c, "READ", ReadPath, None, Len(data[c])))
    /\ start' = [start EXCEPT ![c] = IF xid[c] = 0 THEN host[ReadPath].size ELSE @]

CallReaddir(c) ==
    /\ c \in Listers /\ xid[c] < MaxCalls
    /\ Send(c, Message(c, "READDIR", Root, None, 0))
    /\ UNCHANGED start

CallAny(c) ==
    /\ c \in Probers /\ xid[c] < MaxCalls
    /\ \E path \in Paths :
          \/ \E proc \in Attributed \ {"LOOKUP"} : Send(c, Message(c, proc, path, None, 0))
          \/ \E name \in Names : Send(c, Message(c, "LOOKUP", path, name, 0))
          \/ Send(c, Message(c, "MNT", path, None, 0))
    /\ UNCHANGED start

Retransmit(c) ==
    /\ call[c] # None
    /\ wire' = wire \cup {call[c]}
    /\ UNCHANGED <<hostVars, static, replies, clientVars>>

\* A reply to the call the client waits for; other replies to it are dropped.
Receive(r) ==
    LET c == r.client
    IN  /\ r \in replies
        /\ replies' = {q \in replies : q.client # c}
        /\ call' = [call EXCEPT ![c] = None]
        /\ data' = IF c \in Readers THEN [data EXCEPT ![c] = @ \o r.result.bytes] ELSE data
        /\ phase' = [phase EXCEPT ![c] = IF c \in Probers THEN "busy"
                                         ELSE IF r.result.status # "OK" THEN "failed"
                                         ELSE IF r.result.eof THEN "done" ELSE "busy"]
        /\ UNCHANGED <<hostVars, static, wire, xid, start>>

\* A datagram is lost.
Lose ==
    /\ \/ (\E m \in wire : wire' = wire \ {m}) /\ UNCHANGED replies
       \/ (\E r \in replies : replies' = replies \ {r}) /\ UNCHANGED wire
    /\ UNCHANGED <<hostVars, static, clientVars>>

Client(c) == CallRead(c) \/ CallReaddir(c) \/ CallAny(c) \/ Retransmit(c)

\* Numbers of the exported directory and of the files in it at the start.
RootId   == 1
StableId == CHOOSE f \in [Stable -> 2 .. Cardinality(Stable) + 1] :
                \A n, k \in Stable : f[n] = f[k] => n = k

Init ==
    /\ \E size \in [Stable -> 0 .. MaxSize] :
          host = [p \in Paths |-> IF p = Root THEN Directory(RootId)
                                 ELSE IF p[1] \in Stable THEN File(StableId[p[1]], size[p[1]])
                                 ELSE None]
    /\ files = Cardinality(Stable) + 1
    /\ static = [p \in Attributed |-> NoAttributes]
    /\ wire = {} /\ replies = {}
    /\ call = [c \in Clients |-> None]
    /\ xid = [c \in Clients |-> 0]
    /\ phase = [c \in Clients |-> "busy"]
    /\ data = [c \in Clients |-> <<>>]
    /\ start = [c \in Clients |-> 0]

Next ==
    \/ Host
    \/ \E m \in wire : Serve(m)
    \/ Restart
    \/ \E c \in Clients : Client(c)
    \/ \E r \in replies : Receive(r)
    \/ Lose

Spec == Init /\ [][Next]_vars

\* A client makes its calls and repeats them; a datagram that is sent again and
\* again arrives, and the server serves what arrives.
Fairness ==
    \A c \in Clients :
        /\ WF_vars(CallRead(c))
        /\ WF_vars(CallReaddir(c))
        /\ WF_vars(Retransmit(c))
        /\ SF_vars(\E m \in wire : m = call[c] /\ Serve(m))
        /\ SF_vars(\E r \in replies : r.client = c /\ Receive(r))

FairSpec == Spec /\ Fairness

-----------------------------------------------------------------------------
(* Properties *)

\* The state has its type: in particular a reader never gets a byte from behind
\* the end of a file.
TypeOK ==
    /\ \A p \in Paths : host[p] = None \/ host[p].size \in 0 .. MaxSize
    /\ files \in 1 .. MaxFiles
    /\ \A p \in Attributed : static[p].id \in 0 .. files
    /\ \A c \in Clients :
          /\ call[c] = None \/ (call[c].client = c /\ call[c].xid = xid[c] /\ call[c].proc \in Procs)
          /\ phase[c] \in {"busy", "done", "failed"}
          /\ data[c] \in Seq((1 .. MaxFiles) \X (1 .. MaxSize))

\* What a reader has got is the start of its file, without a gap and without a
\* byte twice, whatever datagrams were lost, repeated or late, however often
\* the server was restarted in between and whatever else it served: READ
\* depends on nothing but its arguments.
ReadsPrefix ==
    \A c \in Readers : data[c] = [i \in 1 .. Len(data[c]) |-> <<host[ReadPath].id, i>>]

\* A reader that sees eof has got at least what the file held when it began:
\* fill_READ3res_stream sets eof only behind the end.
ReadsToEnd ==
    \A c \in Readers : phase[c] = "done" => Len(data[c]) >= start[c]

\* A reply about a file that was there all the time is about that file:
\* attributes left in a static result by another client's call, and calls about
\* files that have vanished, do not show through.
StableFilesSeen ==
    \A r \in replies :
        r.proc \in {"GETATTR", "ACCESS", "LOOKUP"} =>
            \A n \in Stable : r.path = <<n>> =>
                r.result.status = "OK" /\ r.result.attributes.id = host[<<n>>].id

\* A READDIR reply with eof has every file that was there all the time, unless
\* readdir has failed: fill_entries_for_readdir does not look at errno.  A failure
\* of opendir or malloc, which is answered OK too, and a list that does not fit
\* the reply are not taken for the end of the directory.
ListingComplete ==
    \A r \in replies :
        r.proc = "READDIR" /\ r.path = Root /\ r.result.eof /\ ~r.result.cut =>
            {host[<<n>>].id : n \in Stable} \subseteq r.result.entries

\* Every reader comes to the end of its file.
ReaderFinishes == \A c \in Readers : <>(phase[c] # "busy")

\* Every listing ends.
ListingEnds == \A c \in Listers : <>(phase[c] = "done")
=============================================================================
