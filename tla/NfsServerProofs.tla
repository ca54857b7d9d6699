--------------------------- MODULE NfsServerProofs ---------------------------
(***************************************************************************)
(* NfsInv is an inductive invariant of NfsServer, for any number of names, *)
(* clients and calls and files of any size: what is on the wire and in the *)
(* static results, the server's restarts and the host's changes do not     *)
(* matter to what a reply says of a file that is there all the time.       *)
(***************************************************************************)
EXTENDS NfsServer, FiniteSetTheorems, FunctionTheorems, SequenceTheorems, TLAPS

\* The number of the file that readers read, and its first n bytes behind the
\* byte at offset.
ReadId == StableId[CHOOSE n \in Stable : TRUE]

BytesFrom(offset, n) == [i \in 1 .. n |-> <<ReadId, offset + i>>]

\* Stable files stay what they are and only grow.
HostInv ==
    /\ files \in 1 .. MaxFiles
    /\ host \in [Paths -> Objects \cup {None}]
    /\ \A p \in Paths : host[p] # None => host[p].id \in 1 .. files /\ host[p].size <= MaxSize
    /\ host[Root] = Directory(RootId)
    /\ \A n \in Stable : /\ host[<<n>>] # None
                         /\ host[<<n>>].type = "NF3REG"
                         /\ host[<<n>>].id = StableId[n]

Attributes == [id : Nat, type : {"none", "NF3REG", "NF3DIR"}, size : Nat]

StaticInv ==
    /\ static \in [Attributed -> Attributes]
    /\ \A p \in Attributed : static[p].id \in 0 .. files

\* A client waits for at most one call, the last one that it has made.
CallInv ==
    /\ call \in [Clients -> Messages \cup {None}]
    /\ xid \in [Clients -> Nat]
    /\ phase \in [Clients -> {"busy", "done", "failed"}]
    /\ \A c \in Clients : call[c] # None => call[c].client = c /\ call[c].xid = xid[c]

\* A reader has the first bytes of its file and asks for the next ones.
ReaderInv(c) ==
    /\ \E n \in Nat : data[c] = BytesFrom(0, n) /\ n <= host[ReadPath].size
    /\ start[c] \in Nat /\ start[c] <= host[ReadPath].size
    /\ phase[c] = "done" => Len(data[c]) >= start[c]
    /\ call[c] # None => /\ call[c].proc = "READ" /\ call[c].path = ReadPath
                         /\ call[c].offset = Len(data[c])

DataInv ==
    /\ data \in [Clients -> Seq(Nat \X Nat)]
    /\ start \in [Clients -> Nat]
    /\ \A c \in Clients \ Readers : data[c] = <<>>
    /\ \A c \in Readers : ReaderInv(c)

\* What a reply to a reader says.
ReadReplyInv(r) ==
    /\ \E k \in Nat : /\ r.result.bytes = BytesFrom(Len(data[r.client]), k)
                      /\ Len(data[r.client]) + k <= host[ReadPath].size
    /\ r.result.eof => Len(data[r.client]) >= start[r.client]

\* What a reply says of stable files.
StableReplyInv(r) ==
    /\ \A n \in Stable :
          r.proc \in {"GETATTR", "ACCESS", "LOOKUP"} /\ r.path = <<n>> =>
              r.result.status = "OK" /\ r.result.attributes.id = StableId[n]
    /\ r.proc = "READDIR" /\ r.path = Root /\ r.result.eof /\ ~r.result.cut =>
          \A n \in Stable : StableId[n] \in r.result.entries

\* Replies are replies to the calls that clients wait for.
ReplyInv(r) ==
    /\ r.client \in Clients
    /\ call[r.client] # None
    /\ r.client \in Readers => ReadReplyInv(r)
    /\ StableReplyInv(r)

NfsInv ==
    /\ HostInv
    /\ StaticInv
    /\ CallInv
    /\ DataInv
    /\ wire \subseteq Messages
    /\ \A r \in replies : ReplyInv(r)

-----------------------------------------------------------------------------
(* Operators *)

\* The stable files have numbers: there are as many numbers as names.
LEMMA StableIdType == StableId \in [Stable -> 2 .. Cardinality(Stable) + 1]
<1> DEFINE k == Cardinality(Stable)
<1>1. IsFiniteSet(Stable) /\ k \in Nat
  BY NfsAssumption, FS_Subset, FS_CardinalityType
<1>2. PICK g \in Bijection(Stable, 1 .. k) : TRUE
  BY <1>1, FS_CardinalityType, Fun_ExistsBijSymmetric DEF ExistsBijection
<1>3. g \in [Stable -> 1 .. k] /\ \A x, y \in Stable : g[x] = g[y] => x = y
  BY <1>2, Fun_BijectionProperties
<1> DEFINE f == [n \in Stable |-> g[n] + 1]
<1>4. \A n \in Stable : g[n] \in 1 .. k
  BY <1>3
<1> HIDE DEF k
<1>5. f \in [Stable -> 2 .. k + 1]
  BY <1>1, <1>4
<1>6. \A n, j \in Stable : f[n] = f[j] => n = j
  BY <1>1, <1>3, <1>4
<1>7. \E h \in [Stable -> 2 .. k + 1] : \A n, j \in Stable : h[n] = h[j] => n = j
  BY <1>5, <1>6
<1> QED
  BY <1>7 DEF StableId, k

\* The file that readers read is a stable one.
LEMMA ReadPathStable ==
  ASSUME Readers # {}, HostInv
  PROVE  /\ ReadPath \in Paths
         /\ host[ReadPath] # None /\ host[ReadPath].type = "NF3REG"
         /\ host[ReadPath].id = ReadId
         /\ host[ReadPath].size \in Nat /\ host[ReadPath].size <= MaxSize
         /\ ReadId \in 1 .. MaxFiles
<1> DEFINE n == CHOOSE n \in Stable : TRUE
<1>1. n \in Stable /\ n \in Names /\ ReadPath = <<n>> /\ ReadId = StableId[n]
  BY NfsAssumption DEF ReadPath, ReadId
<1> HIDE DEF n
<1>2. ReadPath \in Paths /\ host[ReadPath] \in Objects
  BY <1>1 DEF Paths, HostInv
<1> QED
  BY <1>1, <1>2, NfsAssumption DEF HostInv, Objects

\* stat finds an object with a number that has been given.
LEMMA StatType ==
  ASSUME HostInv, NEW path, stat(path) # None
  PROVE  /\ path \in Paths /\ stat(path) = host[path]
         /\ stat(path) \in Objects /\ stat(path).id \in 1 .. files
  BY DEF HostInv, stat

\* fill_attributes gives those of an object, or older ones.
LEMMA AttributesType ==
  ASSUME HostInv, StaticInv, NEW proc \in Attributed, NEW path
  PROVE  /\ fill_attributes(proc, path) \in Attributes
         /\ fill_attributes(proc, path).id \in 0 .. files
<1>1. CASE stat(path) = None
  BY <1>1 DEF fill_attributes, StaticInv
<1>2. CASE stat(path) # None
  <2>1. stat(path) \in Objects /\ stat(path).id \in 1 .. files /\ files \in Nat
    BY <1>2, StatType DEF HostInv
  <2> QED
    BY <1>2, <2>1 DEF fill_attributes, Objects, Attributes
<1> QED
  BY <1>1, <1>2

\* Those of a stable file are its own.
LEMMA StableAttributes ==
  ASSUME HostInv, NEW proc, NEW n \in Stable
  PROVE  /\ stat(<<n>>) # None
         /\ fill_attributes(proc, <<n>>).id = StableId[n]
<1>1. <<n>> \in Paths
  BY NfsAssumption DEF Paths
<1> QED
  BY <1>1 DEF stat, fill_attributes, HostInv

\* A procedure's attributes are stored.
LEMMA SetStaticInv ==
  ASSUME HostInv, StaticInv, NEW proc \in Attributed,
         NEW attributes \in Attributes, attributes.id \in 0 .. files,
         SetStatic(proc, attributes), files' = files
  PROVE  StaticInv'
  BY DEF SetStatic, StaticInv

\* Bytes of the readers' file.
LEMMA BytesType ==
  ASSUME NEW n \in Nat, NEW offset \in Nat, ReadId \in Nat
  PROVE  /\ BytesFrom(offset, n) \in Seq(Nat \X Nat)
         /\ Len(BytesFrom(offset, n)) = n
         /\ \A i \in 1 .. n : BytesFrom(offset, n)[i] = <<ReadId, offset + i>>
<1>1. \A i \in 1 .. n : <<ReadId, offset + i>> \in Nat \X Nat
  OBVIOUS
<1>2. BytesFrom(offset, n) \in [1 .. n -> Nat \X Nat]
  BY <1>1 DEF BytesFrom
<1> QED
  BY <1>2 DEF BytesFrom

\* A reader's next bytes follow those it has.
LEMMA BytesConcat ==
  ASSUME NEW n \in Nat, NEW k \in Nat, ReadId \in Nat
  PROVE  BytesFrom(0, n) \o BytesFrom(n, k) = BytesFrom(0, n + k)
<1> DEFINE s == BytesFrom(0, n)
           t == BytesFrom(n, k)
           u == BytesFrom(0, n + k)
<1>1. s \in Seq(Nat \X Nat) /\ Len(s) = n /\ \A i \in 1 .. n : s[i] = <<ReadId, 0 + i>>
  <2>1. 0 \in Nat
    OBVIOUS
  <2> QED
    BY <2>1, BytesType, Zenon
<1>2. t \in Seq(Nat \X Nat) /\ Len(t) = k /\ \A i \in 1 .. k : t[i] = <<ReadId, n + i>>
  BY BytesType
<1>3. /\ u \in Seq(Nat \X Nat) /\ Len(u) = n + k
      /\ \A i \in 1 .. n + k : u[i] = <<ReadId, 0 + i>>
  <2>1. 0 \in Nat /\ n + k \in Nat
    OBVIOUS
  <2> QED
    BY <2>1, BytesType, Zenon
<1> HIDE DEF s, t, u
<1>4. /\ s \o t \in Seq(Nat \X Nat) /\ Len(s \o t) = n + k
      /\ \A i \in 1 .. n + k : (s \o t)[i] = IF i <= n THEN s[i] ELSE t[i - n]
  BY <1>1, <1>2, ConcatProperties
<1>5. ASSUME NEW i \in 1 .. n + k
      PROVE  (s \o t)[i] = u[i]
  <2>1. u[i] = <<ReadId, i>>
    BY <1>3
  <2>2. CASE i <= n
    BY <1>1, <1>4, <2>1, <2>2
  <2>3. CASE ~(i <= n)
    <3>1. i - n \in 1 .. k /\ n + (i - n) = i
      BY <2>3
    <3>2. t[i - n] = <<ReadId, i>>
      BY <1>2, <3>1
    <3> QED
      BY <1>4, <2>1, <2>3, <3>2
  <2> QED
    BY <2>2, <2>3
<1>6. s \o t = u
  BY <1>3, <1>4, <1>5, SeqEqual
<1> QED
  BY <1>6 DEF s, t, u

-----------------------------------------------------------------------------
(* The host's steps *)

\* The host creates, removes or grows a file: stable ones stay and only grow.
LEMMA HostStep ==
  ASSUME HostInv, Host
  PROVE  /\ HostInv'
         /\ files' \in Nat /\ files <= files'
         /\ Readers # {} => host'[ReadPath].size \in Nat
                            /\ host[ReadPath].size <= host'[ReadPath].size
<1>1. PICK n \in Names : Create(n) \/ Remove(n) \/ Grow(n)
  BY DEF Host
<1>2. /\ <<n>> \in Paths /\ Root \in Paths /\ <<n>> # Root
      /\ \A k \in Stable : <<k>> \in Paths /\ (<<k>> = <<n>> => k = n)
  BY NfsAssumption DEF Paths, Root
<1>3. files \in Nat /\ MaxFiles \in Nat /\ MaxSize \in Nat /\ files >= 1 /\ files <= MaxFiles
  BY NfsAssumption DEF HostInv
<1>4. CASE Create(n)
  <2>1. /\ host[<<n>>] = None /\ files < MaxFiles /\ files' = files + 1
        /\ n \notin Stable
    BY <1>4 DEF Create, HostInv
  <2>2. PICK new \in {File(files', 0), Directory(files')} : host' = [host EXCEPT ![<<n>>] = new]
    BY <1>4 DEF Create
  <2>3. new \in Objects /\ new.id = files' /\ new.size = 0
    BY <1>3, <2>1, <2>2 DEF File, Directory, Objects
  <2>4. host' \in [Paths -> Objects \cup {None}]
    BY <1>2, <2>2, <2>3 DEF HostInv
  <2>5. \A p \in Paths : host'[p] # None => host'[p].id \in 1 .. files' /\ host'[p].size <= MaxSize
    BY <1>2, <1>3, <2>1, <2>2, <2>3 DEF HostInv
  <2>6. \A p \in Paths \ {<<n>>} : host'[p] = host[p]
    BY <1>2, <2>2 DEF HostInv
  <2>7. HostInv'
    BY <1>2, <1>3, <2>1, <2>4, <2>5, <2>6 DEF HostInv
  <2>8. Readers # {} => host'[ReadPath] = host[ReadPath]
    BY <2>1, <2>6, ReadPathStable
  <2> QED
    BY <1>3, <2>1, <2>7, <2>8, ReadPathStable
<1>5. CASE Remove(n)
  <2>1. n \notin Stable /\ files' = files /\ host' = [host EXCEPT ![<<n>>] = None]
    BY <1>5 DEF Remove
  <2>2. \A p \in Paths \ {<<n>>} : host'[p] = host[p]
    BY <1>2, <2>1 DEF HostInv
  <2>3. host' \in [Paths -> Objects \cup {None}] /\ host'[<<n>>] = None
    BY <1>2, <2>1 DEF HostInv
  <2>4. HostInv'
    BY <1>2, <2>1, <2>2, <2>3 DEF HostInv
  <2>5. Readers # {} => ReadPath # <<n>>
    <3>1. Readers # {} => (CHOOSE j \in Stable : TRUE) \in Stable
      BY NfsAssumption
    <3> QED
      BY <2>1, <3>1 DEF ReadPath
  <2>6. Readers # {} => host'[ReadPath] = host[ReadPath]
    BY <2>2, <2>5, ReadPathStable
  <2> QED
    BY <1>3, <2>1, <2>4, <2>6, ReadPathStable
<1>6. CASE Grow(n)
  <2> DEFINE new == [host[<<n>>] EXCEPT !.size = @ + 1]
  <2>1. /\ files' = files /\ host[<<n>>] # None /\ host[<<n>>].type = "NF3REG"
        /\ host[<<n>>].size < MaxSize
        /\ host' = [host EXCEPT ![<<n>>] = new]
    BY <1>6 DEF Grow
  <2>2. host[<<n>>] \in Objects
    BY <1>2, <2>1 DEF HostInv
  <2>3. /\ new \in Objects /\ new.id = host[<<n>>].id /\ new.type = "NF3REG"
        /\ new.size = host[<<n>>].size + 1 /\ new # None
    BY <2>1, <2>2, NoneAssumption DEF Objects
  <2> HIDE DEF new
  <2>4. \A p \in Paths \ {<<n>>} : host'[p] = host[p]
    BY <1>2, <2>1 DEF HostInv
  <2>5. host' \in [Paths -> Objects \cup {None}] /\ host'[<<n>>] = new
    BY <1>2, <2>1, <2>3 DEF HostInv
  <2>6. \A p \in Paths : host'[p] # None => host'[p].id \in 1 .. files' /\ host'[p].size <= MaxSize
    <3> SUFFICES ASSUME NEW p \in Paths, host'[p] # None
                 PROVE  host'[p].id \in 1 .. files' /\ host'[p].size <= MaxSize
      OBVIOUS
    <3>1. CASE p = <<n>>
      BY <1>2, <1>3, <2>1, <2>2, <2>3, <2>5, <3>1 DEF HostInv, Objects
    <3> QED
      BY <2>1, <2>4, <3>1 DEF HostInv
  <2>7. HostInv'
    <3>1. host'[Root] = Directory(RootId)
      BY <1>2, <2>4 DEF HostInv
    <3>2. ASSUME NEW j \in Stable
          PROVE  /\ host'[<<j>>] # None /\ host'[<<j>>].type = "NF3REG"
                 /\ host'[<<j>>].id = StableId[j]
      <4>1. CASE j = n
        BY <2>3, <2>5, <4>1 DEF HostInv
      <4>2. CASE j # n
        BY <1>2, <2>4, <4>2 DEF HostInv
      <4> QED
        BY <4>1, <4>2
    <3> QED
      BY <1>3, <2>1, <2>5, <2>6, <3>1, <3>2 DEF HostInv
  <2>8. ASSUME Readers # {}
        PROVE  host'[ReadPath].size \in Nat /\ host[ReadPath].size <= host'[ReadPath].size
    <3>1. ReadPath \in Paths /\ host[ReadPath].size \in Nat
      BY <2>8, ReadPathStable
    <3>2. CASE ReadPath = <<n>>
      BY <2>3, <2>5, <3>1, <3>2
    <3>3. CASE ReadPath # <<n>>
      BY <2>4, <3>1, <3>3
    <3> QED
      BY <3>2, <3>3
  <2> QED
    BY <1>3, <2>1, <2>7, <2>8
<1> QED
  BY <1>1, <1>4, <1>5, <1>6

\* What clients and the wire know does not depend on what the host changes.
LEMMA HostNfsInv ==
  ASSUME NfsInv, Host
  PROVE  NfsInv'
<1>1. UNCHANGED <<static, wire, replies, call, xid, phase, data, start>>
  BY DEF Host, clientVars
<1>2. /\ HostInv /\ HostInv' /\ files' \in Nat /\ files <= files'
      /\ Readers # {} => host'[ReadPath].size \in Nat
                         /\ host[ReadPath].size <= host'[ReadPath].size
  BY HostStep DEF NfsInv
<1>3. Readers # {} => host[ReadPath].size \in Nat
  BY <1>2, ReadPathStable
<1>4. StaticInv'
  BY <1>1, <1>2 DEF NfsInv, StaticInv, HostInv
<1>5. CallInv'
  BY <1>1 DEF NfsInv, CallInv
<1>6. ASSUME NEW c \in Readers
      PROVE  ReaderInv(c)'
  <2>1. ReaderInv(c)
    BY DEF NfsInv, DataInv
  <2>2. PICK n \in Nat : data[c] = BytesFrom(0, n) /\ n <= host[ReadPath].size
    BY <2>1 DEF ReaderInv
  <2>3. data'[c] = BytesFrom(0, n) /\ n <= host'[ReadPath].size
    BY <1>1, <1>2, <1>3, <2>2
  <2>4. start'[c] \in Nat /\ start'[c] <= host'[ReadPath].size
    BY <1>1, <1>2, <1>3, <2>1 DEF ReaderInv
  <2> QED
    BY <1>1, <2>1, <2>3, <2>4 DEF ReaderInv
<1>7. DataInv'
  BY <1>1, <1>6 DEF NfsInv, DataInv
<1>8. ASSUME NEW r \in replies
      PROVE  ReplyInv(r)'
  <2>1. ReplyInv(r)
    BY DEF NfsInv
  <2>2. ASSUME r.client \in Readers
        PROVE  ReadReplyInv(r)'
    <3>1. PICK k \in Nat : /\ r.result.bytes = BytesFrom(Len(data[r.client]), k)
                           /\ Len(data[r.client]) + k <= host[ReadPath].size
      BY <2>1, <2>2 DEF ReplyInv, ReadReplyInv
    <3>2. Len(data[r.client]) \in Nat
      BY <2>1 DEF ReplyInv, NfsInv, DataInv
    <3>3. Len(data[r.client]) + k <= host'[ReadPath].size
      BY <1>2, <1>3, <2>2, <3>1, <3>2
    <3> QED
      BY <1>1, <2>1, <2>2, <3>1, <3>3 DEF ReplyInv, ReadReplyInv
  <2> QED
    BY <1>1, <2>1, <2>2 DEF ReplyInv, StableReplyInv
<1> QED
  BY <1>1, <1>2, <1>4, <1>5, <1>7, <1>8 DEF NfsInv

\* The exported directory with the stable files; no client has made a call.
LEMMA InitInv == Init => NfsInv
<1> SUFFICES ASSUME Init PROVE NfsInv
  OBVIOUS
<1>1. PICK size \in [Stable -> 0 .. MaxSize] :
        host = [p \in Paths |-> IF p = Root THEN Directory(RootId)
                                ELSE IF p[1] \in Stable THEN File(StableId[p[1]], size[p[1]])
                                ELSE None]
  BY DEF Init
<1>2. Cardinality(Stable) \in Nat /\ files = Cardinality(Stable) + 1 /\ MaxSize \in Nat
  BY NfsAssumption, FS_Subset, FS_CardinalityType DEF Init
<1>3. \A n \in Stable : StableId[n] \in 2 .. Cardinality(Stable) + 1 /\ size[n] \in 0 .. MaxSize
  BY StableIdType
<1>4. ASSUME NEW p \in Paths
      PROVE  /\ host[p] \in Objects \cup {None}
             /\ host[p] # None => host[p].id \in 1 .. files /\ host[p].size <= MaxSize
  <2>1. CASE p = Root
    BY <1>1, <1>2, <2>1 DEF Directory, Objects, RootId
  <2>2. CASE p # Root /\ p[1] \in Stable
    <3>1. host[p] = File(StableId[p[1]], size[p[1]])
      BY <1>1, <2>2
    <3> QED
      BY <1>2, <1>3, <2>2, <3>1 DEF File, Objects
  <2>3. CASE p # Root /\ p[1] \notin Stable
    BY <1>1, <2>3
  <2> QED
    BY <2>1, <2>2, <2>3
<1>5. ASSUME NEW n \in Stable
      PROVE  /\ host[<<n>>] # None /\ host[<<n>>].type = "NF3REG"
             /\ host[<<n>>].id = StableId[n]
  <2>1. <<n>> \in Paths /\ <<n>> # Root /\ <<n>>[1] = n
    BY NfsAssumption DEF Paths, Root
  <2>2. host[<<n>>] = File(StableId[n], size[n])
    BY <1>1, <2>1
  <2>3. File(StableId[n], size[n]) \in Objects
    BY <1>2, <1>3 DEF File, Objects
  <2> QED
    BY <2>2, <2>3, NoneAssumption DEF File
<1>6. HostInv
  <2>1. host \in [Paths -> Objects \cup {None}]
    BY <1>1, <1>4
  <2>2. host[Root] = Directory(RootId)
    BY <1>1 DEF Paths
  <2>3. files \in 1 .. MaxFiles
    BY <1>2, NfsAssumption
  <2> QED
    BY <1>4, <1>5, <2>1, <2>2, <2>3 DEF HostInv
<1>7. StaticInv
  BY <1>2 DEF Init, StaticInv, NoAttributes, Attributes
<1>8. CallInv
  BY DEF Init, CallInv
<1>9. DataInv
  <2>1. <<>> = BytesFrom(0, 0)
    BY DEF BytesFrom
  <2>2. ASSUME NEW c \in Readers
        PROVE  ReaderInv(c)
    <3>1. host[ReadPath].size \in Nat
      BY <1>6, ReadPathStable
    <3>2. c \in Clients
      BY DEF Clients
    <3>3. /\ data[c] = <<>> /\ start[c] = 0 /\ phase[c] = "busy" /\ call[c] = None
      BY <3>2 DEF Init
    <3>4. data[c] = BytesFrom(0, 0) /\ 0 \in Nat /\ 0 <= host[ReadPath].size
      BY <2>1, <3>1, <3>3
    <3> QED
      BY <3>3, <3>4 DEF ReaderInv
  <2> QED
    BY <2>2, EmptySeq DEF Init, DataInv
<1> QED
  BY <1>6, <1>7, <1>8, <1>9 DEF Init, NfsInv

-----------------------------------------------------------------------------
(* The server's steps *)

\* A call is served: the invariant holds if the static results and the reply are
\* what they should be.
LEMMA ServedInv ==
  ASSUME NfsInv, NEW m \in wire, wire' \in {wire, wire \ {m}},
         UNCHANGED <<hostVars, clientVars>>, StaticInv',
         NEW path, NEW result, Reply(m, path, result),
         NEW r, r = [client |-> m.client, proc |-> m.proc, path |-> path, result |-> result],
         StableReplyInv(r),
         m.proc \in {"GETATTR", "ACCESS", "LOOKUP"} => result.bytes = <<>> /\ result.entries = {},
         m.client \in Readers /\ call[m.client] = m => ReadReplyInv(r)
  PROVE  NfsInv'
<1>1. /\ m \in Messages /\ m # None /\ m.client \in Clients
  BY NoneAssumption DEF NfsInv, Messages
<1>2. UNCHANGED <<host, files, call, xid, phase, data, start>>
  BY DEF hostVars, clientVars
<1>3. HostInv' /\ CallInv' /\ DataInv'
  BY <1>2 DEF NfsInv, HostInv, CallInv, DataInv, ReaderInv
<1>4. PICK sent : sent = [client |-> m.client, proc |-> m.proc, path |-> path,
                         result |-> svc_sendreply(result)]
  OBVIOUS
<1>5. ASSUME call[m.client] = m
      PROVE  ReplyInv(sent)
  <2>1. sent.client = m.client /\ sent.proc = m.proc /\ sent.result = svc_sendreply(result)
    BY <1>4
  <2>2. CASE Fits(result)
    <3>1. sent = r
      BY <1>4, <2>2 DEF svc_sendreply
    <3> QED
      BY <1>1, <1>5, <2>1, <3>1 DEF ReplyInv
  <2>3. CASE ~Fits(result)
    <3>1. sent.result = Result("SYSTEM_ERR", None)
      BY <2>1, <2>3 DEF svc_sendreply
    <3>2. sent.result.bytes = <<>> /\ ~sent.result.eof
      BY <3>1 DEF Result
    <3>3. m.proc \notin {"GETATTR", "ACCESS", "LOOKUP"}
      <4>1. Len(<<>>) = 0 /\ Cardinality({}) = 0 /\ 0 + 0 <= MaxReply
        BY NfsAssumption, FS_EmptySet
      <4> QED
        BY <2>3, <4>1 DEF Fits
    <3>4. StableReplyInv(sent)
      BY <2>1, <3>2, <3>3 DEF StableReplyInv
    <3>5. ASSUME m.client \in Readers
          PROVE  ReadReplyInv(sent)
      <4>1. ReaderInv(m.client) /\ host[ReadPath].size \in Nat /\ ReadId \in Nat
        BY <3>5, ReadPathStable DEF NfsInv, DataInv
      <4>2. PICK n \in Nat : data[m.client] = BytesFrom(0, n) /\ n <= host[ReadPath].size
        BY <4>1 DEF ReaderInv
      <4>3. Len(data[m.client]) = n
        BY <4>1, <4>2, BytesType
      <4>4. <<>> = BytesFrom(Len(data[m.client]), 0)
        BY DEF BytesFrom
      <4>5. Len(data[m.client]) + 0 <= host[ReadPath].size
        BY <4>1, <4>2, <4>3
      <4> QED
        BY <2>1, <3>2, <4>4, <4>5 DEF ReadReplyInv
    <3> QED
      BY <1>1, <1>5, <2>1, <3>4, <3>5 DEF ReplyInv
  <2> QED
    BY <2>2, <2>3
<1>6. ASSUME NEW q \in replies'
      PROVE  ReplyInv(q)
  <2>1. CASE q \in replies
    BY <2>1 DEF NfsInv
  <2>2. CASE q = sent /\ call[m.client] = m
    BY <1>5, <2>2
  <2> QED
    BY <1>4, <1>6, <2>1, <2>2 DEF Reply
<1>7. \A q \in replies' : ReplyInv(q)'
  BY <1>2, <1>6 DEF ReplyInv, StableReplyInv, ReadReplyInv
<1> QED
  BY <1>3, <1>7 DEF NfsInv

\* A call that a reader waits for is a READ.
LEMMA ReadersRead ==
  ASSUME NfsInv, NEW m \in wire, m.client \in Readers, call[m.client] = m
  PROVE  m.proc = "READ" /\ m.path = ReadPath /\ m.offset = Len(data[m.client])
<1>1. m # None
  BY NoneAssumption DEF NfsInv
<1> QED
  BY <1>1 DEF NfsInv, DataInv, ReaderInv

\* The procedures that answer with attributes.  Only GETATTR and ACCESS, which
\* terminate the path, promise that they are those of the object.
LEMMA ReplyAttributesInv ==
  ASSUME NfsInv, NEW m \in wire, wire' \in {wire, wire \ {m}},
         UNCHANGED <<hostVars, clientVars>>,
         m.proc \in Attributed \ {"READDIR", "LOOKUP"},
         NEW attributes \in {fill_attributes(m.proc, m.path), static[m.proc]},
         m.proc \in {"GETATTR", "ACCESS"} => attributes = fill_attributes(m.proc, m.path),
         ReplyAttributes(m, attributes)
  PROVE  NfsInv'
<1>1. HostInv /\ StaticInv /\ files' = files
  BY DEF NfsInv, hostVars
<1>2. attributes \in Attributes /\ attributes.id \in 0 .. files
  BY <1>1, AttributesType DEF StaticInv
<1>3. StaticInv'
  BY <1>1, <1>2, SetStaticInv DEF ReplyAttributes
<1> DEFINE result == Result("OK", attributes)
<1>4. PICK r : r = [client |-> m.client, proc |-> m.proc, path |-> m.path, result |-> result]
  OBVIOUS
<1>5. /\ r.proc = m.proc /\ r.path = m.path /\ r.result.status = "OK"
      /\ r.result.attributes = attributes
  BY <1>4 DEF Result
<1>6. StableReplyInv(r)
  <2>1. ASSUME NEW n \in Stable, r.proc \in {"GETATTR", "ACCESS", "LOOKUP"}, r.path = <<n>>
        PROVE  attributes.id = StableId[n]
    <3>1. attributes = fill_attributes(m.proc, <<n>>)
      BY <1>5, <2>1
    <3> QED
      BY <1>1, <3>1, StableAttributes
  <2> QED
    BY <1>5, <2>1 DEF StableReplyInv
<1>7. ~(m.client \in Readers /\ call[m.client] = m)
  BY ReadersRead DEF Attributed
<1>8. Reply(m, m.path, result) /\ result.bytes = <<>> /\ result.entries = {}
  BY DEF ReplyAttributes, Result
<1> HIDE DEF result
<1> QED
  BY <1>3, <1>4, <1>6, <1>7, <1>8, ServedInv

\* MNT promises nothing of files.
LEMMA MountInv ==
  ASSUME NfsInv, NEW m \in wire, wire' \in {wire, wire \ {m}},
         UNCHANGED <<hostVars, clientVars>>, mountproc3_mnt(m)
  PROVE  NfsInv'
<1>1. StaticInv'
  BY DEF NfsInv, StaticInv, hostVars, mountproc3_mnt
<1> DEFINE result == Result("OK", None)
<1>2. PICK r : r = [client |-> m.client, proc |-> m.proc, path |-> m.path, result |-> result]
  OBVIOUS
<1>3. r.proc = "MNT" /\ m.proc = "MNT" /\ Reply(m, m.path, result)
  BY <1>2 DEF mountproc3_mnt
<1>4. StableReplyInv(r)
  BY <1>3 DEF StableReplyInv
<1>5. ~(m.client \in Readers /\ call[m.client] = m)
  BY <1>3, ReadersRead
<1> HIDE DEF result
<1> QED
  BY <1>1, <1>2, <1>3, <1>4, <1>5, ServedInv

\* READDIR: eof comes with all entries, unless readdir has failed.
LEMMA ReaddirInv ==
  ASSUME NfsInv, NEW m \in wire, wire' \in {wire, wire \ {m}},
         UNCHANGED <<hostVars, clientVars>>, nfsproc3_readdir(m)
  PROVE  NfsInv'
<1> DEFINE attributes == fill_attributes(m.proc, m.path)
<1>1. PICK found \in fill_entries_for_readdir(m.path) :
        /\ SetStatic(m.proc, attributes)
        /\ Reply(m, m.path, [Result("OK", attributes) EXCEPT !.entries = found.entries,
                                                              !.eof = reply_eof(found.eof),
                                                              !.cut = found.cut])
  BY DEF nfsproc3_readdir
<1> DEFINE result == [Result("OK", attributes) EXCEPT !.entries = found.entries,
                                                      !.eof = reply_eof(found.eof),
                                                      !.cut = found.cut]
<1>2. m.proc = "READDIR" /\ HostInv /\ StaticInv /\ files' = files /\ m.proc \in Attributed
  BY DEF nfsproc3_readdir, NfsInv, hostVars, Attributed
<1>3. StaticInv'
  BY <1>1, <1>2, AttributesType, SetStaticInv
<1>4. PICK r : r = [client |-> m.client, proc |-> m.proc, path |-> m.path, result |-> result]
  OBVIOUS
<1>5. /\ r.proc = "READDIR" /\ r.path = m.path /\ r.result.entries = found.entries
      /\ r.result.eof = reply_eof(found.eof) /\ r.result.cut = found.cut
  BY <1>2, <1>4 DEF Result
<1>6. StableReplyInv(r)
  <2>1. ASSUME r.path = Root, r.result.eof, ~r.result.cut, NEW n \in Stable
        PROVE  StableId[n] \in r.result.entries
    <3>1. found.entries = entries_of(m.path)
      <4>1. found.eof = 0 /\ ~found.cut
        BY <1>5, <2>1, Zenon DEF reply_eof
      <4> QED
        BY <4>1 DEF fill_entries_for_readdir
    <3>2. <<n>> \in Paths /\ <<n>> # Root
      BY NfsAssumption DEF Paths, Root
    <3>3. host[<<n>>] # None /\ host[<<n>>].id = StableId[n]
      BY <1>2 DEF HostInv
    <3>4. StableId[n] \in entries_of(m.path)
      BY <1>5, <2>1, <3>2, <3>3 DEF entries_of
    <3> QED
      BY <1>5, <3>1, <3>4
  <2> QED
    BY <1>5, <2>1 DEF StableReplyInv
<1>7. ~(m.client \in Readers /\ call[m.client] = m)
  BY <1>2, ReadersRead
<1>8. Reply(m, m.path, result)
  BY <1>1
<1> HIDE DEF result
<1> QED
  BY <1>2, <1>3, <1>4, <1>6, <1>7, <1>8, ServedInv

\* LOOKUP: a stable name is found.
LEMMA LookupInv ==
  ASSUME NfsInv, NEW m \in wire, wire' \in {wire, wire \ {m}},
         UNCHANGED <<hostVars, clientVars>>, nfsproc3_lookup(m)
  PROVE  NfsInv'
<1>1. PICK path : path = Append(m.path, m.name)
  OBVIOUS
<1>2. m.proc = "LOOKUP" /\ HostInv /\ StaticInv /\ files' = files /\ m.proc \in Attributed
  BY DEF nfsproc3_lookup, NfsInv, hostVars, Attributed
<1>3. ~(m.client \in Readers /\ call[m.client] = m)
  BY <1>2, ReadersRead
<1>4. CASE /\ stat(path) # None
           /\ SetStatic(m.proc, fill_attributes(m.proc, path))
           /\ Reply(m, path, Result("OK", fill_attributes(m.proc, path)))
  <2>1. StaticInv'
    BY <1>2, <1>4, AttributesType, SetStaticInv
  <2> DEFINE result == Result("OK", fill_attributes(m.proc, path))
  <2>2. PICK r : r = [client |-> m.client, proc |-> m.proc, path |-> path, result |-> result]
    OBVIOUS
  <2>3. /\ r.proc = "LOOKUP" /\ r.path = path /\ r.result.status = "OK"
        /\ r.result.attributes = fill_attributes(m.proc, path)
    BY <1>2, <2>2 DEF Result
  <2>4. StableReplyInv(r)
    BY <1>2, <2>3, StableAttributes DEF StableReplyInv
  <2>5. Reply(m, path, result) /\ result.bytes = <<>> /\ result.entries = {}
    BY <1>4 DEF Result
  <2> HIDE DEF result
  <2> QED
    BY <1>3, <2>1, <2>2, <2>4, <2>5, ServedInv
<1>5. CASE /\ stat(path) = None
           /\ Reply(m, path, Result("NOENT", None))
           /\ UNCHANGED static
  <2>1. StaticInv'
    BY <1>2, <1>5 DEF StaticInv
  <2> DEFINE result == Result("NOENT", None)
  <2>2. PICK r : r = [client |-> m.client, proc |-> m.proc, path |-> path, result |-> result]
    OBVIOUS
  <2>3. r.proc = "LOOKUP" /\ r.path = path
    BY <1>2, <2>2
  <2>4. StableReplyInv(r)
    BY <1>2, <1>5, <2>3, StableAttributes DEF StableReplyInv
  <2>5. Reply(m, path, result) /\ result.bytes = <<>> /\ result.entries = {}
    BY <1>5 DEF Result
  <2> HIDE DEF result
  <2> QED
    BY <1>3, <2>1, <2>2, <2>4, <2>5, ServedInv
<1> QED
  BY <1>1, <1>4, <1>5 DEF nfsproc3_lookup

\* READ: the bytes at the offset, and eof only if there are none.
LEMMA ReadResult ==
  ASSUME NfsInv, NEW c \in Readers,
         NEW result \in fill_READ3res_stream(ReadPath, Len(data[c]))
  PROVE  /\ \E k \in Nat : /\ result.bytes = BytesFrom(Len(data[c]), k)
                           /\ Len(data[c]) + k <= host[ReadPath].size
         /\ result.eof => Len(data[c]) >= start[c]
<1> DEFINE L    == Len(data[c])
           size == host[ReadPath].size
           k    == IF size - L < COUNT THEN size - L ELSE COUNT
<1>1. /\ size \in Nat /\ host[ReadPath] # None /\ host[ReadPath].type = "NF3REG"
      /\ host[ReadPath].id = ReadId /\ ReadId \in Nat
      /\ stat(ReadPath) = host[ReadPath]
  BY ReadPathStable DEF NfsInv, stat
<1>2. L \in Nat /\ L <= size /\ start[c] \in Nat /\ start[c] <= size
  <2>1. ReaderInv(c)
    BY DEF NfsInv, DataInv
  <2>2. PICK n \in Nat : data[c] = BytesFrom(0, n) /\ n <= size
    BY <2>1 DEF ReaderInv
  <2>3. Len(BytesFrom(0, n)) = n
    BY <1>1, BytesType
  <2> QED
    BY <2>1, <2>2, <2>3 DEF ReaderInv
<1>3. k \in Nat /\ L + k <= size /\ (k = 0 => L = size) /\ (k = size - L \/ k = COUNT)
  BY <1>1, <1>2, NfsAssumption
<1>4. read_file_chunk(ReadPath, L) = BytesFrom(L, k)
  BY <1>1 DEF read_file_chunk, BytesFrom
<1> HIDE DEF k
<1>5. CASE result = Result("IO", None)
  <2>1. result.bytes = <<>> /\ ~result.eof
    BY <1>5 DEF Result
  <2>2. <<>> = BytesFrom(L, 0)
    BY DEF BytesFrom
  <2>3. L + 0 <= size /\ 0 \in Nat
    BY <1>1, <1>2
  <2> QED
    BY <2>1, <2>2, <2>3
<1>6. CASE result = [Result("OK", None) EXCEPT !.bytes = BytesFrom(L, k), !.eof = eof_of(BytesFrom(L, k))]
  <2>1. result.bytes = BytesFrom(L, k) /\ result.eof = eof_of(BytesFrom(L, k))
    BY <1>6 DEF Result
  <2>2. Len(BytesFrom(L, k)) = k
    BY <1>1, <1>2, <1>3, BytesType
  <2>3. result.eof => BytesFrom(L, k) = <<>>
    BY <2>1, Zenon DEF eof_of
  <2>4. result.eof => k = 0
    BY <2>2, <2>3, EmptySeq
  <2>5. result.eof => L >= start[c]
    BY <1>1, <1>2, <1>3, <2>4
  <2> QED
    BY <1>3, <2>1, <2>5
<1> QED
  BY <1>1, <1>4, <1>5, <1>6 DEF fill_READ3res_stream

\* READ is served.
LEMMA ReadInv ==
  ASSUME NfsInv, NEW m \in wire, wire' \in {wire, wire \ {m}},
         UNCHANGED <<hostVars, clientVars>>, nfsproc3_read(m)
  PROVE  NfsInv'
<1>1. StaticInv'
  BY DEF NfsInv, StaticInv, hostVars, nfsproc3_read
<1>2. PICK result \in fill_READ3res_stream(m.path, m.offset) : Reply(m, m.path, result)
  BY DEF nfsproc3_read
<1>3. PICK r : r = [client |-> m.client, proc |-> m.proc, path |-> m.path, result |-> result]
  OBVIOUS
<1>4. r.proc = "READ" /\ r.client = m.client /\ r.result = result
  BY <1>3 DEF nfsproc3_read
<1>5. StableReplyInv(r)
  BY <1>4 DEF StableReplyInv
<1>6. ASSUME m.client \in Readers, call[m.client] = m
      PROVE  ReadReplyInv(r)
  <2>1. m.path = ReadPath /\ m.offset = Len(data[m.client])
    BY <1>6, ReadersRead
  <2>2. PICK c \in Readers : c = m.client
    BY <1>6
  <2>3. result \in fill_READ3res_stream(ReadPath, Len(data[c]))
    BY <1>2, <2>1, <2>2
  <2>4. /\ \E k \in Nat : /\ result.bytes = BytesFrom(Len(data[c]), k)
                          /\ Len(data[c]) + k <= host[ReadPath].size
        /\ result.eof => Len(data[c]) >= start[c]
    BY <2>3, ReadResult
  <2> QED
    BY <1>4, <2>2, <2>4 DEF ReadReplyInv
<1> QED
  BY <1>1, <1>2, <1>3, <1>5, <1>6, ServedInv DEF nfsproc3_read

\* Any call is served.
LEMMA ServeInv ==
  ASSUME NfsInv, NEW m \in wire, Serve(m)
  PROVE  NfsInv'
<1>1. wire' \in {wire, wire \ {m}} /\ UNCHANGED <<hostVars, clientVars>>
  BY DEF Serve
<1>2. CASE nfsproc3_fsinfo(m)
  <2>1. PICK attributes \in {fill_attributes(m.proc, m.path), static[m.proc]} :
          ReplyAttributes(m, attributes)
    BY <1>2 DEF nfsproc3_fsinfo, unterminated
  <2>2. m.proc = "FSINFO" /\ m.proc \in Attributed \ {"READDIR", "LOOKUP"}
    BY <1>2 DEF nfsproc3_fsinfo, Attributed
  <2> QED
    BY <1>1, <2>1, <2>2, ReplyAttributesInv
<1>3. CASE nfsproc3_pathconf(m)
  <2>1. PICK attributes \in {fill_attributes(m.proc, m.path), static[m.proc]} :
          ReplyAttributes(m, attributes)
    BY <1>3 DEF nfsproc3_pathconf, unterminated
  <2>2. m.proc = "PATHCONF" /\ m.proc \in Attributed \ {"READDIR", "LOOKUP"}
    BY <1>3 DEF nfsproc3_pathconf, Attributed
  <2> QED
    BY <1>1, <2>1, <2>2, ReplyAttributesInv
<1>4. CASE nfsproc3_getattr(m) \/ nfsproc3_access(m)
  <2>1. ReplyAttributes(m, fill_attributes(m.proc, m.path))
    BY <1>4 DEF nfsproc3_getattr, nfsproc3_access
  <2>2. m.proc \in Attributed \ {"READDIR", "LOOKUP"}
    BY <1>4 DEF nfsproc3_getattr, nfsproc3_access, Attributed
  <2> QED
    BY <1>1, <2>1, <2>2, ReplyAttributesInv
<1> QED
  BY <1>1, <1>2, <1>3, <1>4, MountInv, ReaddirInv, LookupInv, ReadInv DEF Serve

\* The server is restarted.
LEMMA RestartInv ==
  ASSUME NfsInv, Restart
  PROVE  NfsInv'
<1>1. UNCHANGED <<host, files, wire, replies, call, xid, phase, data, start>>
  BY DEF Restart, hostVars, clientVars
<1>2. StaticInv'
  BY <1>1 DEF Restart, StaticInv, NoAttributes, Attributes, NfsInv, HostInv
<1> QED
  BY <1>1, <1>2 DEF NfsInv, HostInv, CallInv, DataInv, ReaderInv, ReplyInv, ReadReplyInv,
                    StableReplyInv

-----------------------------------------------------------------------------
(* Clients and network *)

\* A client makes a call.
LEMMA SendInv ==
  ASSUME NfsInv, NEW c \in Clients, NEW m \in Messages, Send(c, m),
         m.client = c, m.xid = xid[c] + 1,
         start' \in [Clients -> Nat], \A d \in Clients : d # c => start'[d] = start[d],
         c \in Readers => /\ start'[c] <= host[ReadPath].size
                          /\ m.proc = "READ" /\ m.path = ReadPath
                          /\ m.offset = Len(data[c])
  PROVE  NfsInv'
<1>1. /\ UNCHANGED <<host, files, static, replies, phase, data>>
      /\ call[c] = None /\ phase[c] = "busy" /\ call' = [call EXCEPT ![c] = m]
      /\ xid' = [xid EXCEPT ![c] = m.xid] /\ wire' = wire \cup {m}
  BY DEF Send, hostVars
<1>2. m # None
  BY NoneAssumption
<1>3. HostInv' /\ StaticInv' /\ wire' \subseteq Messages
  BY <1>1 DEF NfsInv, HostInv, StaticInv
<1>4. call'[c] = m /\ xid'[c] = xid[c] + 1 /\ \A d \in Clients : d # c => call'[d] = call[d] /\ xid'[d] = xid[d]
  BY <1>1 DEF NfsInv, CallInv
<1>5. CallInv'
  <2>1. call' \in [Clients -> Messages \cup {None}] /\ xid' \in [Clients -> Nat]
    BY <1>1 DEF NfsInv, CallInv
  <2> QED
    BY <1>1, <1>4, <2>1 DEF NfsInv, CallInv
<1>6. ASSUME NEW d \in Readers
      PROVE  ReaderInv(d)'
  <2>1. ReaderInv(d) /\ d \in Clients
    BY DEF NfsInv, DataInv, Clients
  <2>2. CASE d = c
    BY <1>1, <1>4, <2>1, <2>2 DEF ReaderInv
  <2>3. CASE d # c
    BY <1>1, <1>4, <2>1, <2>3 DEF ReaderInv
  <2> QED
    BY <2>2, <2>3
<1>7. DataInv'
  BY <1>1, <1>6 DEF NfsInv, DataInv
<1>8. ASSUME NEW r \in replies
      PROVE  ReplyInv(r)'
  <2>1. ReplyInv(r) /\ r.client # c /\ r.client \in Clients
    BY <1>1 DEF NfsInv, ReplyInv
  <2>2. call'[r.client] = call[r.client] /\ start'[r.client] = start[r.client]
    BY <1>4, <2>1
  <2> QED
    BY <1>1, <2>1, <2>2 DEF ReplyInv, ReadReplyInv, StableReplyInv
<1> QED
  BY <1>1, <1>3, <1>5, <1>7, <1>8 DEF NfsInv

\* The calls of readers, listers and probers.
LEMMA CallsInv ==
  ASSUME NfsInv, NEW c \in Clients, CallRead(c) \/ CallReaddir(c) \/ CallAny(c)
  PROVE  NfsInv'
<1>1. xid[c] \in Nat /\ start \in [Clients -> Nat] /\ data[c] \in Seq(Nat \X Nat)
  BY DEF NfsInv, CallInv, DataInv
<1>2. ASSUME NEW proc \in Procs, NEW path \in Paths, NEW name \in Names \cup {None},
             NEW offset \in Nat
      PROVE  /\ Message(c, proc, path, name, offset) \in Messages
             /\ Message(c, proc, path, name, offset).client = c
             /\ Message(c, proc, path, name, offset).xid = xid[c] + 1
             /\ Message(c, proc, path, name, offset).proc = proc
             /\ Message(c, proc, path, name, offset).path = path
             /\ Message(c, proc, path, name, offset).offset = offset
  BY <1>1 DEF Message, Messages
<1>3. CASE CallRead(c)
  <2>1. c \in Readers /\ ReadPath \in Paths /\ host[ReadPath].size \in Nat /\ Len(data[c]) \in Nat
    BY <1>1, <1>3, ReadPathStable, LenProperties DEF CallRead, NfsInv
  <2>2. PICK m : m = Message(c, "READ", ReadPath, None, Len(data[c]))
    OBVIOUS
  <2>3. /\ m \in Messages /\ m.client = c /\ m.xid = xid[c] + 1 /\ m.proc = "READ"
        /\ m.path = ReadPath /\ m.offset = Len(data[c])
    <3>1. "READ" \in Procs /\ None \in Names \cup {None}
      BY DEF Procs
    <3> QED
      BY <1>1, <2>1, <2>2, <3>1 DEF Message, Messages
  <2>4. start' = [start EXCEPT ![c] = IF xid[c] = 0 THEN host[ReadPath].size ELSE start[c]]
    BY <1>3 DEF CallRead
  <2>5. start[c] \in Nat /\ start[c] <= host[ReadPath].size
    BY <2>1 DEF NfsInv, DataInv, ReaderInv
  <2>6. /\ start' \in [Clients -> Nat] /\ \A d \in Clients : d # c => start'[d] = start[d]
        /\ start'[c] <= host[ReadPath].size
    BY <1>1, <2>1, <2>4, <2>5
  <2>7. Send(c, m)
    BY <1>3, <2>2 DEF CallRead
  <2> QED
    BY <2>3, <2>6, <2>7, SendInv
<1>4. ASSUME NEW proc \in Procs, NEW path \in Paths, NEW name \in Names \cup {None},
             c \notin Readers, start' = start, Send(c, Message(c, proc, path, name, 0))
      PROVE  NfsInv'
  <2>1. PICK m : m = Message(c, proc, path, name, 0)
    OBVIOUS
  <2>2. m \in Messages /\ m.client = c /\ m.xid = xid[c] + 1
    BY <1>2, <2>1
  <2> QED
    BY <1>1, <1>4, <2>1, <2>2, SendInv
<1>5. CASE CallReaddir(c)
  <2>1. Root \in Paths /\ "READDIR" \in Procs /\ c \notin Readers
    BY <1>5, NfsAssumption DEF Paths, Procs, Attributed, CallReaddir
  <2> QED
    BY <1>4, <1>5, <2>1 DEF CallReaddir
<1>6. CASE CallAny(c)
  <2>1. c \notin Readers /\ start' = start
    BY <1>6, NfsAssumption DEF CallAny
  <2>2. PICK path \in Paths :
          \/ \E proc \in Attributed \ {"LOOKUP"} : Send(c, Message(c, proc, path, None, 0))
          \/ \E name \in Names : Send(c, Message(c, "LOOKUP", path, name, 0))
          \/ Send(c, Message(c, "MNT", path, None, 0))
    BY <1>6 DEF CallAny
  <2>3. Attributed \subseteq Procs /\ "LOOKUP" \in Procs /\ "MNT" \in Procs
    BY DEF Procs, Attributed
  <2> QED
    BY <1>4, <2>1, <2>2, <2>3
<1> QED
  BY <1>3, <1>5, <1>6

\* A call is repeated, or a datagram is lost.
LEMMA NetworkInv ==
  ASSUME NfsInv, Lose \/ \E c \in Clients : Retransmit(c)
  PROVE  NfsInv'
<1>1. UNCHANGED <<host, files, static, call, xid, phase, data, start>>
  BY DEF Lose, Retransmit, hostVars, clientVars
<1>2. wire' \subseteq Messages /\ replies' \subseteq replies
  BY DEF Lose, Retransmit, NfsInv, CallInv
<1> QED
  BY <1>1, <1>2 DEF NfsInv, HostInv, StaticInv, CallInv, DataInv, ReaderInv, ReplyInv,
                    ReadReplyInv, StableReplyInv

\* A reply arrives.
LEMMA ReceiveInv ==
  ASSUME NfsInv, NEW r \in replies, Receive(r)
  PROVE  NfsInv'
<1> DEFINE c == r.client
<1>1. /\ c \in Clients /\ ReplyInv(r)
      /\ UNCHANGED <<host, files, static, wire, xid, start>>
      /\ call' = [call EXCEPT ![c] = None]
      /\ replies' = {q \in replies : q.client # c}
  BY DEF NfsInv, ReplyInv, Receive, hostVars
<1>2. data' = IF c \in Readers THEN [data EXCEPT ![c] = data[c] \o r.result.bytes] ELSE data
  BY DEF Receive
<1>3. /\ phase' \in [Clients -> {"busy", "done", "failed"}]
      /\ \A d \in Clients : d # c => phase'[d] = phase[d]
      /\ c \in Readers /\ phase'[c] = "done" => r.result.eof
  <2>1. phase' = [phase EXCEPT ![c] = IF c \in Probers THEN "busy"
                                      ELSE IF r.result.status # "OK" THEN "failed"
                                      ELSE IF r.result.eof THEN "done" ELSE "busy"]
    BY DEF Receive
  <2>2. phase \in [Clients -> {"busy", "done", "failed"}]
    BY DEF NfsInv, CallInv
  <2> QED
    BY <1>1, <2>1, <2>2
<1>4. HostInv' /\ StaticInv' /\ wire' \subseteq Messages
  BY <1>1 DEF NfsInv, HostInv, StaticInv
<1>5. /\ call' \in [Clients -> Messages \cup {None}] /\ call'[c] = None
      /\ \A d \in Clients : d # c => call'[d] = call[d]
  BY <1>1 DEF NfsInv, CallInv
<1>6. CallInv'
  BY <1>1, <1>3, <1>5 DEF NfsInv, CallInv
<1> HIDE DEF c
<1>7. ASSUME c \in Readers
      PROVE  ReaderInv(c)' /\ data'[c] \in Seq(Nat \X Nat)
  <2>1. ReaderInv(c) /\ ReadReplyInv(r) /\ ReadId \in Nat /\ data \in [Clients -> Seq(Nat \X Nat)]
    BY <1>1, <1>7, ReadPathStable DEF NfsInv, DataInv, ReplyInv, c
  <2>2. PICK n \in Nat : data[c] = BytesFrom(0, n) /\ n <= host[ReadPath].size
    BY <2>1 DEF ReaderInv
  <2>3. Len(data[c]) = n
    BY <2>1, <2>2, BytesType
  <2>4. PICK k \in Nat : r.result.bytes = BytesFrom(n, k) /\ n + k <= host[ReadPath].size
    BY <2>1, <2>3 DEF ReadReplyInv, c
  <2>5. data'[c] = data[c] \o r.result.bytes
    BY <1>1, <1>2, <1>7, <2>1
  <2>6. data'[c] = BytesFrom(0, n + k)
    BY <2>1, <2>2, <2>4, <2>5, BytesConcat
  <2>7. n + k \in Nat /\ 0 \in Nat
    OBVIOUS
  <2>8. Len(data'[c]) = n + k /\ data'[c] \in Seq(Nat \X Nat)
    BY <2>1, <2>6, <2>7, BytesType, Zenon
  <2>9. phase'[c] = "done" => Len(data'[c]) >= start[c]
    <3>1. phase'[c] = "done" => n >= start[c]
      BY <1>3, <1>7, <2>1, <2>3 DEF ReadReplyInv, c
    <3>2. start[c] \in Nat
      BY <2>1 DEF ReaderInv
    <3> QED
      BY <2>8, <3>1, <3>2
  <2> QED
    BY <1>1, <1>5, <2>1, <2>4, <2>6, <2>7, <2>8, <2>9 DEF ReaderInv
<1>8. \A d \in Clients : d # c => data'[d] = data[d]
  BY <1>2 DEF NfsInv, DataInv
<1>9. DataInv'
  <2>1. data' \in [Clients -> Seq(Nat \X Nat)]
    BY <1>1, <1>2, <1>7, <1>8 DEF NfsInv, DataInv
  <2>2. ASSUME NEW d \in Readers, d # c
        PROVE  ReaderInv(d)'
    <3>1. ReaderInv(d) /\ d \in Clients
      BY DEF NfsInv, DataInv, Clients
    <3> QED
      BY <1>1, <1>3, <1>5, <1>8, <2>2, <3>1 DEF ReaderInv
  <2>3. \A d \in Clients \ Readers : data'[d] = <<>>
    BY <1>2, <1>8 DEF NfsInv, DataInv
  <2> QED
    BY <1>1, <1>7, <2>1, <2>2, <2>3 DEF NfsInv, DataInv
<1>10. ASSUME NEW q \in replies'
       PROVE  ReplyInv(q)'
  <2>1. ReplyInv(q) /\ q.client # c /\ q.client \in Clients
    BY <1>1 DEF NfsInv, ReplyInv
  <2>2. call'[q.client] = call[q.client] /\ data'[q.client] = data[q.client]
    BY <1>5, <1>8, <2>1
  <2> QED
    BY <1>1, <2>1, <2>2 DEF ReplyInv, ReadReplyInv, StableReplyInv
<1> QED
  BY <1>4, <1>6, <1>9, <1>10 DEF NfsInv

\* Every step keeps the invariant.
LEMMA NextInv == NfsInv /\ [Next]_vars => NfsInv'
<1> SUFFICES ASSUME NfsInv, [Next]_vars PROVE NfsInv'
  OBVIOUS
<1>1. CASE UNCHANGED vars
  BY <1>1 DEF vars, NfsInv, HostInv, StaticInv, CallInv, DataInv, ReaderInv, ReplyInv,
              ReadReplyInv, StableReplyInv
<1> QED
  BY <1>1, HostNfsInv, ServeInv, RestartInv, CallsInv, NetworkInv, ReceiveInv
     DEF Next, Client

-----------------------------------------------------------------------------
(* Theorems *)

\* The inductive invariant holds in every reachable state.
THEOREM InvariantHolds == Spec => []NfsInv
  BY InitInv, NextInv, PTL DEF Spec

\* A reply to GETATTR, ACCESS or LOOKUP about a file that is there all the time
\* is about that file, whatever other calls have left in the static results.
THEOREM StableFilesAreSeen == Spec => []StableFilesSeen
<1>1. NfsInv => StableFilesSeen
  BY DEF NfsInv, HostInv, ReplyInv, StableReplyInv, StableFilesSeen
<1> QED
  BY <1>1, InvariantHolds, PTL

\* A READDIR reply with eof has every file that was there all the time, unless
\* readdir has failed on the way.
THEOREM ListingsAreComplete == Spec => []ListingComplete
<1>1. NfsInv => ListingComplete
  <2> SUFFICES ASSUME NfsInv, NEW r \in replies, r.proc = "READDIR", r.path = Root,
                      r.result.eof, ~r.result.cut, NEW n \in Stable
               PROVE  host[<<n>>].id \in r.result.entries
    BY DEF ListingComplete
  <2>1. StableReplyInv(r) /\ host[<<n>>].id = StableId[n]
    BY DEF NfsInv, HostInv, ReplyInv
  <2> QED
    BY <2>1 DEF StableReplyInv
<1> QED
  BY <1>1, InvariantHolds, PTL

\* A reader has the first bytes of its file, in order and once, whatever happened
\* to its calls and their replies.
THEOREM ReadersHavePrefix == Spec => []ReadsPrefix
<1>1. NfsInv => ReadsPrefix
  <2> SUFFICES ASSUME NfsInv, NEW c \in Readers
               PROVE  data[c] = [i \in 1 .. Len(data[c]) |-> <<host[ReadPath].id, i>>]
    BY DEF ReadsPrefix
  <2>1. ReaderInv(c) /\ ReadId \in Nat /\ host[ReadPath].id = ReadId
    BY ReadPathStable DEF NfsInv, DataInv
  <2>2. PICK n \in Nat : data[c] = BytesFrom(0, n)
    BY <2>1 DEF ReaderInv
  <2>3. Len(data[c]) = n
    BY <2>1, <2>2, BytesType
  <2>4. BytesFrom(0, n) = [i \in 1 .. n |-> <<ReadId, i>>]
    BY DEF BytesFrom
  <2> QED
    BY <2>1, <2>2, <2>3, <2>4
<1> QED
  BY <1>1, InvariantHolds, PTL

\* A reader that has seen eof has at least what its file held when it began.
THEOREM ReadersReachEnd == Spec => []ReadsToEnd
<1>1. NfsInv => ReadsToEnd
  BY DEF NfsInv, DataInv, ReaderInv, ReadsToEnd
<1> QED
  BY <1>1, InvariantHolds, PTL

\* Type correctness: in particular no byte comes from behind the end of a file.
THEOREM TypeCorrect == Spec => []TypeOK
<1>1. NfsInv => TypeOK
  <2> SUFFICES ASSUME NfsInv PROVE TypeOK
    OBVIOUS
  <2>1. \A p \in Paths : host[p] = None \/ host[p].size \in 0 .. MaxSize
    BY NfsAssumption DEF NfsInv, HostInv, Objects
  <2>2. ASSUME NEW c \in Clients
        PROVE  data[c] \in Seq((1 .. MaxFiles) \X (1 .. MaxSize))
    <3>1. CASE c \notin Readers
      BY <3>1, EmptySeq DEF NfsInv, DataInv
    <3>2. CASE c \in Readers
      <4>1. /\ ReaderInv(c) /\ ReadId \in 1 .. MaxFiles
            /\ host[ReadPath].size \in Nat /\ host[ReadPath].size <= MaxSize
        BY <3>2, ReadPathStable DEF NfsInv, DataInv
      <4>2. PICK n \in Nat : data[c] = BytesFrom(0, n) /\ n <= host[ReadPath].size
        BY <4>1 DEF ReaderInv
      <4>3. \A i \in 1 .. n : <<ReadId, 0 + i>> \in (1 .. MaxFiles) \X (1 .. MaxSize)
        BY <4>1, <4>2, NfsAssumption
      <4>4. data[c] \in [1 .. n -> (1 .. MaxFiles) \X (1 .. MaxSize)]
        BY <4>2, <4>3 DEF BytesFrom
      <4> QED
        BY <4>4
    <3> QED
      BY <3>1, <3>2
  <2>3. \A c \in Clients : call[c] = None \/ (call[c].client = c /\ call[c].xid = xid[c] /\ call[c].proc \in Procs)
    BY DEF NfsInv, CallInv, Messages
  <2> QED
    BY <2>1, <2>2, <2>3 DEF TypeOK, NfsInv, HostInv, StaticInv, CallInv
<1> QED
  BY <1>1, InvariantHolds, PTL
=============================================================================
