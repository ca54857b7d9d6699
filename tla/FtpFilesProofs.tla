--------------------------- MODULE FtpFilesProofs ---------------------------
(***************************************************************************)
(* FilesInv is an inductive invariant of FtpFiles, for files of any length *)
(* and any buffer: the bytes of the file, of stdio's buffer, of the        *)
(* connection and of the sender are, one after the other, the bytes that   *)
(* the transfer is to deliver.                                             *)
(***************************************************************************)
EXTENDS FtpFiles, SequenceTheorems, TLAPS

Byte == 0 .. 255

\* A file is stored: what is to come after the file and stdio's buffer.  While
\* nothing has failed it is what is in the connection and with the client.
Stored ==
    /\ file \in Seq(Byte)
    /\ client = "reset" => "connection" \in failed
    /\ client = "ended" => unsent = <<>>
    /\ "connection" \in failed => client = "reset" /\ net = <<>>
    /\ "disk" \notin failed =>
          \E rest \in Seq(Byte) :
              /\ source = (file \o stdio) \o rest
              /\ failed = {} /\ pc = "transfer" => rest = net \o unsent
              /\ failed = {} /\ reply = "226" => rest = <<>>

\* A file is retrieved.  SIGINT loses what is in the connection.
Retrieved ==
    /\ reply # "none" => source = (got \o net) \o unsent
    /\ reply = "226" => unsent = <<>>

FilesType ==
    /\ file = NoFile \/ file \in Seq(Byte)
    /\ unsent \in Seq(Byte) /\ net \in Seq(Byte) /\ stdio \in Seq(Byte) /\ got \in Seq(Byte)
    /\ pc \in {"idle", "transfer"}
    /\ command \in {"none", "STOR", "RETR"}
    /\ reply \in {"none", "150", "226"}
    /\ client \in {"open", "ended", "reset"}
    /\ failed \subseteq {"fopen", "disk", "connection"}

FilesInv ==
    /\ FilesType
    /\ stdio # <<>> => Storing
    /\ pc = "transfer" => reply = "150" /\ "fopen" \notin failed
    /\ command = "none" => reply = "none"
    /\ command = "STOR" => source \in Seq(Byte) /\ ("fopen" \notin failed => Stored)
    /\ command = "RETR" /\ failed = {} => source \in Seq(Byte) /\ Retrieved

-----------------------------------------------------------------------------
(* Sequences *)

\* A sequence is cut in two.
LEMMA Cut ==
  ASSUME NEW s \in Seq(Byte), NEW n \in 0 .. Len(s)
  PROVE  /\ Take(s, n) \in Seq(Byte) /\ Drop(s, n) \in Seq(Byte)
         /\ Take(s, n) \o Drop(s, n) = s
         /\ Len(Take(s, n)) = n
<1>1. Len(s) \in Nat /\ \A i \in 1 .. Len(s) : s[i] \in Byte
  BY ElementOfSeq, LenProperties
<1>2. Take(s, n) \in Seq(Byte) /\ Len(Take(s, n)) = n
  <2>1. n \in Int /\ \A i \in 1 .. n : s[i] \in Byte
    BY <1>1
  <2>2. SubSeq(s, 1, n) \in Seq(Byte) /\ Len(SubSeq(s, 1, n)) = IF 1 <= n THEN n - 1 + 1 ELSE 0
    BY <2>1, SubSeqProperties
  <2> QED
    BY <1>1, <2>2 DEF Take
<1>3. Drop(s, n) \in Seq(Byte)
  <2>1. n + 1 \in Int /\ Len(s) \in Int /\ \A i \in n + 1 .. Len(s) : s[i] \in Byte
    BY <1>1
  <2> QED
    BY <2>1, SubSeqProperties DEF Drop
<1>4. 1 \in 1 .. Len(s) + 1 /\ n \in 1 - 1 .. Len(s) /\ Len(s) \in n .. Len(s)
  BY <1>1
<1>5. SubSeq(s, 1, n) \o SubSeq(s, n + 1, Len(s)) = SubSeq(s, 1, Len(s))
  BY <1>4, ConcatAdjacentSubSeq
<1> QED
  BY <1>2, <1>3, <1>5, SubSeqFull DEF Take, Drop

\* Nothing is dropped, or everything.
LEMMA CutEnds ==
  ASSUME NEW s \in Seq(Byte)
  PROVE  /\ Take(s, 0) = <<>> /\ Drop(s, 0) = s
         /\ Take(s, Len(s)) = s /\ Drop(s, Len(s)) = <<>>
<1>1. Len(s) \in Nat
  BY LenProperties
<1>2. Take(s, 0) = <<>> /\ Drop(s, Len(s)) = <<>>
  BY <1>1, SubSeqEmpty DEF Take, Drop
<1> QED
  BY <1>1, <1>2, SubSeqFull DEF Take, Drop

\* What comes first is a prefix.
LEMMA PrefixOfConcat ==
  ASSUME NEW s \in Seq(Byte), NEW t \in Seq(Byte)
  PROVE  IsPrefix(s, s \o t)
<1>1. Len(s) \in Nat /\ Len(t) \in Nat /\ Len(s \o t) = Len(s) + Len(t)
  BY LenProperties, ConcatProperties
<1>2. CASE Len(s) = 0
  <2>1. SubSeq(s, 1, Len(s)) = <<>> /\ SubSeq(s \o t, 1, Len(s)) = <<>>
    BY <1>2, SubSeqEmpty
  <2> QED
    BY <1>1, <2>1 DEF IsPrefix
<1>3. CASE Len(s) # 0
  <2>1. 1 \in 1 .. Len(s) /\ Len(s) \in 1 .. Len(s)
    BY <1>1, <1>3
  <2>2. SubSeq(s \o t, 1, Len(s)) = SubSeq(s, 1, Len(s))
    BY <2>1, SubSeqOfConcat1
  <2> QED
    BY <1>1, <2>2 DEF IsPrefix
<1> QED
  BY <1>2, <1>3

\* Concatenation is associative.
LEMMA Associative ==
  ASSUME NEW s \in Seq(Byte), NEW t \in Seq(Byte), NEW u \in Seq(Byte)
  PROVE  (s \o t) \o u = s \o (t \o u)
<1>1. /\ s \o t \in Seq(Byte) /\ Len(s \o t) = Len(s) + Len(t)
      /\ \A i \in 1 .. Len(s) + Len(t) :
            (s \o t)[i] = IF i <= Len(s) THEN s[i] ELSE t[i - Len(s)]
  BY ConcatProperties
<1>2. /\ t \o u \in Seq(Byte) /\ Len(t \o u) = Len(t) + Len(u)
      /\ \A i \in 1 .. Len(t) + Len(u) :
            (t \o u)[i] = IF i <= Len(t) THEN t[i] ELSE u[i - Len(t)]
  BY ConcatProperties
<1> DEFINE v == s \o t
           w == t \o u
<1>3. v \in Seq(Byte) /\ w \in Seq(Byte)
  BY <1>1, <1>2
<1> HIDE DEF v, w
<1>4. /\ v \o u \in Seq(Byte) /\ Len(v \o u) = Len(v) + Len(u)
      /\ \A i \in 1 .. Len(v) + Len(u) :
            (v \o u)[i] = IF i <= Len(v) THEN v[i] ELSE u[i - Len(v)]
  BY <1>3, ConcatProperties
<1>5. /\ s \o w \in Seq(Byte) /\ Len(s \o w) = Len(s) + Len(w)
      /\ \A i \in 1 .. Len(s) + Len(w) :
            (s \o w)[i] = IF i <= Len(s) THEN s[i] ELSE w[i - Len(s)]
  BY <1>3, ConcatProperties
<1>6. /\ Len(v) = Len(s) + Len(t) /\ Len(w) = Len(t) + Len(u)
      /\ Len(s) \in Nat /\ Len(t) \in Nat /\ Len(u) \in Nat
      /\ \A i \in 1 .. Len(s) + Len(t) : v[i] = IF i <= Len(s) THEN s[i] ELSE t[i - Len(s)]
      /\ \A i \in 1 .. Len(t) + Len(u) : w[i] = IF i <= Len(t) THEN t[i] ELSE u[i - Len(t)]
  BY <1>1, <1>2, LenProperties DEF v, w
<1>7. Len(v \o u) = Len(s \o w) /\ \A i \in 1 .. Len(v \o u) : (v \o u)[i] = (s \o w)[i]
  <2>1. Len(v \o u) = Len(s) + Len(t) + Len(u) /\ Len(s \o w) = Len(s) + Len(t) + Len(u)
    BY <1>4, <1>5, <1>6
  <2>2. ASSUME NEW i \in 1 .. Len(s) + Len(t) + Len(u)
        PROVE  (v \o u)[i] = (s \o w)[i]
    <3>1. CASE i <= Len(s)
      BY <1>4, <1>5, <1>6, <3>1
    <3>2. CASE Len(s) < i /\ i <= Len(s) + Len(t)
      <4>1. (v \o u)[i] = t[i - Len(s)]
        BY <1>4, <1>6, <3>2
      <4>2. i - Len(s) \in 1 .. Len(t) + Len(u) /\ i - Len(s) <= Len(t)
        BY <1>6, <3>2
      <4> QED
        BY <1>5, <1>6, <3>2, <4>1, <4>2
    <3>3. CASE Len(s) + Len(t) < i
      <4>1. (v \o u)[i] = u[i - (Len(s) + Len(t))]
        BY <1>4, <1>6, <3>3
      <4>2. i - Len(s) \in 1 .. Len(t) + Len(u) /\ ~(i - Len(s) <= Len(t)) /\ ~(i <= Len(s))
        BY <1>6, <3>3
      <4>3. (s \o w)[i] = u[(i - Len(s)) - Len(t)]
        <5>1. i \in 1 .. Len(s) + Len(w)
          BY <1>6
        <5>2. (s \o w)[i] = w[i - Len(s)]
          BY <1>5, <4>2, <5>1
        <5>3. w[i - Len(s)] = u[(i - Len(s)) - Len(t)]
          BY <1>6, <4>2
        <5> QED
          BY <5>2, <5>3
      <4>4. i - (Len(s) + Len(t)) = (i - Len(s)) - Len(t)
        BY <1>6
      <4> QED
        BY <4>1, <4>3, <4>4, Zenon
    <3> QED
      BY <1>6, <3>1, <3>2, <3>3
  <2> QED
    BY <2>1, <2>2
<1>8. v \o u = s \o w
  BY <1>4, <1>5, <1>7, SeqEqual
<1> QED
  BY <1>8 DEF v, w

\* Concatenation as an operator that the provers do not look into.
Cat(s, t) == s \o t

\* What they need to know of it.
LEMMA CatLaws ==
  ASSUME NEW s \in Seq(Byte), NEW t \in Seq(Byte), NEW u \in Seq(Byte)
  PROVE  Cat(s, t) \in Seq(Byte) /\ Cat(Cat(s, t), u) = Cat(s, Cat(t, u))
<1>1. s \o t \in Seq(Byte)
  BY ConcatProperties
<1> QED
  BY <1>1, Associative DEF Cat

\* Four pieces: the boundaries between them do not matter.
LEMMA Regroup ==
  ASSUME NEW a \in Seq(Byte), NEW b \in Seq(Byte), NEW c \in Seq(Byte), NEW d \in Seq(Byte)
  PROVE  /\ Cat(Cat(a, Cat(b, c)), d) = Cat(Cat(a, b), Cat(c, d))
         /\ Cat(Cat(a, b), Cat(c, d)) = Cat(a, Cat(Cat(b, c), d))
<1>1. /\ Cat(a, b) \in Seq(Byte) /\ Cat(b, c) \in Seq(Byte) /\ Cat(c, d) \in Seq(Byte)
  BY CatLaws
<1> QED
  BY <1>1, CatLaws

-----------------------------------------------------------------------------
(* The invariant *)

\* No transfer has begun.
LEMMA InitInv == Init => FilesInv
  BY DEF Init, FilesInv, FilesType, Storing

\* The client sends the next bytes of the file it stores.
LEMMA SendBytesInv ==
  ASSUME FilesInv, SendBytes
  PROVE  FilesInv'
<1>1. PICK n \in 1 .. Len(unsent) : net' = net \o Take(unsent, n) /\ unsent' = Drop(unsent, n)
  BY DEF SendBytes
<1>2. /\ pc = "transfer" /\ command = "STOR" /\ client = "open"
      /\ unsent \in Seq(Byte) /\ net \in Seq(Byte) /\ Len(unsent) \in Nat
      /\ UNCHANGED <<file, pc, command, reply, source, stdio, got, client, failed>>
  BY LenProperties DEF SendBytes, Storing, FilesInv, FilesType
<1>3. n \in 0 .. Len(unsent)
  BY <1>2
<1>4. /\ Take(unsent, n) \in Seq(Byte) /\ Drop(unsent, n) \in Seq(Byte)
      /\ Take(unsent, n) \o Drop(unsent, n) = unsent
  BY <1>2, <1>3, Cut
<1>5. net' \in Seq(Byte) /\ unsent' \in Seq(Byte)
  BY <1>1, <1>2, <1>4, ConcatProperties
<1>6. net' \o unsent' = net \o unsent
  <2>1. (net \o Take(unsent, n)) \o Drop(unsent, n) = net \o (Take(unsent, n) \o Drop(unsent, n))
    BY <1>2, <1>4, Associative, Zenon
  <2> QED
    BY <1>1, <1>4, <2>1, Zenon
<1>7. Stored'
  <2>1. Stored /\ reply = "150"
    BY <1>2 DEF FilesInv
  <2> QED
    BY <1>2, <1>6, <2>1 DEF Stored
<1> QED
  BY <1>2, <1>5, <1>7 DEF FilesInv, FilesType, Storing

\* The client has sent the last byte, or its connection breaks.
LEMMA EndOrResetInv ==
  ASSUME FilesInv, EndData \/ ResetData
  PROVE  FilesInv'
<1>1. /\ pc = "transfer" /\ command = "STOR"
      /\ UNCHANGED <<file, pc, command, reply, source, unsent, stdio, got>>
      /\ Stored /\ reply = "150" /\ "fopen" \notin failed
  BY DEF EndData, ResetData, Storing, FilesInv
<1>2. CASE EndData
  <2>1. Stored'
    BY <1>1, <1>2 DEF EndData, Stored
  <2> QED
    BY <1>1, <1>2, <2>1 DEF EndData, FilesInv, FilesType, Storing
<1>3. CASE ResetData
  <2>1. /\ net' = <<>> /\ net' \in Seq(Byte) /\ client' = "reset" /\ failed' = failed \cup {"connection"}
    BY <1>3, EmptySeq DEF ResetData
  <2>2. Stored'
    BY <1>1, <2>1 DEF Stored
  <2> QED
    BY <1>1, <2>1, <2>2 DEF FilesInv, FilesType, Storing
<1> QED
  BY <1>2, <1>3

\* The client of RETR reads the connection, perhaps after 226.
LEMMA TakeBytesInv ==
  ASSUME FilesInv, TakeBytes
  PROVE  FilesInv'
<1>1. PICK n \in 1 .. Len(net) : got' = got \o Take(net, n) /\ net' = Drop(net, n)
  BY DEF TakeBytes
<1>2. /\ command = "RETR" /\ got \in Seq(Byte) /\ net \in Seq(Byte) /\ Len(net) \in Nat
      /\ UNCHANGED <<file, pc, command, reply, source, unsent, stdio, client, failed>>
  BY LenProperties DEF TakeBytes, FilesInv, FilesType
<1>3. n \in 0 .. Len(net)
  BY <1>2
<1>4. /\ Take(net, n) \in Seq(Byte) /\ Drop(net, n) \in Seq(Byte)
      /\ Take(net, n) \o Drop(net, n) = net
  BY <1>2, <1>3, Cut
<1>5. net' \in Seq(Byte) /\ got' \in Seq(Byte)
  BY <1>1, <1>2, <1>4, ConcatProperties
<1>6. got' \o net' = got \o net
  <2>1. (got \o Take(net, n)) \o Drop(net, n) = got \o (Take(net, n) \o Drop(net, n))
    BY <1>2, <1>4, Associative, Zenon
  <2> QED
    BY <1>1, <1>4, <2>1, Zenon
<1> QED
  BY <1>2, <1>5, <1>6 DEF FilesInv, FilesType, Storing, Retrieved

\* STOR begins: the old file is gone, or cannot be opened.
LEMMA StartStoreInv ==
  ASSUME FilesInv, NEW bytes \in Uploads, StartStore(bytes)
  PROVE  FilesInv'
<1>1. /\ bytes \in Seq(Byte) /\ <<>> \in Seq(Byte)
  BY FilesAssumption, EmptySeq DEF Byte
<1>2. /\ command' = "STOR" /\ source' = bytes /\ unsent' = bytes /\ net' = <<>>
      /\ stdio' = <<>> /\ got' = <<>> /\ client' = "open"
  BY DEF StartStore, Begin
<1>3. CASE file' = fopen_write /\ Opened
  <2>1. (file' \o stdio') \o bytes = bytes /\ net' \o unsent' = bytes
    BY <1>1, <1>2, <1>3, ConcatEmptySeq DEF fopen_write
  <2>2. /\ file' \in Seq(Byte) /\ pc' = "transfer" /\ reply' = "150" /\ failed' = {}
    BY <1>1, <1>3 DEF fopen_write, Opened
  <2>3. Stored'
    BY <1>1, <1>2, <2>1, <2>2 DEF Stored
  <2> QED
    BY <1>1, <1>2, <2>2, <2>3 DEF FilesInv, FilesType, Storing
<1>4. CASE UNCHANGED file /\ NotOpened
  BY <1>1, <1>2, <1>4 DEF NotOpened, FilesInv, FilesType, Storing
<1> QED
  BY <1>3, <1>4 DEF StartStore

\* RETR begins: the file is opened or not.
LEMMA StartRetrieveInv ==
  ASSUME FilesInv, StartRetrieve
  PROVE  FilesInv'
<1>1. /\ command' = "RETR" /\ source' = file /\ net' = <<>> /\ <<>> \in Seq(Byte)
      /\ stdio' = <<>> /\ got' = <<>> /\ client' = "open" /\ file' = file
  BY EmptySeq DEF StartRetrieve, Begin
<1>2. CASE file # NoFile /\ unsent' = file /\ Opened
  <2>1. file \in Seq(Byte)
    BY <1>2 DEF FilesInv, FilesType
  <2>2. (got' \o net') \o unsent' = file
    BY <1>1, <1>2, <2>1, ConcatEmptySeq
  <2> QED
    BY <1>1, <1>2, <2>1, <2>2 DEF Opened, FilesInv, FilesType, Storing, Retrieved
<1>3. CASE unsent' = <<>> /\ NotOpened
  BY <1>1, <1>3 DEF NotOpened, FilesInv, FilesType, Storing
<1> QED
  BY <1>2, <1>3 DEF StartRetrieve

\* stdio writes: unless the disk fails, no byte is lost between its buffer and
\* the file.
LEMMA FlushKeeps ==
  ASSUME NEW buf \in Seq(Byte), NEW n \in 0 .. Len(buf), file \in Seq(Byte), Flush(buf, n)
  PROVE  /\ file' \in Seq(Byte) /\ stdio' \in Seq(Byte)
         /\ stdio' = Drop(buf, n)
         /\ \/ failed' = failed /\ file' \o stdio' = file \o buf
            \/ failed' = failed \cup {"disk"}
<1>1. stdio' = Drop(buf, n) /\ Len(buf) \in Nat
  BY LenProperties DEF Flush
<1>2. Take(buf, n) \in Seq(Byte) /\ Drop(buf, n) \in Seq(Byte) /\ Take(buf, n) \o Drop(buf, n) = buf
  BY Cut
<1>3. CASE file' = file \o Take(buf, n) /\ failed' = failed
  <2>1. file' \in Seq(Byte)
    BY <1>2, <1>3, ConcatProperties
  <2>2. file' \o stdio' = file \o buf
    <3>1. (file \o Take(buf, n)) \o Drop(buf, n) = file \o (Take(buf, n) \o Drop(buf, n))
      BY <1>2, Associative, Zenon
    <3> QED
      BY <1>1, <1>2, <1>3, <3>1, Zenon
  <2> QED
    BY <1>1, <1>2, <1>3, <2>1, <2>2
<1>4. ASSUME NEW k \in 0 .. n - 1, file' = file \o Take(buf, k), failed' = failed \cup {"disk"}
      PROVE  file' \in Seq(Byte)
  <2>1. k \in 0 .. Len(buf)
    BY <1>1
  <2>2. Take(buf, k) \in Seq(Byte)
    BY <2>1, Cut
  <2> QED
    BY <1>4, <2>2, ConcatProperties
<1> QED
  BY <1>1, <1>2, <1>3, <1>4 DEF Flush

\* A turn of receive_file's loop.
LEMMA ReceiveFileInv ==
  ASSUME FilesInv, receive_file
  PROVE  FilesInv'
<1>1. /\ pc = "transfer" /\ command = "STOR" /\ reply = "150" /\ "fopen" \notin failed
      /\ Stored /\ source \in Seq(Byte) /\ file \in Seq(Byte)
      /\ UNCHANGED <<command, source, unsent, got, client>>
      /\ net \in Seq(Byte) /\ stdio \in Seq(Byte) /\ unsent \in Seq(Byte) /\ Len(net) \in Nat
  BY LenProperties DEF receive_file, Storing, FilesInv, FilesType, Stored
<1>2. PICK n \in recv :
        LET buf == stdio \o bytes_received(n)
        IN  /\ net' = Drop(net, n)
            /\ \/ /\ goes_on(n)
                  /\ \E k \in 0 .. Len(buf) : Flush(buf, k)
                  /\ UNCHANGED <<pc, reply>>
               \/ /\ ~goes_on(n)
                  /\ Flush(buf, Len(buf))
                  /\ pc' = "idle" /\ reply' = "226"
  BY DEF receive_file
<1> DEFINE buf == stdio \o Take(net, n)
<1>3. n \in 0 .. Len(net) /\ (n = 0 => net = <<>> /\ client # "open")
  BY <1>1, FilesAssumption DEF recv
<1>4. /\ Take(net, n) \in Seq(Byte) /\ Drop(net, n) \in Seq(Byte)
      /\ Take(net, n) \o Drop(net, n) = net
  BY <1>1, <1>3, Cut
<1>5. buf \in Seq(Byte) /\ net' = Drop(net, n)
  BY <1>1, <1>2, <1>4, ConcatProperties
<1>6. Len(buf) \in Nat
  BY <1>5, LenProperties
<1> HIDE DEF buf
<1>7. CASE goes_on(n)
  <2>1. PICK k \in 0 .. Len(buf) : Flush(buf, k)
    BY <1>2, <1>7 DEF buf, bytes_received
  <2>2. pc' = pc /\ reply' = reply
    BY <1>2, <1>7
  <2>3. /\ file' \in Seq(Byte) /\ stdio' \in Seq(Byte)
        /\ \/ failed' = failed /\ file' \o stdio' = file \o buf
           \/ failed' = failed \cup {"disk"}
    BY <1>1, <1>5, <2>1, FlushKeeps
  <2>4. net # <<>> /\ "connection" \notin failed
    <3>1. net # <<>>
      BY <1>3, <1>7, EmptySeq DEF goes_on
    <3> QED
      BY <1>1, <3>1 DEF Stored
  <2>5. Stored'
    <3>1. CASE "disk" \in failed'
      BY <1>1, <2>2, <2>3, <2>4, <3>1 DEF Stored
    <3>2. CASE "disk" \notin failed'
      <4>1. failed' = failed /\ file' \o stdio' = file \o buf
        BY <2>3, <3>2
      <4>2. PICK rest \in Seq(Byte) : /\ source = (file \o stdio) \o rest
                                      /\ failed = {} => rest = net \o unsent
        BY <1>1, <3>2, <4>1 DEF Stored
      <4>4. failed = {}
        BY <1>1, <2>4, <3>2, <4>1 DEF Stored, FilesInv, FilesType
      <4> DEFINE left == file \o stdio
      <4>3. left \in Seq(Byte)
        BY <1>1, ConcatProperties
      <4>5. left \o Take(net, n) = file \o buf
        <5>1. (file \o stdio) \o Take(net, n) = file \o (stdio \o Take(net, n))
          <6>1. Cat(Cat(file, stdio), Take(net, n)) = Cat(file, Cat(stdio, Take(net, n)))
            BY <1>1, <1>4, CatLaws
          <6> QED
            BY <6>1 DEF Cat
        <5> QED
          BY <5>1 DEF buf
      <4> HIDE DEF left
      <4>6. (left \o Take(net, n)) \o (Drop(net, n) \o unsent) = left \o (net \o unsent)
        <5>1. (left \o Take(net, n)) \o (Drop(net, n) \o unsent)
                = left \o ((Take(net, n) \o Drop(net, n)) \o unsent)
          <6>1. Cat(Cat(left, Take(net, n)), Cat(Drop(net, n), unsent))
                  = Cat(left, Cat(Cat(Take(net, n), Drop(net, n)), unsent))
            BY <1>1, <1>4, <4>3, Regroup
          <6> QED
            BY <6>1 DEF Cat
        <5> QED
          BY <1>4, <5>1, Zenon
      <4>7. source = left \o (net \o unsent)
        BY <4>2, <4>4 DEF left
      <4>8. source' = (file' \o stdio') \o (net' \o unsent')
        BY <1>1, <1>5, <4>1, <4>5, <4>6, <4>7, Zenon
      <4>9. net' \o unsent' \in Seq(Byte)
        BY <1>1, <1>4, <1>5, ConcatProperties
      <4> QED
        <5>1. \E tail \in Seq(Byte) :
                  source' = (file' \o stdio') \o tail /\ tail = net' \o unsent'
          BY <4>8, <4>9
        <5>2. reply' # "226" /\ failed' = {}
          BY <1>1, <2>2, <4>1, <4>4
        <5> QED
          BY <1>1, <2>2, <2>3, <5>1, <5>2 DEF Stored
    <3> QED
      BY <3>1, <3>2
  <2> QED
    BY <1>1, <1>4, <1>5, <2>2, <2>3, <2>5 DEF FilesInv, FilesType, Storing
<1>8. CASE ~goes_on(n)
  <2>1. n = 0 /\ net = <<>> /\ client # "open"
    BY <1>1, <1>3, <1>8 DEF goes_on
  <2>2. buf = stdio /\ net' = <<>>
    BY <1>1, <1>5, <2>1, CutEnds, ConcatEmptySeq DEF buf
  <2>3. Flush(stdio, Len(stdio)) /\ pc' = "idle" /\ reply' = "226"
    BY <1>2, <1>8, <2>2 DEF buf, bytes_received
  <2>4. Len(stdio) \in 0 .. Len(stdio)
    BY <1>6, <2>2
  <2>5. /\ file' \in Seq(Byte) /\ stdio' \in Seq(Byte) /\ stdio' = <<>>
        /\ \/ failed' = failed /\ file' \o stdio' = file \o stdio
           \/ failed' = failed \cup {"disk"}
    <3>1. Drop(stdio, Len(stdio)) = <<>>
      BY <1>1, CutEnds
    <3> QED
      BY <1>1, <2>3, <2>4, <3>1, FlushKeeps
  <2>6. Stored'
    <3>1. CASE "disk" \in failed'
      BY <1>1, <2>2, <2>5, <3>1 DEF Stored
    <3>2. CASE "disk" \notin failed'
      <4>1. failed' = failed /\ file' \o stdio' = file \o stdio
        BY <2>5, <3>2
      <4>2. PICK rest \in Seq(Byte) : /\ source = (file \o stdio) \o rest
                                      /\ failed = {} => rest = net \o unsent
        BY <1>1, <3>2, <4>1 DEF Stored
      <4>3. failed = {} => unsent = <<>>
        BY <1>1, <2>1 DEF Stored, FilesInv, FilesType
      <4>4. failed = {} => rest = <<>>
        BY <2>1, <4>2, <4>3, EmptySeq, ConcatEmptySeq
      <4>5. source' = (file' \o stdio') \o rest
        BY <1>1, <4>1, <4>2
      <4> QED
        BY <1>1, <2>2, <2>3, <2>5, <4>1, <4>4, <4>5 DEF Stored
    <3> QED
      BY <3>1, <3>2
  <2> QED
    BY <1>1, <1>4, <1>5, <2>3, <2>5, <2>6 DEF FilesInv, FilesType, Storing
<1> QED
  BY <1>7, <1>8

\* A turn of send_file's loop.
LEMMA SendFileInv ==
  ASSUME FilesInv, send_file
  PROVE  FilesInv'
<1> DEFINE n == IF Len(unsent) < BUFFER_SIZE THEN Len(unsent) ELSE BUFFER_SIZE
<1>1. /\ pc = "transfer" /\ command = "RETR" /\ reply = "150"
      /\ net' = net \o Take(unsent, n) /\ unsent' = Drop(unsent, n)
      /\ UNCHANGED <<file, command, source, stdio, got, client, failed>>
  BY DEF send_file, FilesInv
<1>2. \/ n > 0 /\ UNCHANGED <<pc, reply>>
      \/ n = 0 /\ pc' = "idle" /\ reply' = "226"
  BY DEF send_file
<1>3. /\ net \in Seq(Byte) /\ unsent \in Seq(Byte) /\ got \in Seq(Byte) /\ Len(unsent) \in Nat
      /\ stdio = <<>>
  BY <1>1, LenProperties DEF FilesInv, FilesType, Storing
<1>4. n \in 0 .. Len(unsent) /\ (n = 0 => Len(unsent) = 0)
  BY <1>3, FilesAssumption
<1> HIDE DEF n
<1>5. /\ Take(unsent, n) \in Seq(Byte) /\ Drop(unsent, n) \in Seq(Byte)
      /\ Take(unsent, n) \o Drop(unsent, n) = unsent
  BY <1>3, <1>4, Cut
<1>6. net' \in Seq(Byte) /\ unsent' \in Seq(Byte)
  BY <1>1, <1>3, <1>5, ConcatProperties
<1>7. (got \o net') \o unsent' = (got \o net) \o unsent
  <2>1. (got \o (net \o Take(unsent, n))) \o Drop(unsent, n)
          = (got \o net) \o (Take(unsent, n) \o Drop(unsent, n))
    <3>1. Cat(Cat(got, Cat(net, Take(unsent, n))), Drop(unsent, n))
            = Cat(Cat(got, net), Cat(Take(unsent, n), Drop(unsent, n)))
      BY <1>3, <1>5, Regroup
    <3> QED
      BY <3>1 DEF Cat
  <2> QED
    BY <1>1, <1>5, <2>1, Zenon
<1>8. n = 0 => unsent' = <<>>
  BY <1>1, <1>3, <1>4, CutEnds
<1>9. failed = {} => source \in Seq(Byte) /\ Retrieved
  BY <1>1 DEF FilesInv
<1>10. failed' = {} => source' \in Seq(Byte) /\ Retrieved'
  BY <1>1, <1>2, <1>7, <1>8, <1>9 DEF Retrieved
<1> QED
  BY <1>1, <1>2, <1>3, <1>6, <1>10 DEF FilesInv, FilesType, Storing

\* SIGINT: what stdio held is in the file, what was in the connection is not.
LEMMA SignalInv ==
  ASSUME FilesInv, signal_callback_handler
  PROVE  FilesInv'
<1>1. /\ pc' = "idle" /\ reply' = "none" /\ net' = <<>> /\ <<>> \in Seq(Byte)
      /\ UNCHANGED <<command, source, unsent, got, client>>
  BY EmptySeq DEF signal_callback_handler
<1>2. CASE stdio = <<>> /\ UNCHANGED <<file, stdio, failed>>
  <2>1. command = "STOR" /\ "fopen" \notin failed => Stored'
    BY <1>1, <1>2 DEF FilesInv, Stored
  <2> QED
    BY <1>1, <1>2, <2>1 DEF FilesInv, FilesType, Storing, Retrieved
<1>3. CASE stdio # <<>> /\ Flush(stdio, Len(stdio))
  <2>1. /\ command = "STOR" /\ Stored /\ file \in Seq(Byte) /\ stdio \in Seq(Byte)
        /\ "fopen" \notin failed /\ source \in Seq(Byte)
    BY <1>3 DEF FilesInv, FilesType, Storing, Stored
  <2>2. Len(stdio) \in 0 .. Len(stdio)
    BY <2>1, LenProperties
  <2>3. /\ file' \in Seq(Byte) /\ stdio' \in Seq(Byte) /\ stdio' = <<>>
        /\ \/ failed' = failed /\ file' \o stdio' = file \o stdio
           \/ failed' = failed \cup {"disk"}
    <3>1. Drop(stdio, Len(stdio)) = <<>>
      BY <2>1, CutEnds
    <3> QED
      BY <1>3, <2>1, <2>2, <3>1, FlushKeeps
  <2>4. Stored'
    <3>1. CASE "disk" \in failed'
      BY <1>1, <2>1, <2>3, <3>1 DEF Stored
    <3>2. CASE "disk" \notin failed'
      <4>1. failed' = failed /\ file' \o stdio' = file \o stdio
        BY <2>3, <3>2
      <4> QED
        BY <1>1, <2>1, <2>3, <4>1 DEF Stored
    <3> QED
      BY <3>1, <3>2
  <2> QED
    BY <1>1, <2>1, <2>3, <2>4 DEF FilesInv, FilesType, Storing
<1> QED
  BY <1>2, <1>3 DEF signal_callback_handler

\* Every step keeps the invariant.
LEMMA NextInv == FilesInv /\ [Next]_vars => FilesInv'
<1> SUFFICES ASSUME FilesInv, [Next]_vars PROVE FilesInv'
  OBVIOUS
<1>1. CASE UNCHANGED vars
  BY <1>1 DEF vars, FilesInv, FilesType, Storing, Stored, Retrieved
<1> QED
  BY <1>1, SendBytesInv, EndOrResetInv, TakeBytesInv, StartStoreInv, StartRetrieveInv,
     ReceiveFileInv, SendFileInv, SignalInv DEF Next

-----------------------------------------------------------------------------
(* Theorems *)

\* The inductive invariant holds in every reachable state.
THEOREM InvariantHolds == Spec => []FilesInv
  BY InitInv, NextInv, PTL DEF Spec

\* While STOR goes on, after a reset of the connection and after SIGINT the file
\* is a prefix of what the client sends, whatever its length and however recv and
\* stdio cut it.
THEOREM FileIsPrefix == Spec => []StoredPrefix
<1>1. FilesInv => StoredPrefix
  <2> SUFFICES ASSUME FilesInv, command = "STOR", failed \subseteq {"connection"}
               PROVE  IsPrefix(file, source)
    BY DEF StoredPrefix
  <2>1. Stored /\ file \in Seq(Byte) /\ stdio \in Seq(Byte)
    BY DEF FilesInv, FilesType, Stored
  <2>2. PICK rest \in Seq(Byte) : source = (file \o stdio) \o rest
    BY <2>1 DEF Stored
  <2>3. source = file \o (stdio \o rest) /\ stdio \o rest \in Seq(Byte)
    BY <2>1, <2>2, Associative, ConcatProperties
  <2> QED
    BY <2>1, <2>3, PrefixOfConcat
<1> QED
  BY <1>1, InvariantHolds, PTL

\* 226 means that the file has arrived whole, unless fopen, the disk or the
\* connection has failed.
THEOREM CompleteOrFailed == Spec => []CompleteUnlessFailed
<1>1. FilesInv => CompleteUnlessFailed
  <2> SUFFICES ASSUME FilesInv, failed = {}, reply = "226", net = <<>>
               PROVE  Delivered = source
    BY DEF CompleteUnlessFailed, FileTransferComplete
  <2>1. pc # "transfer" /\ stdio = <<>> /\ command \in {"STOR", "RETR"} /\ got \in Seq(Byte)
    BY DEF FilesInv, FilesType, Storing
  <2>2. CASE command = "STOR"
    <3>1. file \in Seq(Byte) /\ source = (file \o <<>>) \o <<>>
      BY <2>1, <2>2 DEF FilesInv, Stored
    <3> QED
      BY <2>2, <3>1, ConcatEmptySeq DEF Delivered
  <2>3. CASE command = "RETR"
    <3>1. source = (got \o <<>>) \o <<>>
      BY <2>1, <2>3 DEF FilesInv, Retrieved
    <3> QED
      BY <2>1, <2>3, <3>1, ConcatEmptySeq DEF Delivered
  <2> QED
    BY <2>1, <2>2, <2>3
<1> QED
  BY <1>1, InvariantHolds, PTL
=============================================================================
