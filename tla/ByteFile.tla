------------------------------ MODULE ByteFile ------------------------------
(***************************************************************************)
(* What a file of the file system promises its users: an array of bytes    *)
(* that is written, cut, extended and read.  Abstract: no clusters.        *)
(***************************************************************************)
EXTENDS Integers, Sequences

CONSTANTS
    OwnBytes,     \* bytes that are written to the file; 0 among them
    Buffers,      \* the buffers of the write requests
    Offsets,      \* the offsets of the write requests
    Sizes,        \* the sizes of the truncate requests
    Reads         \* offset and length of the read requests

VARIABLES
    contents,     \* the bytes of the file
    answer        \* what the last request returned, with the bytes it read

Returned(n, bytes) == [ret |-> n, bytes |-> bytes]

Shorter(a, b) == IF a < b THEN a ELSE b

\* A buffer put at offset.  Bytes between the old end of the file and the
\* offset are some the file has been given before, or 0; never another's.
Put(buf, offset) ==
    LET old == Len(contents)
        end == offset + Len(buf)
    IN  /\ Len(contents') = IF end > old THEN end ELSE old
        /\ \A i \in 1 .. Len(contents') :
              IF i \in offset + 1 .. end THEN contents'[i] = buf[i - offset]
              ELSE IF i <= old THEN contents'[i] = contents[i]
              ELSE contents'[i] \in OwnBytes
        /\ answer' = Returned(Len(buf), <<>>)

Cut(size) ==
    /\ size <= Len(contents)
    /\ contents' = SubSeq(contents, 1, size)
    /\ answer' = Returned(0, <<>>)

Extend(size) ==
    /\ size > Len(contents)
    /\ contents' = [i \in 1 .. size |-> IF i <= Len(contents) THEN contents[i] ELSE 0]
    /\ answer' = Returned(0, <<>>)

Refuse == answer' = Returned(-1, <<>>) /\ UNCHANGED contents

\* Setting the file's times.
Touch == answer' = Returned(0, <<>>) /\ UNCHANGED contents

Read(offset, n) ==
    /\ LET bytes == SubSeq(contents, offset + 1, Shorter(offset + n, Len(contents)))
       IN  answer' = Returned(Len(bytes), bytes)
    /\ UNCHANGED contents

Init == contents = <<>> /\ answer = Returned(0, <<>>)

Next ==
    \/ \E buf \in Buffers, offset \in Offsets : Put(buf, offset)
    \/ \E size \in Sizes : Cut(size) \/ Extend(size)
    \/ Refuse
    \/ Touch
    \/ \E r \in Reads : Read(r[1], r[2])

Spec == Init /\ [][Next]_<<contents, answer>>
=============================================================================
