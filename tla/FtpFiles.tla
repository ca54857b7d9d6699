------------------------------ MODULE FtpFiles ------------------------------
(***************************************************************************)
(* The bytes that STOR and RETR of src/FTP/ftp_server.c move between a     *)
(* file and the data connection: the connection delivers them in pieces of *)
(* any length, stdio writes them to the file later, and fopen, the disk    *)
(* and the connection can fail in the middle.                              *)
(*                                                                         *)
(* One file and one data connection at a time.  Sockets, descriptors and a *)
(* client that leaves a RETR are the subject of FtpServer.                 *)
(***************************************************************************)
EXTENDS Integers, SequencesExt

CONSTANTS
    BUFFER_SIZE,    \* 1024 in the code
    Uploads,        \* bound: the files that clients store, as sequences of bytes
    NoFile          \* the file does not exist

ASSUME FilesAssumption ==
    /\ BUFFER_SIZE \in Nat \ {0}
    /\ Uploads \subseteq Seq(0 .. 255)

VARIABLES
    file,       \* the bytes of the file on disk, or NoFile
    pc,         \* where the server is: "idle", or in a "transfer"
    command,    \* the last transfer: "STOR", "RETR", or "none"
    reply,      \* the last answer: "none", "150", "226"
    source,     \* the bytes that the transfer is to deliver
    unsent,     \* those the sender has not sent
    net,        \* those in the data connection
    stdio,      \* those in the buffer of the opened file
    got,        \* those the client of RETR has received
    client,     \* the data connection's other end: "open", "ended", "reset"
    failed      \* what has failed in this transfer: "fopen", "disk", "connection"

vars == <<file, pc, command, reply, source, unsent, net, stdio, got, client,
          failed>>

Drop(s, n) == SubSeq(s, n + 1, Len(s))
Take(s, n) == SubSeq(s, 1, n)

-----------------------------------------------------------------------------
(* The client *)

Storing == pc = "transfer" /\ command = "STOR"

SendBytes ==
    /\ Storing /\ client = "open"
    /\ \E n \in 1 .. Len(unsent) :
          /\ net' = net \o Take(unsent, n)
          /\ unsent' = Drop(unsent, n)
    /\ UNCHANGED <<file, pc, command, reply, source, stdio, got, client, failed>>

\* The end of the stored file is the end of the connection.
EndData ==
    /\ Storing /\ client = "open" /\ unsent = <<>>
    /\ client' = "ended"
    /\ UNCHANGED <<file, pc, command, reply, source, unsent, net, stdio, got, failed>>

\* The client or the network resets the connection; what is in it is lost.
ResetData ==
    /\ Storing /\ client # "reset"
    /\ client' = "reset"
    /\ net' = <<>>
    /\ failed' = failed \cup {"connection"}
    /\ UNCHANGED <<file, pc, command, reply, source, unsent, stdio, got>>

TakeBytes ==
    /\ command = "RETR"
    /\ \E n \in 1 .. Len(net) :
          /\ got' = got \o Take(net, n)
          /\ net' = Drop(net, n)
    /\ UNCHANGED <<file, pc, command, reply, source, unsent, stdio, client, failed>>

-----------------------------------------------------------------------------
(* STOR *)

\* The file that fopen with "wb" leaves.
fopen_write == <<>>

\* What begins with both commands.
Begin(cmd, bytes) ==
    /\ pc = "idle" /\ net = <<>>
    /\ command' = cmd
    /\ source' = bytes
    /\ stdio' = <<>> /\ got' = <<>> /\ client' = "open"
    /\ UNCHANGED net

Opened == pc' = "transfer" /\ reply' = "150" /\ failed' = {}

NotOpened == pc' = "idle" /\ reply' = "226" /\ failed' = {"fopen"}

\* 150, and receive_file opens the file.  If it cannot be opened receive_file
\* returns and 226 is sent.
StartStore(bytes) ==
    /\ Begin("STOR", bytes)
    /\ unsent' = bytes
    /\ \/ file' = fopen_write /\ Opened
       \/ UNCHANGED file /\ NotOpened

\* stdio writes n bytes of its buffer to the file.  The disk may be full: what
\* is written then is less, and the rest is dropped.
Flush(buf, n) ==
    /\ stdio' = Drop(buf, n)
    /\ \/ file' = file \o Take(buf, n) /\ UNCHANGED failed
       \/ /\ \E k \in 0 .. n - 1 : file' = file \o Take(buf, k)
          /\ failed' = failed \cup {"disk"}

\* Mutant: all of buffer is written, whatever recv has returned.
whole_buffer(n) == Take(net, n) \o [i \in 1 .. BUFFER_SIZE - n |-> 0]

\* What is written to the file when recv has returned n.
bytes_received(n) == Take(net, n)

\* What recv can return: a piece of what has arrived, or 0 at the end (-1
\* after a reset is treated in the same way).
recv ==
    {n \in 1 .. BUFFER_SIZE : n <= Len(net)}
        \cup {n \in {0} : net = <<>> /\ client # "open"}

\* Mutant: a piece that does not fill buffer is taken for the last one.
until_short(n) == n = BUFFER_SIZE

\* The condition of the loop of receive_file.
goes_on(n) == n > 0

\* One turn of the loop: recv and fwrite, after which any part of the bytes is
\* on disk.  At its end fclose, and 226.
receive_file ==
    /\ Storing
    /\ \E n \in recv :
          LET buf == stdio \o bytes_received(n)
          IN  /\ net' = Drop(net, n)
              /\ \/ /\ goes_on(n)
                    /\ \E k \in 0 .. Len(buf) : Flush(buf, k)
                    /\ UNCHANGED <<pc, reply>>
                 \/ /\ ~goes_on(n)
                    /\ Flush(buf, Len(buf))
                    /\ pc' = "idle" /\ reply' = "226"
    /\ UNCHANGED <<command, source, unsent, got, client>>

-----------------------------------------------------------------------------
(* RETR *)

StartRetrieve ==
    /\ Begin("RETR", file)
    /\ \/ file # NoFile /\ unsent' = file /\ Opened
       \/ unsent' = <<>> /\ NotOpened
    /\ UNCHANGED file

\* One turn of the loop of send_file: fread fills buffer unless the file ends.
send_file ==
    /\ pc = "transfer" /\ command = "RETR"
    /\ LET n == IF Len(unsent) < BUFFER_SIZE THEN Len(unsent) ELSE BUFFER_SIZE
       IN  /\ net' = net \o Take(unsent, n)
           /\ unsent' = Drop(unsent, n)
           /\ \/ n > 0 /\ UNCHANGED <<pc, reply>>
              \/ n = 0 /\ pc' = "idle" /\ reply' = "226"
    /\ UNCHANGED <<file, command, source, stdio, got, client, failed>>

-----------------------------------------------------------------------------

\* SIGINT: exit writes what stdio holds.  The server is started again later.
signal_callback_handler ==
    /\ \/ stdio # <<>> /\ Flush(stdio, Len(stdio))
       \/ stdio = <<>> /\ UNCHANGED <<file, stdio, failed>>
    /\ pc' = "idle"
    /\ reply' = "none"
    /\ net' = <<>>
    /\ UNCHANGED <<command, source, unsent, got, client>>

Init ==
    /\ file = NoFile /\ pc = "idle" /\ command = "none" /\ reply = "none"
    /\ source = NoFile /\ unsent = <<>> /\ net = <<>> /\ stdio = <<>> /\ got = <<>>
    /\ client = "open" /\ failed = {}

Next ==
    \/ SendBytes \/ EndData \/ ResetData \/ TakeBytes
    \/ \E bytes \in Uploads : StartStore(bytes)
    \/ StartRetrieve
    \/ receive_file
    \/ send_file
    \/ signal_callback_handler

Spec == Init /\ [][Next]_vars

-----------------------------------------------------------------------------
(* Properties *)

\* Where a transfer puts its bytes.
Delivered == IF command = "RETR" THEN got ELSE file

\* "226 File transfer complete" (handle_ftp_commands): when it has been sent and
\* the client has read the connection to its end, the bytes have arrived.
FileTransferComplete == reply = "226" /\ net = <<>> => Delivered = source

\* In whatever pieces the bytes come and are written, 226 means so when nothing
\* has failed: no piece is lost, repeated or taken for the end.
CompleteUnlessFailed == failed = {} => FileTransferComplete

\* While a file is received, after a reset and after SIGINT the file is a prefix
\* of what the client sends: nothing is left of an older file, no byte of the
\* buffer that was not received gets into it.
StoredPrefix ==
    command = "STOR" /\ failed \subseteq {"connection"} => IsPrefix(file, source)
=============================================================================
