------------------------------ MODULE FtpServer ------------------------------
(***************************************************************************)
(* The FTP server of src/FTP/ftp_server.c and its clients: one thread that *)
(* serves the clients of the listen queue one after the other, waits for   *)
(* their commands, opens passive data sockets and transfers files.  The    *)
(* steps of the server end where it can block (accept, recv) or where it   *)
(* sends.                                                                  *)
(*                                                                         *)
(* The commands that change the working directory are "CWD"; of the        *)
(* directory the module knows whether it can be read.  Commands with one   *)
(* answer and no other effect are "other": TYPE, USER, PASS, PORT, PWD and *)
(* unknown ones.  A command arrives as a whole.  A file is a number of     *)
(* chunks of BUFFER_SIZE bytes.                                            *)
(***************************************************************************)
EXTENDS Integers, Sequences

CONSTANTS
    Clients,
    NoClient,
    Impatient,      \* clients that may leave a transfer or a passive socket unfinished
    Unreadable,     \* there are directories that can be entered and not read
    MaxFds,         \* descriptors the process may have beside 0, 1 and 2
    MaxPipeline,    \* bound: commands an impatient client sends before their answers
    MaxChunks       \* bound: chunks of a file that is sent

ASSUME FtpAssumption ==
    /\ NoClient \notin Clients
    /\ Impatient \subseteq Clients
    /\ Unreadable \in BOOLEAN
    /\ MaxFds \in Nat /\ MaxFds >= 5     \* what one transfer needs
    /\ MaxPipeline \in Nat \ {0}
    /\ MaxChunks \in Nat

VARIABLES
    queue,      \* clients whose connection waits in the listen queue
    current,    \* the client of client_socket, or NoClient
    gone,       \* clients of queue and current that have closed their end
    broken,     \* the server has sent to the closed end of current's connection
    inbox,      \* commands of current that have not been received
    owed,       \* commands of current whose last answer it has not got
    pc,         \* where the server is: "main", "recv", "accept", "transfer", "dead"
    command,    \* the transfer command being executed
    readable,   \* the working directory can be read
    passive,    \* data_socket: "none" (-1), "open", or "closed" (a number of the past)
    announced,  \* current has been told a port and not how a transfer on it ended
    leaked,     \* open listening sockets no variable refers to
    data,       \* the client's data connection to the current data_socket
    file,       \* the transferred file could be opened
    chunks      \* chunks of it still to send

clientVars == <<queue, gone>>
session    == <<current, broken, inbox, owed>>
transfer   == <<command, passive, announced, leaked, data, file, chunks>>
vars       == <<queue, current, gone, broken, inbox, owed, pc, readable, command, passive,
                announced, leaked, data, file, chunks>>

Transfers == {"STOR", "RETR", "LIST"}
Commands  == Transfers \cup {"PASV", "QUIT", "CWD", "other"}

If(b) == IF b THEN 1 ELSE 0

\* The descriptors in use: server_socket, client_socket, listening sockets,
\* the accepted data connection and the file or directory.
Descriptors ==
    1 + If(current # NoClient) + leaked + If(passive = "open")
      + If(pc = "transfer") + If(pc = "transfer" /\ file)

-----------------------------------------------------------------------------
(* Clients *)

Waiting == {queue[i] : i \in 1 .. Len(queue)}

Connect(c) ==
    /\ c \notin Waiting \cup {current}
    /\ queue' = Append(queue, c)
    /\ UNCHANGED <<gone, pc, readable, session, transfer>>

\* A client that is not impatient waits for the answer to a command before it
\* sends the next, and does not forget a port it has been told: it leaves it, or
\* asks for another, when it has the answer to a transfer.
SendCommand(c, cmd) ==
    /\ current = c /\ c \notin gone
    /\ owed < IF c \in Impatient THEN MaxPipeline ELSE 1
    /\ cmd \in {"PASV", "QUIT"} => c \in Impatient \/ ~announced
    /\ inbox' = Append(inbox, cmd)
    /\ owed' = owed + 1
    /\ UNCHANGED <<clientVars, current, broken, pc, readable, transfer>>

Leave(c) ==
    /\ c \in Waiting \cup {current}
    /\ c \notin gone
    /\ \/ c \in Impatient
       \/ current = c => owed = 0 /\ ~announced
    /\ gone' = gone \cup {c}
    /\ UNCHANGED <<queue, pc, readable, session, transfer>>

\* Connecting to the port announced by the last PASV or EPSV.
OpenData(c) ==
    /\ current = c /\ c \notin gone
    /\ passive = "open" /\ data = "none"
    /\ data' = "queued"
    /\ UNCHANGED <<clientVars, session, pc, readable, command, passive, announced, leaked,
                   file, chunks>>

\* Closing the data connection is the end of the file of STOR.
EndData(c) ==
    /\ current = c
    /\ data \in {"queued", "accepted"}
    /\ c \in Impatient \/ (pc = "transfer" /\ command = "STOR")
    /\ data' = "ended"
    /\ UNCHANGED <<clientVars, session, pc, readable, command, passive, announced, leaked,
                   file, chunks>>

\* Another process changes the permissions of the working directory.
Chmod ==
    /\ Unreadable
    /\ readable' = ~readable
    /\ UNCHANGED <<clientVars, session, pc, transfer>>

-----------------------------------------------------------------------------
(* The server *)

\* What a send on a connection does whose other end is closed: the first one
\* is answered by a reset, one that follows the reset raises SIGPIPE, which
\* the server does not handle.
Sent == broken' = (broken \/ current \in gone)

SigPipe == broken /\ pc' = "dead" /\ UNCHANGED <<broken, owed>>

\* The last answer to a command.
Reply(next) ==
    \/ Sent /\ owed' = owed - 1 /\ pc' = next
    \/ SigPipe

\* Leaving handle_ftp_commands forgets data_socket.
EndSession ==
    /\ pc' = "main"
    /\ current' = NoClient
    /\ gone' = gone \ {current}
    /\ broken' = FALSE
    /\ inbox' = <<>>
    /\ owed' = 0
    /\ passive' = "none"
    /\ announced' = FALSE
    /\ leaked' = leaked + If(passive = "open")
    /\ data' = "none"
    /\ UNCHANGED <<queue, readable, command, file, chunks>>

\* main: accept the next client, greet it and enter handle_ftp_commands.
\* Without a descriptor accept fails and main tries again, which changes
\* nothing.
AcceptClient ==
    /\ pc = "main" /\ queue # <<>>
    /\ Descriptors < MaxFds
    /\ current' = Head(queue)
    /\ queue' = Tail(queue)
    /\ broken' = (Head(queue) \in gone)
    /\ pc' = "recv"
    /\ UNCHANGED <<gone, inbox, owed, readable, transfer>>

\* Mutant: an empty command is skipped.
IgnoreLostConnection ==
    /\ pc = "recv" /\ inbox = <<>> /\ current \in gone
    /\ UNCHANGED vars

\* recv returns 0, or an error after a reset.
ConnectionLost ==
    /\ pc = "recv" /\ inbox = <<>> /\ current \in gone
    /\ EndSession

\* A new listening socket, or -1 without a descriptor.
open_passive_data_socket == IF Descriptors < MaxFds THEN "open" ELSE "none"

\* PASV and EPSV, answered 227 or 229, or 425.  An older data_socket stays open.
Passive ==
    /\ passive' = open_passive_data_socket
    /\ announced' = (passive' = "open")
    /\ leaked' = leaked + If(passive = "open")
    /\ data' = "none"
    /\ Reply("recv")
    /\ UNCHANGED <<queue, gone, current, readable, command, file, chunks>>

\* Mutant: without the continue the command is answered 500 as well.
AnswerTwice ==
    /\ Sent /\ owed' = owed - 2 /\ pc' = "recv"
    /\ UNCHANGED <<queue, gone, current, readable, transfer>>

\* A command that is answered and does nothing else here.
Answer == Reply("recv") /\ UNCHANGED <<queue, gone, current, readable, transfer>>

\* CWD, CDUP, MKD and RMD end in another directory, or in the same.
ChangeDirectory ==
    /\ readable' \in IF Unreadable THEN BOOLEAN ELSE {readable}
    /\ Reply("recv")
    /\ UNCHANGED <<queue, gone, current, transfer>>

Quit ==
    \/ SigPipe /\ UNCHANGED <<queue, gone, current, readable, transfer>>
    \/ EndSession

\* recv returns what has arrived, one command or several; the first is
\* executed and the others are lost.
Receive ==
    /\ pc = "recv" /\ inbox # <<>>
    /\ LET cmd  == Head(inbox)
           rest == {SubSeq(inbox, n + 1, Len(inbox)) : n \in 1 .. Len(inbox)}
       IN  \/ cmd = "QUIT" /\ inbox' \in rest /\ Quit
           \/ cmd = "PASV" /\ inbox' \in rest /\ Passive
           \/ cmd = "CWD" /\ inbox' \in rest /\ ChangeDirectory
           \/ cmd = "other" /\ inbox' \in rest /\ Answer
           \/ /\ cmd \in Transfers
              /\ inbox' \in rest
              /\ command' = cmd
              /\ pc' = "accept"
              /\ UNCHANGED <<clientVars, current, broken, owed, readable, passive, announced,
                             leaked, data, file, chunks>>

\* accept_passive_connection fails at once: data_socket is -1 or closed, or
\* there is no descriptor.
accept_fails == passive # "open" \/ Descriptors = MaxFds

\* Mutant: the server exits when it cannot accept the data connection.
DataRefusedFatally ==
    /\ pc = "accept"
    /\ accept_fails
    /\ pc' = "dead"
    /\ UNCHANGED <<clientVars, session, readable, transfer>>

\* Mutant: no answer when there is no data connection.
DataRefusedSilently ==
    /\ pc = "accept"
    /\ accept_fails
    /\ pc' = "recv"
    /\ UNCHANGED <<clientVars, session, readable, transfer>>

\* Without a data connection the answer is 425; data_socket stays as it is, open
\* if accept had no descriptor.
DataRefused ==
    /\ pc = "accept"
    /\ accept_fails
    /\ announced' = FALSE
    /\ Reply("recv")
    /\ UNCHANGED <<clientVars, current, inbox, readable, command, passive, leaked, data, file,
                   chunks>>

\* opendir of get_listing succeeds if the working directory can be read and
\* there is a descriptor for it.
get_listing == readable /\ Descriptors + 1 < MaxFds

\* The data connection is accepted, 150 is sent and the file opened, which may
\* fail.  If get_listing fails, its error message, a constant, is freed.
DataAccepted ==
    /\ pc = "accept" /\ ~accept_fails
    /\ data \in {"queued", "ended"}
    /\ data' = IF data = "queued" THEN "accepted" ELSE "ended"
    /\ file' \in IF command = "LIST" THEN {get_listing}
                 ELSE {FALSE, Descriptors + 1 < MaxFds}
    /\ chunks' \in CASE command = "LIST" -> {1}
                     [] command = "RETR" /\ file' -> 0 .. MaxChunks
                     [] OTHER -> {0}
    /\ \/ /\ Sent
          /\ pc' = IF command = "LIST" /\ ~file' THEN "dead" ELSE "transfer"
          /\ UNCHANGED owed
       \/ SigPipe
    /\ UNCHANGED <<clientVars, current, inbox, readable, command, passive, announced, leaked>>

\* The loop of send_file, and the listing: one chunk on the data connection.
send_file ==
    /\ pc = "transfer" /\ chunks > 0
    /\ \/ /\ chunks' = chunks - 1
          /\ data' = IF data = "accepted" THEN "accepted" ELSE "reset"
          /\ UNCHANGED pc
       \/ /\ data = "reset"
          /\ pc' = "dead"
          /\ UNCHANGED <<chunks, data>>
    /\ UNCHANGED <<clientVars, session, readable, command, passive, announced, leaked, file>>

\* receive_file returns at the end of the data, or if fopen fails.
receive_file == file => data = "ended"

\* Mutant: data_socket is not closed.
TransferDoneKeepsSocket ==
    /\ pc = "transfer" /\ chunks = 0
    /\ command = "STOR" => receive_file
    /\ Reply("recv")
    /\ passive' = "closed"
    /\ leaked' = leaked + 1
    /\ announced' = FALSE
    /\ data' = "none"
    /\ file' = FALSE
    /\ UNCHANGED <<clientVars, current, inbox, readable, command, chunks>>

\* Mutant: the loop of receive_file goes on when recv returns 0.
TransferDoneUnlessReceiving ==
    /\ pc = "transfer" /\ chunks = 0
    /\ \/ /\ ~(command = "STOR" /\ file)
          /\ Reply("recv")
          /\ passive' = "closed"
          /\ announced' = FALSE
          /\ data' = "none"
          /\ file' = FALSE
          /\ UNCHANGED <<clientVars, current, inbox, readable, command, leaked, chunks>>
       \/ command = "STOR" /\ file /\ UNCHANGED vars

\* Everything has been sent or received: 226, also if the file could not be
\* opened, and both sockets are closed.
TransferDone ==
    /\ pc = "transfer" /\ chunks = 0
    /\ command = "STOR" => receive_file
    /\ Reply("recv")
    /\ passive' = "closed"
    /\ announced' = FALSE
    /\ data' = "none"
    /\ file' = FALSE
    /\ UNCHANGED <<clientVars, current, inbox, readable, command, leaked, chunks>>

Server ==
    \/ AcceptClient
    \/ ConnectionLost
    \/ Receive
    \/ DataRefused
    \/ DataAccepted
    \/ send_file
    \/ TransferDone

Client(c) ==
    \/ Connect(c)
    \/ \E cmd \in Commands : SendCommand(c, cmd)
    \/ Leave(c)
    \/ OpenData(c)
    \/ EndData(c)

Init ==
    /\ queue = <<>> /\ current = NoClient /\ gone = {} /\ broken = FALSE
    /\ inbox = <<>> /\ owed = 0
    /\ pc = "main" /\ command = "LIST" /\ passive = "none" /\ leaked = 0
    /\ readable = TRUE /\ announced = FALSE
    /\ data = "none" /\ file = FALSE /\ chunks = 0

Next ==
    /\ pc # "dead"
    /\ Server \/ Chmod \/ \E c \in Clients : Client(c)

Spec == Init /\ [][Next]_vars

\* The server runs.  A client connects to the port it has asked for, uses it,
\* ends the file it stores, and leaves some time.
Fairness ==
    /\ WF_vars(pc # "dead" /\ Server)
    /\ \A c \in Clients :
          /\ WF_vars(pc # "dead" /\ OpenData(c))
          /\ WF_vars(pc # "dead" /\ EndData(c))
          /\ SF_vars(pc # "dead" /\ \E cmd \in Transfers : SendCommand(c, cmd))
          /\ SF_vars(pc # "dead" /\ Leave(c))

FairSpec == Spec /\ Fairness

-----------------------------------------------------------------------------
(* Properties *)

\* The state has its type: in particular a command is not answered twice.
TypeOK ==
    /\ queue \in Seq(Clients)
    /\ current \in Clients \cup {NoClient}
    /\ gone \subseteq Waiting \cup {current}
    /\ broken \in BOOLEAN
    /\ inbox \in Seq(Commands) /\ Len(inbox) <= owed
    /\ owed \in 0 .. MaxPipeline
    /\ pc \in {"main", "recv", "accept", "transfer", "dead"}
    /\ command \in Transfers
    /\ readable \in BOOLEAN
    /\ passive \in {"none", "open", "closed"}
    /\ announced \in BOOLEAN
    /\ leaked \in 0 .. MaxFds
    /\ data \in {"none", "queued", "accepted", "ended", "reset"}
    /\ file \in BOOLEAN
    /\ chunks \in 0 .. MaxChunks + 1

\* What the server dies of: it serves an impatient client that has left or has
\* closed the data connection of a transfer; or any client asks for a listing,
\* when the working directory cannot be read or the sockets that were forgotten
\* have used up the descriptors, and the text that says so is freed.  It does
\* not die between sessions, nor of a refused or an unreadable file.
DeathHasCause ==
    pc = "dead" =>
        \/ current \in Impatient /\ (current \in gone \/ data = "reset")
        \/ /\ current # NoClient
           /\ command = "LIST" /\ ~file
           /\ ~readable \/ (leaked > 0 /\ Descriptors = MaxFds - 1)

\* A listening socket is lost only by an impatient client that does not use it,
\* or when a client has been told 425 because accept had no descriptor and goes
\* on or leaves: every transfer that begins closes data_socket.
LeaksHaveCause ==
    [][leaked' # leaked =>
          /\ passive = "open"
          /\ current \in Impatient \/ (pc = "recv" /\ Descriptors = MaxFds)]_vars

\* When the server waits for the next command of a client that sends one at a
\* time, every command before it has been answered, however it ended.
AnsweredBeforeNext ==
    pc = "recv" /\ inbox = <<>> /\ current \notin Impatient => owed = 0

\* A client in the listen queue is served, if clients finish what they begin:
\* no session before it lasts for ever, and the server does not die.
EveryClientServed == \A c \in Clients : c \in Waiting ~> current = c

\* Every command is answered, if clients finish what they begin.
CommandsAnswered == owed > 0 ~> owed = 0
=============================================================================
