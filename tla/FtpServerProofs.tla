--------------------------- MODULE FtpServerProofs ---------------------------
(***************************************************************************)
(* FtpInv is an inductive invariant of FtpServer, for any number of        *)
(* clients and descriptors and files of any length.  Type correctness,     *)
(* what the server dies of, the answers a patient client gets and what     *)
(* loses listening sockets follow from it.                                 *)
(***************************************************************************)
EXTENDS FtpServer, TLAPS

\* What holds of the session of a client that finishes what it begins: one
\* command at a time, no port that it has been told and forgets, and no data
\* connection closed before its end.
PatientSession ==
    /\ pc = "recv" => owed = Len(inbox) /\ owed <= 1
    /\ pc \in {"accept", "transfer"} => owed = 1 /\ inbox = <<>>
    /\ current \in gone => pc = "recv" /\ inbox = <<>> /\ ~announced
    /\ inbox # <<>> /\ Head(inbox) \in {"PASV", "QUIT"} => ~announced
    /\ data # "reset"
    /\ data = "ended" => pc = "transfer" /\ command = "STOR"

\* Between sessions nothing is left of the last one but leaked sockets.
NoSession ==
    /\ inbox = <<>> /\ owed = 0
    /\ ~broken
    /\ passive = "none" /\ ~announced
    /\ data = "none"

\* A port that is told is data_socket's; when data_socket is open and a transfer
\* on it has been answered, accept has found all descriptors in use.
Listening ==
    /\ announced => passive = "open"
    /\ passive = "open" /\ ~announced => 3 + leaked = MaxFds

FtpInv ==
    /\ TypeOK
    /\ Descriptors <= MaxFds
    /\ pc # "dead" => Listening
    /\ gone \subseteq Clients
    /\ pc = "main" <=> current = NoClient
    /\ pc = "main" => NoSession /\ Descriptors < MaxFds
    /\ pc \in {"accept", "transfer"} => Len(inbox) < owed
    /\ pc = "transfer" => passive = "open"
    /\ pc = "transfer" /\ chunks > 0 => command # "STOR"
    /\ pc = "transfer" /\ data # "accepted" => data \in {"ended", "reset"}
    /\ broken => current \in gone
    /\ pc # "dead" /\ current \in Clients \ Impatient => PatientSession
    /\ DeathHasCause

-----------------------------------------------------------------------------
(* Sequences *)

\* A command behind those that wait.
LEMMA AppendInbox ==
  ASSUME NEW s \in Seq(Commands), NEW cmd \in Commands
  PROVE  /\ Append(s, cmd) \in Seq(Commands)
         /\ Len(Append(s, cmd)) = Len(s) + 1
         /\ Append(s, cmd) # <<>>
         /\ Head(Append(s, cmd)) = IF s = <<>> THEN cmd ELSE Head(s)
<1>1. Append(s, cmd) \in Seq(Commands) /\ Len(Append(s, cmd)) = Len(s) + 1 /\ Len(s) \in Nat
  OBVIOUS
<1>2. Append(s, cmd) # <<>> /\ Head(Append(s, cmd)) = Append(s, cmd)[1]
  BY <1>1
<1>3. CASE s = <<>>
  BY <1>1, <1>2, <1>3
<1>4. CASE s # <<>>
  <2>1. 1 \in 1 .. Len(s) /\ Head(s) = s[1]
    BY <1>4
  <2>2. Append(s, cmd)[1] = s[1]
    BY <2>1
  <2> QED
    BY <1>1, <1>2, <1>4, <2>1, <2>2
<1> QED
  BY <1>3, <1>4

\* What is left when recv has returned n commands.
LEMMA RestOfInbox ==
  ASSUME NEW s \in Seq(Commands), NEW n \in 1 .. Len(s)
  PROVE  /\ SubSeq(s, n + 1, Len(s)) \in Seq(Commands)
         /\ Len(SubSeq(s, n + 1, Len(s))) = Len(s) - n
  OBVIOUS

\* A sequence is empty if its length is 0.
LEMMA EmptyInbox ==
  ASSUME NEW s \in Seq(Commands)
  PROVE  /\ s = <<>> <=> Len(s) = 0
         /\ Len(s) \in Nat
         /\ s # <<>> => Head(s) \in Commands
  OBVIOUS

\* The clients of a queue.
Range(q) == {q[i] : i \in 1 .. Len(q)}

\* A client that connects joins the end of the queue.
LEMMA QueueAppend ==
  ASSUME NEW q \in Seq(Clients), NEW c \in Clients
  PROVE  Append(q, c) \in Seq(Clients) /\ Range(Append(q, c)) = Range(q) \cup {c}
<1>1. Append(q, c) \in Seq(Clients) /\ Len(Append(q, c)) = Len(q) + 1
  OBVIOUS
<1>2. \A i \in 1 .. Len(q) : Append(q, c)[i] = q[i]
  OBVIOUS
<1>3. Append(q, c)[Len(q) + 1] = c
  OBVIOUS
<1>4. 1 .. Len(q) + 1 = (1 .. Len(q)) \cup {Len(q) + 1}
  OBVIOUS
<1> QED
  BY <1>1, <1>2, <1>3, <1>4 DEF Range

\* The client that is accepted leaves its head.
LEMMA QueueTail ==
  ASSUME NEW q \in Seq(Clients), q # <<>>
  PROVE  /\ Tail(q) \in Seq(Clients) /\ Head(q) \in Clients
         /\ Range(q) = Range(Tail(q)) \cup {Head(q)}
<1>1. /\ Tail(q) \in Seq(Clients) /\ Head(q) \in Clients
      /\ Len(Tail(q)) = Len(q) - 1 /\ Len(q) \in Nat \ {0} /\ Head(q) = q[1]
  OBVIOUS
<1>2. \A i \in 1 .. Len(q) - 1 : Tail(q)[i] = q[i + 1]
  OBVIOUS
<1>3. \A x : x \in Range(q) => x \in Range(Tail(q)) \cup {Head(q)}
  <2> SUFFICES ASSUME NEW i \in 1 .. Len(q), q[i] # Head(q)
               PROVE  q[i] \in Range(Tail(q))
    BY DEF Range
  <2>1. i - 1 \in 1 .. Len(q) - 1 /\ q[i] = Tail(q)[i - 1]
    BY <1>1, <1>2
  <2> QED
    BY <1>1, <2>1 DEF Range
<1>4. \A x : x \in Range(Tail(q)) \cup {Head(q)} => x \in Range(q)
  BY <1>1, <1>2 DEF Range
<1> QED
  BY <1>1, <1>3, <1>4

-----------------------------------------------------------------------------
(* The invariant *)

\* main listens and nobody is there.
LEMMA InitInv == Init => FtpInv
<1> SUFFICES ASSUME Init PROVE FtpInv
  OBVIOUS
<1>1. Descriptors < MaxFds /\ Descriptors <= MaxFds
  BY FtpAssumption DEF Init, Descriptors, If
<1>2. queue \in Seq(Clients) /\ inbox \in Seq(Commands) /\ Len(inbox) = 0
  BY DEF Init
<1>3. broken \in BOOLEAN /\ file \in BOOLEAN
  BY Zenon DEF Init
<1>4. /\ Len(inbox) <= owed /\ owed \in 0 .. MaxPipeline /\ leaked \in 0 .. MaxFds
      /\ chunks \in 0 .. MaxChunks + 1
  BY <1>2, FtpAssumption DEF Init
<1>5. TypeOK
  BY <1>1, <1>2, <1>3, <1>4 DEF Init, TypeOK, Transfers
<1> QED
  BY <1>1, <1>5, FtpAssumption DEF Init, FtpInv, NoSession, DeathHasCause, Listening

\* Clients' steps: connecting.
LEMMA ConnectInv ==
  ASSUME NEW c \in Clients, FtpInv, pc # "dead", Connect(c)
  PROVE  FtpInv'
<1>1. queue' \in Seq(Clients) /\ Waiting' = Waiting \cup {c}
  BY QueueAppend DEF Connect, Waiting, Range, FtpInv, TypeOK
<1>2. TypeOK'
  BY <1>1 DEF Connect, FtpInv, TypeOK, session, transfer, Descriptors
<1> QED
  BY <1>2 DEF Connect, FtpInv, NoSession, PatientSession, DeathHasCause, session, transfer,
              Descriptors, Listening

\* A command is sent.
LEMMA SendInv ==
  ASSUME NEW c \in Clients, NEW cmd \in Commands, FtpInv, pc # "dead", SendCommand(c, cmd)
  PROVE  FtpInv'
<1>1. /\ inbox' \in Seq(Commands) /\ Len(inbox') = Len(inbox) + 1 /\ inbox' # <<>>
      /\ Head(inbox') = IF inbox = <<>> THEN cmd ELSE Head(inbox)
  BY AppendInbox DEF SendCommand, FtpInv, TypeOK
<1>2. Len(inbox) \in Nat /\ (inbox = <<>> <=> Len(inbox) = 0)
  BY EmptyInbox DEF FtpInv, TypeOK
<1>3. owed' \in 0 .. MaxPipeline /\ Len(inbox') <= owed'
  BY <1>1, <1>2, FtpAssumption DEF SendCommand, FtpInv, TypeOK
<1>4. TypeOK'
  BY <1>1, <1>3 DEF SendCommand, FtpInv, TypeOK, clientVars, transfer, Descriptors, Waiting
<1>5. c \notin Impatient => PatientSession'
  BY <1>1, <1>2, FtpAssumption
     DEF SendCommand, FtpInv, TypeOK, PatientSession, clientVars, transfer
<1> QED
  BY <1>1, <1>2, <1>4, <1>5, FtpAssumption
     DEF SendCommand, FtpInv, TypeOK, NoSession, DeathHasCause, clientVars, transfer, Descriptors,
         Listening

\* A client closes its connection.
LEMMA LeaveInv ==
  ASSUME NEW c \in Clients, FtpInv, pc # "dead", Leave(c)
  PROVE  FtpInv'
<1>1. TypeOK'
  BY DEF Leave, FtpInv, TypeOK, session, transfer, Descriptors, Waiting
<1>2. Len(inbox) \in Nat /\ (inbox = <<>> <=> Len(inbox) = 0)
  BY EmptyInbox DEF FtpInv, TypeOK
<1>3. current \in Clients \ Impatient => PatientSession'
  BY <1>2, FtpAssumption DEF Leave, FtpInv, TypeOK, PatientSession, session, transfer
<1> QED
  BY <1>1, <1>3 DEF Leave, FtpInv, NoSession, DeathHasCause, session, transfer, Descriptors,
                     Listening

\* The data connection is opened.
LEMMA OpenDataInv ==
  ASSUME NEW c \in Clients, FtpInv, pc # "dead", OpenData(c)
  PROVE  FtpInv'
<1>1. TypeOK'
  BY DEF OpenData, FtpInv, TypeOK, clientVars, session, Descriptors, Waiting
<1>2. current \in Clients \ Impatient => PatientSession'
  BY DEF OpenData, FtpInv, PatientSession, clientVars, session
<1> QED
  BY <1>1, <1>2 DEF OpenData, FtpInv, TypeOK, NoSession, DeathHasCause, clientVars, session,
                     Descriptors, Listening

\* The data connection is closed by the client.
LEMMA EndDataInv ==
  ASSUME NEW c \in Clients, FtpInv, pc # "dead", EndData(c)
  PROVE  FtpInv'
<1>1. TypeOK'
  BY DEF EndData, FtpInv, TypeOK, clientVars, session, Descriptors, Waiting
<1>2. current \in Clients \ Impatient => PatientSession'
  BY DEF EndData, FtpInv, PatientSession, clientVars, session
<1> QED
  BY <1>1, <1>2 DEF EndData, FtpInv, NoSession, DeathHasCause, clientVars, session, Descriptors,
                     Listening

\* The permissions of the working directory change.
LEMMA ChmodInv ==
  ASSUME FtpInv, pc # "dead", Chmod
  PROVE  FtpInv'
<1>1. readable' \in BOOLEAN
  <2>1. (~readable) \in BOOLEAN
    OBVIOUS
  <2> QED
    BY <2>1, Zenon DEF Chmod
<1>2. UNCHANGED <<queue, current, gone, broken, inbox, owed, pc, command, passive, announced,
                  leaked, data, file, chunks>>
  BY DEF Chmod, clientVars, session, transfer
<1>3. TypeOK'
  BY <1>1, <1>2 DEF FtpInv, TypeOK, Waiting
<1> QED
  BY <1>2, <1>3 DEF FtpInv, NoSession, PatientSession, DeathHasCause, Descriptors, Listening

-----------------------------------------------------------------------------
(* The server's steps *)

\* The sum of what is open, and what Descriptors means in the next state.
LEMMA DescriptorsType ==
  ASSUME FtpInv
  PROVE  Descriptors \in Nat /\ leaked \in Nat
  BY DEF FtpInv, TypeOK, Descriptors, If

\* SIGPIPE: only the connection of an impatient client is broken when the server
\* sends.
LEMMA BrokenImpatient ==
  ASSUME FtpInv, pc # "dead", broken, pc # "recv" \/ inbox # <<>>
  PROVE  current \in Impatient /\ current \in gone
  BY DEF FtpInv, TypeOK, NoSession, PatientSession

\* The server dies, with its state as it was.
LEMMA DieInv ==
  ASSUME FtpInv, pc # "dead",
         pc' = "dead", current' = current, gone' = gone, leaked' = leaked, queue' = queue,
         broken' \in BOOLEAN, broken' => current \in gone, owed' = owed,
         inbox' \in Seq(Commands), Len(inbox') <= owed,
         readable' \in BOOLEAN, announced' \in BOOLEAN,
         command' \in Transfers, passive' \in {"none", "open", "closed"},
         passive' = "open" => passive = "open",
         data' \in {"none", "queued", "accepted", "ended", "reset"},
         file' \in BOOLEAN, chunks' \in 0 .. MaxChunks + 1,
         pc # "main", DeathHasCause'
  PROVE  FtpInv'
<1>1. Descriptors' \in Nat /\ Descriptors' <= MaxFds
  BY FtpAssumption DEF FtpInv, TypeOK, Descriptors, If
<1>2. TypeOK'
  BY <1>1 DEF FtpInv, TypeOK, Waiting
<1> QED
  BY <1>1, <1>2 DEF FtpInv

\* main accepts the next client.
LEMMA AcceptClientInv ==
  ASSUME FtpInv, pc # "dead", AcceptClient
  PROVE  FtpInv'
<1>1. /\ queue' \in Seq(Clients) /\ current' \in Clients /\ current' = Head(queue)
      /\ Waiting = Waiting' \cup {current'}
  BY QueueTail DEF AcceptClient, Waiting, Range, FtpInv, TypeOK
<1>2. /\ pc = "main" /\ pc' = "recv" /\ current = NoClient /\ NoSession
      /\ UNCHANGED <<gone, inbox, owed, readable, command, passive, announced, leaked, data, file, chunks>>
      /\ broken' = (current' \in gone)
  BY DEF AcceptClient, FtpInv, transfer
<1>3. gone' \subseteq Waiting' \cup {current'}
  BY <1>1, <1>2, FtpAssumption DEF FtpInv, TypeOK
<1>4. Descriptors' <= MaxFds
  BY <1>1, <1>2, FtpAssumption DEF AcceptClient, Descriptors, If, FtpInv, TypeOK
<1>5. broken' \in BOOLEAN
  <2>1. (current' \in gone) \in BOOLEAN
    OBVIOUS
  <2> QED
    BY <1>2, <2>1, Zenon
<1>6. TypeOK'
  BY <1>1, <1>2, <1>3, <1>4, <1>5 DEF FtpInv, TypeOK
<1>7. current' \notin Impatient => PatientSession'
  BY <1>2 DEF PatientSession, NoSession
<1> QED
  BY <1>1, <1>2, <1>6, <1>7, <1>4, FtpAssumption DEF FtpInv, DeathHasCause, NoSession, Listening

\* A session ends: what it had open is leaked, the rest is forgotten.
LEMMA EndSessionInv ==
  ASSUME FtpInv, pc \in {"recv"}, EndSession
  PROVE  FtpInv'
<1>1. current # NoClient /\ current \in Clients
  BY DEF FtpInv, TypeOK
<1>2. Descriptors' < MaxFds /\ leaked' \in 0 .. MaxFds
  BY <1>1, FtpAssumption DEF EndSession, FtpInv, TypeOK, Descriptors, If
<1>3. inbox' \in Seq(Commands) /\ Len(inbox') = 0
  BY DEF EndSession
<1>4. broken' \in BOOLEAN /\ announced' \in BOOLEAN
  BY Zenon DEF EndSession
<1>5. gone' \subseteq Waiting' \cup {current'}
  BY DEF EndSession, Waiting, FtpInv, TypeOK
<1>6. Descriptors' <= MaxFds
  BY <1>2, FtpAssumption DEF Descriptors, If, EndSession, FtpInv, TypeOK
<1>7. TypeOK'
  BY <1>2, <1>3, <1>4, <1>5, <1>6, FtpAssumption DEF EndSession, FtpInv, TypeOK
<1> QED
  BY <1>2, <1>6, <1>7, FtpAssumption DEF EndSession, FtpInv, NoSession, DeathHasCause, Listening

\* The client's connection is closed.
LEMMA ConnectionLostInv ==
  ASSUME FtpInv, pc # "dead", ConnectionLost
  PROVE  FtpInv'
  BY EndSessionInv DEF ConnectionLost

\* Sending marks the connection of a client that has gone.
LEMMA SentBroken ==
  ASSUME FtpInv, Sent
  PROVE  broken' \in BOOLEAN /\ (broken' => current \in gone)
<1>1. broken \in BOOLEAN /\ (broken => current \in gone)
  BY DEF FtpInv, TypeOK
<1>2. (broken \/ current \in gone) \in BOOLEAN
  OBVIOUS
<1>3. broken' \in BOOLEAN
  BY <1>2, Zenon DEF Sent
<1> QED
  BY <1>1, <1>3 DEF Sent

\* A command has been executed and its last answer sent: the server waits for the
\* next one.
LEMMA AnsweredInv ==
  ASSUME FtpInv, pc \in {"recv", "accept", "transfer"}, Sent,
         pc' = "recv", owed' = owed - 1, UNCHANGED <<queue, current, gone>>,
         pc = "recv" => inbox # <<>>,
         inbox' \in Seq(Commands), Len(inbox') < owed,
         inbox' = inbox \/ Len(inbox') < Len(inbox),
         readable' \in BOOLEAN, announced' \in BOOLEAN,
         command' \in Transfers, passive' \in {"none", "open", "closed"},
         leaked' \in Nat, leaked' <= leaked + 1, file' \in BOOLEAN, chunks' \in 0 .. MaxChunks + 1,
         data' \in {"none", "queued", "accepted", "ended", "reset"},
         data' \in {data, "none"}, pc = "transfer" => data' = "none",
         Descriptors' <= MaxFds, Listening'
  PROVE  FtpInv'
<1>1. broken' \in BOOLEAN /\ (broken' => current \in gone)
  BY SentBroken
<1>2. Len(inbox) \in Nat /\ (inbox = <<>> <=> Len(inbox) = 0)
  BY EmptyInbox DEF FtpInv, TypeOK
<1>3. Len(inbox') \in Nat /\ (inbox' = <<>> <=> Len(inbox') = 0)
  BY EmptyInbox
<1>4. leaked' \in 0 .. MaxFds
  BY FtpAssumption DEF FtpInv, TypeOK, Descriptors, If
<1>5. owed' \in 0 .. MaxPipeline /\ Len(inbox') <= owed'
  <2>1. owed \in 0 .. MaxPipeline /\ MaxPipeline \in Nat
    BY FtpAssumption DEF FtpInv, TypeOK
  <2> QED
    BY <1>3, <2>1
<1>6. TypeOK'
  BY <1>1, <1>4, <1>5 DEF FtpInv, TypeOK, Waiting
<1>7. current \in Clients \ Impatient => PatientSession'
  BY <1>2, <1>3 DEF FtpInv, TypeOK, PatientSession
<1> QED
  BY <1>1, <1>6, <1>7 DEF FtpInv, TypeOK, DeathHasCause

\* PASV and EPSV.
LEMMA PassiveInv ==
  ASSUME FtpInv, pc = "recv", inbox # <<>>, Passive,
         inbox' \in Seq(Commands), Len(inbox') < Len(inbox)
  PROVE  FtpInv'
<1>1. /\ UNCHANGED <<queue, gone, current, readable, command, file, chunks>>
      /\ passive' \in {"none", "open"} /\ data' = "none"
      /\ announced' = (passive' = "open") /\ announced' \in BOOLEAN
      /\ leaked' = leaked + If(passive = "open")
  <2>1. (passive' = "open") \in BOOLEAN
    OBVIOUS
  <2>2. announced' \in BOOLEAN
    BY <2>1, Zenon DEF Passive
  <2> QED
    BY <2>2 DEF Passive, open_passive_data_socket
<1>2. Len(inbox) \in Nat /\ Len(inbox') \in Nat /\ Len(inbox) <= owed /\ owed \in Nat
  BY EmptyInbox DEF FtpInv, TypeOK
<1>3. leaked' \in Nat /\ leaked' <= leaked + 1
  BY <1>1 DEF FtpInv, TypeOK, If
<1>4. Listening'
  <2>1. passive' = "open" <=> announced'
    BY <1>1
  <2> QED
    BY <2>1 DEF Listening
<1>5. CASE Sent /\ owed' = owed - 1 /\ pc' = "recv"
  <2>1. Descriptors' <= MaxFds
    BY <1>1, <1>5, FtpAssumption
       DEF Passive, open_passive_data_socket, Descriptors, If, FtpInv, TypeOK
  <2> QED
    BY <1>1, <1>2, <1>3, <1>5, <1>4, <2>1, AnsweredInv DEF FtpInv, TypeOK
<1>6. CASE SigPipe
  <2>1. current \in Impatient /\ current \in gone
    BY <1>6, BrokenImpatient DEF SigPipe
  <2>2. pc' = "dead" /\ broken' = broken /\ owed' = owed
    BY <1>6 DEF SigPipe
  <2>3. Descriptors' <= MaxFds
    BY <1>1, <2>2, FtpAssumption
       DEF Passive, open_passive_data_socket, Descriptors, If, FtpInv, TypeOK
  <2>4. leaked' \in 0 .. MaxFds
    BY <1>1, <1>3, <2>2, <2>3, FtpAssumption DEF FtpInv, TypeOK, Descriptors, If
  <2>5. TypeOK'
    BY <1>1, <1>2, <2>2, <2>3, <2>4 DEF FtpInv, TypeOK, Waiting
  <2>6. DeathHasCause'
    BY <1>1, <2>1 DEF DeathHasCause
  <2> QED
    BY <1>1, <2>1, <2>2, <2>3, <2>5, <2>6, FtpAssumption DEF FtpInv
<1> QED
  BY <1>5, <1>6 DEF Passive, Reply

\* SIGPIPE when an answer is sent, and nothing else has changed.
LEMMA SigPipeInv ==
  ASSUME FtpInv, pc \in {"recv", "accept", "transfer"}, SigPipe,
         pc = "recv" => inbox # <<>>,
         UNCHANGED <<queue, gone, current, leaked>>,
         inbox' \in Seq(Commands), Len(inbox') <= owed,
         readable' \in BOOLEAN, announced' \in BOOLEAN,
         command' \in Transfers, passive' \in {"none", "open", "closed"},
         passive' = "open" => passive = "open",
         data' \in {"none", "queued", "accepted", "ended", "reset"},
         file' \in BOOLEAN, chunks' \in 0 .. MaxChunks + 1
  PROVE  FtpInv'
<1>1. current \in Impatient /\ current \in gone
  BY BrokenImpatient DEF SigPipe
<1>2. DeathHasCause'
  BY <1>1 DEF DeathHasCause
<1>3. broken' = broken /\ broken \in BOOLEAN /\ owed' = owed /\ pc' = "dead"
  BY DEF SigPipe, FtpInv, TypeOK
<1> QED
  BY <1>1, <1>2, <1>3, DieInv

\* A command is received.
LEMMA ReceiveInv ==
  ASSUME FtpInv, pc # "dead", Receive
  PROVE  FtpInv'
<1>1. pc = "recv" /\ inbox # <<>> /\ inbox \in Seq(Commands)
  BY DEF Receive, FtpInv, TypeOK
<1>2. PICK n \in 1 .. Len(inbox) : inbox' = SubSeq(inbox, n + 1, Len(inbox))
  BY DEF Receive
<1>3. inbox' \in Seq(Commands) /\ Len(inbox') = Len(inbox) - n
  BY <1>1, <1>2, RestOfInbox
<1>4. Len(inbox) \in Nat /\ Len(inbox) <= owed /\ owed \in Nat /\ Len(inbox') < Len(inbox)
  BY <1>1, <1>3, EmptyInbox DEF FtpInv, TypeOK
<1>5. CASE Head(inbox) = "QUIT" /\ Quit
  <2>1. CASE SigPipe /\ UNCHANGED <<queue, gone, current, readable, transfer>>
    BY <1>1, <1>3, <1>4, <2>1, SigPipeInv DEF transfer, FtpInv, TypeOK
  <2> QED
    BY <1>1, <1>5, <2>1, EndSessionInv DEF Quit
<1>6. CASE Head(inbox) = "PASV" /\ Passive
  BY <1>1, <1>3, <1>4, <1>6, PassiveInv
<1>7. CASE Answer \/ ChangeDirectory
  <2>1. /\ UNCHANGED <<queue, gone, current, command, passive, announced, leaked, data, file, chunks>>
        /\ Reply("recv")
    BY <1>7 DEF Answer, ChangeDirectory, transfer
  <2>2. readable' \in BOOLEAN
    BY <1>7, Zenon DEF Answer, ChangeDirectory, FtpInv, TypeOK
  <2>3. CASE Sent /\ owed' = owed - 1 /\ pc' = "recv"
    <3>1. Descriptors' <= MaxFds
      BY <1>1, <2>1, <2>3 DEF Descriptors, FtpInv, TypeOK
    <3>2. Listening'
      BY <1>1, <2>1 DEF Listening, FtpInv
    <3> QED
      BY <1>1, <1>3, <1>4, <2>1, <2>2, <2>3, <3>1, <3>2, AnsweredInv DEF FtpInv, TypeOK
  <2>4. CASE SigPipe
    BY <1>1, <1>3, <1>4, <2>1, <2>2, <2>4, SigPipeInv DEF FtpInv, TypeOK
  <2> QED
    BY <2>1, <2>3, <2>4 DEF Reply
<1>8. CASE /\ command' \in Transfers /\ pc' = "accept"
           /\ UNCHANGED <<clientVars, current, broken, owed, readable, passive, announced,
                          leaked, data, file, chunks>>
  <2>1. UNCHANGED <<queue, gone, current, broken, owed, readable, passive, announced,
                    leaked, data, file, chunks>>
    BY <1>8 DEF clientVars
  <2>2. TypeOK'
    BY <1>1, <1>3, <1>4, <1>8, <2>1 DEF FtpInv, TypeOK, Descriptors, Waiting
  <2>3. Len(inbox') \in Nat /\ (inbox' = <<>> <=> Len(inbox') = 0)
    BY <1>3, EmptyInbox
  <2>4. current \in Clients \ Impatient => PatientSession'
    BY <1>1, <1>4, <1>8, <2>1, <2>3 DEF FtpInv, TypeOK, PatientSession
  <2> QED
    BY <1>1, <1>4, <1>8, <2>1, <2>2, <2>3, <2>4 DEF FtpInv, DeathHasCause, Descriptors, Listening
<1> QED
  BY <1>5, <1>6, <1>7, <1>8 DEF Receive

\* The data connection cannot be accepted.
LEMMA DataRefusedInv ==
  ASSUME FtpInv, pc # "dead", DataRefused
  PROVE  FtpInv'
<1>1. /\ pc = "accept" /\ Len(inbox) < owed /\ Len(inbox) \in Nat /\ owed \in Nat
      /\ UNCHANGED <<queue, gone, current, inbox, readable, command, passive, leaked, data, file, chunks>>
      /\ announced' = FALSE /\ (passive = "open" => Descriptors = MaxFds)
  BY EmptyInbox DEF DataRefused, accept_fails, FtpInv, TypeOK, clientVars
<1>2. announced' \in BOOLEAN
  BY <1>1, Zenon
<1>3. Listening'
  BY <1>1, FtpAssumption DEF Listening, Descriptors, If, FtpInv, TypeOK
<1>4. CASE Sent /\ owed' = owed - 1 /\ pc' = "recv"
  <2>1. Descriptors' <= MaxFds
    BY <1>1, <1>4 DEF Descriptors, FtpInv, TypeOK
  <2> QED
    BY <1>1, <1>4, <1>2, <1>3, <2>1, AnsweredInv DEF FtpInv, TypeOK
<1>5. CASE SigPipe
  BY <1>1, <1>5, <1>2, SigPipeInv DEF FtpInv, TypeOK
<1> QED
  BY <1>4, <1>5 DEF DataRefused, Reply

\* The data connection is accepted.  The listing that kills the server cannot
\* read the directory, or finds a leaked socket in the descriptor it needed.
LEMMA DataAcceptedInv ==
  ASSUME FtpInv, pc # "dead", DataAccepted
  PROVE  FtpInv'
<1>1. /\ pc = "accept" /\ Len(inbox) < owed /\ Len(inbox) \in Nat /\ owed \in Nat
      /\ passive = "open" /\ Descriptors # MaxFds
      /\ data \in {"queued", "ended"}
      /\ UNCHANGED <<queue, gone, current, inbox, readable, command, passive, announced, leaked>>
  BY EmptyInbox DEF DataAccepted, accept_fails, FtpInv, TypeOK, clientVars
<1>2. data' = IF data = "queued" THEN "accepted" ELSE "ended"
  BY DEF DataAccepted
<1>3. /\ Descriptors = 3 + leaked /\ leaked \in 0 .. MaxFds /\ 3 + leaked < MaxFds
      /\ current # NoClient /\ current \in Clients
  BY <1>1, FtpAssumption DEF FtpInv, TypeOK, Descriptors, If
<1>4. file' \in BOOLEAN
  <2>1. (readable /\ Descriptors + 1 < MaxFds) \in BOOLEAN
    OBVIOUS
  <2>2. (Descriptors + 1 < MaxFds) \in BOOLEAN
    OBVIOUS
  <2> QED
    BY <2>1, <2>2, Zenon DEF DataAccepted, get_listing
<1>5. /\ file' => 4 + leaked < MaxFds
      /\ command = "LIST" /\ ~file' => ~readable \/ 4 + leaked >= MaxFds
  <2>1. file' => Descriptors + 1 < MaxFds
    BY Zenon DEF DataAccepted, get_listing
  <2>2. command = "LIST" => (file' <=> readable /\ Descriptors + 1 < MaxFds)
    BY Zenon DEF DataAccepted, get_listing
  <2> QED
    BY <1>3, <2>1, <2>2, FtpAssumption
<1>6. chunks' \in 0 .. MaxChunks + 1 /\ (chunks' > 0 => command # "STOR")
  <2>1. MaxChunks \in Nat
    BY FtpAssumption
  <2>2. CASE command = "LIST"
    BY <2>1, <2>2 DEF DataAccepted
  <2>3. CASE command # "LIST" /\ command = "RETR" /\ file'
    BY <2>1, <2>3 DEF DataAccepted
  <2>4. CASE command # "LIST" /\ ~(command = "RETR" /\ file')
    BY <2>1, <2>4 DEF DataAccepted
  <2> QED
    BY <2>2, <2>3, <2>4
<1>7. CASE SigPipe
  BY <1>1, <1>2, <1>4, <1>6, <1>7, SigPipeInv DEF FtpInv, TypeOK
<1>8. CASE /\ Sent /\ owed' = owed
           /\ pc' = IF command = "LIST" /\ ~file' THEN "dead" ELSE "transfer"
  <2>1. broken' \in BOOLEAN /\ (broken' => current \in gone)
    BY <1>8, SentBroken
  <2>2. CASE command = "LIST" /\ ~file'
    <3>1. pc' = "dead"
      BY <1>8, <2>2
    <3>2. Descriptors' = 3 + leaked
      BY <1>1, <1>3, <3>1 DEF Descriptors, If
    <3>3. ~readable \/ (leaked > 0 /\ 3 + leaked = MaxFds - 1)
      BY <1>3, <1>5, <2>2, FtpAssumption
    <3>4. DeathHasCause'
      BY <1>1, <1>3, <2>2, <3>2, <3>3 DEF DeathHasCause
    <3> QED
      BY <1>1, <1>2, <1>4, <1>6, <1>8, <2>1, <3>1, <3>4, DieInv DEF FtpInv, TypeOK
  <2>3. CASE ~(command = "LIST" /\ ~file')
    <3>1. pc' = "transfer"
      BY <1>8, <2>3
    <3>2. Descriptors' <= MaxFds
      BY <1>1, <1>3, <1>4, <1>5, <3>1, FtpAssumption DEF Descriptors, If
    <3>3. TypeOK'
      BY <1>1, <1>2, <1>4, <1>6, <1>8, <2>1, <3>1, <3>2 DEF FtpInv, TypeOK, Waiting
    <3>4. current \in Clients \ Impatient => PatientSession'
      BY <1>1, <1>2, <1>8, <3>1 DEF FtpInv, PatientSession
    <3> QED
      BY <1>1, <1>2, <1>3, <1>6, <1>8, <2>1, <3>1, <3>2, <3>3, <3>4 DEF FtpInv, DeathHasCause, Listening
  <2> QED
    BY <2>2, <2>3
<1> QED
  BY <1>7, <1>8 DEF DataAccepted

\* A chunk is sent.  The connection of a patient client takes every one of them.
LEMMA SendFileInv ==
  ASSUME FtpInv, pc # "dead", send_file
  PROVE  FtpInv'
<1>1. /\ pc = "transfer" /\ chunks > 0 /\ passive = "open" /\ command # "STOR"
      /\ UNCHANGED <<queue, gone, current, broken, inbox, owed, readable, command, passive, announced,
                    leaked, file>>
      /\ current \in Clients
  BY DEF send_file, clientVars, session, FtpInv, TypeOK
<1>2. CASE /\ chunks' = chunks - 1 /\ pc' = pc
           /\ data' = IF data = "accepted" THEN "accepted" ELSE "reset"
  <2>1. chunks' \in 0 .. MaxChunks + 1
    BY <1>1, <1>2, FtpAssumption DEF FtpInv, TypeOK
  <2>2. TypeOK'
    BY <1>1, <1>2, <2>1 DEF FtpInv, TypeOK, Descriptors, Waiting
  <2>3. current \in Clients \ Impatient => PatientSession'
    BY <1>1, <1>2 DEF FtpInv, PatientSession
  <2> QED
    BY <1>1, <1>2, <2>2, <2>3 DEF FtpInv, DeathHasCause, Descriptors, Listening
<1>3. CASE data = "reset" /\ pc' = "dead" /\ chunks' = chunks /\ data' = data
  <2>1. current \in Impatient
    BY <1>1, <1>3 DEF FtpInv, PatientSession
  <2>2. DeathHasCause'
    BY <1>1, <1>3, <2>1 DEF DeathHasCause
  <2> QED
    BY <1>1, <1>3, <2>2, DieInv DEF FtpInv, TypeOK
<1> QED
  BY <1>2, <1>3 DEF send_file

\* A transfer ends and closes its sockets.
LEMMA TransferDoneInv ==
  ASSUME FtpInv, pc # "dead", TransferDone
  PROVE  FtpInv'
<1>1. /\ pc = "transfer" /\ Len(inbox) < owed /\ Len(inbox) \in Nat /\ owed \in Nat
      /\ passive' = "closed" /\ announced' = FALSE /\ data' = "none" /\ file' = FALSE
      /\ UNCHANGED <<queue, gone, current, inbox, readable, command, leaked, chunks>>
  BY EmptyInbox DEF TransferDone, FtpInv, TypeOK, clientVars
<1>2. file' \in BOOLEAN /\ announced' \in BOOLEAN
  BY <1>1, Zenon
<1>3. CASE Sent /\ owed' = owed - 1 /\ pc' = "recv"
  <2>1. Descriptors' <= MaxFds
    BY <1>1, <1>3, FtpAssumption DEF Descriptors, If, FtpInv, TypeOK
  <2> QED
    BY <1>1, <1>2, <1>3, <2>1, AnsweredInv DEF FtpInv, TypeOK, Listening
<1>4. CASE SigPipe
  BY <1>1, <1>2, <1>4, SigPipeInv DEF FtpInv, TypeOK
<1> QED
  BY <1>3, <1>4 DEF TransferDone, Reply

\* Every step keeps the invariant.
LEMMA NextInv == FtpInv /\ [Next]_vars => FtpInv'
<1> SUFFICES ASSUME FtpInv, [Next]_vars PROVE FtpInv'
  OBVIOUS
<1>1. CASE UNCHANGED vars
  BY <1>1 DEF vars, FtpInv, TypeOK, NoSession, PatientSession, DeathHasCause, Descriptors, Waiting,
              Listening
<1>2. CASE pc # "dead" /\ Server
  BY <1>2, AcceptClientInv, ConnectionLostInv, ReceiveInv, DataRefusedInv, DataAcceptedInv,
     SendFileInv, TransferDoneInv DEF Server
<1>3. CASE pc # "dead" /\ Chmod
  BY <1>3, ChmodInv
<1>4. ASSUME pc # "dead", NEW c \in Clients, Client(c)
      PROVE  FtpInv'
  BY <1>4, ConnectInv, SendInv, LeaveInv, OpenDataInv, EndDataInv DEF Client
<1> QED
  BY <1>1, <1>2, <1>4, <1>3 DEF Next

-----------------------------------------------------------------------------
(* Theorems *)

\* The inductive invariant holds in every state the server and its clients reach.
THEOREM InvariantHolds == Spec => []FtpInv
  BY InitInv, NextInv, PTL DEF Spec

\* Type correctness: among the rest, as many answers as commands.
THEOREM TypeCorrect == Spec => []TypeOK
<1>1. FtpInv => TypeOK
  BY DEF FtpInv
<1> QED
  BY <1>1, InvariantHolds, PTL

\* The server dies only of an impatient client's closed connection, or of the
\* free() of a listing's error message, when the working directory cannot be read
\* or leaked sockets have used up the descriptors.
THEOREM DeathsHaveCauses == Spec => []DeathHasCause
<1>1. FtpInv => DeathHasCause
  BY DEF FtpInv
<1> QED
  BY <1>1, InvariantHolds, PTL

\* Every command of a client that sends one at a time has been answered when the
\* server waits for the next.
THEOREM CommandsAnsweredInTurn == Spec => []AnsweredBeforeNext
<1>1. FtpInv => AnsweredBeforeNext
  <2> SUFFICES ASSUME FtpInv, pc = "recv", inbox = <<>>, current \notin Impatient
               PROVE  owed = 0
    BY DEF AnsweredBeforeNext
  <2>1. owed = Len(inbox)
    BY DEF FtpInv, TypeOK, PatientSession
  <2> QED
    BY <2>1
<1> QED
  BY <1>1, InvariantHolds, PTL

\* What a step that loses a socket has found.
Lost == /\ passive = "open"
        /\ current \in Impatient \/ (pc = "recv" /\ Descriptors = MaxFds)

\* A socket that is lost was opened by an impatient client, or accept has found
\* no descriptor for the data connection.
LEMMA LeakStep ==
  ASSUME FtpInv, [Next]_vars, leaked' # leaked
  PROVE  Lost
<1>1. leaked \in Nat
  BY DescriptorsType
<1>2. ASSUME leaked' = leaked + If(passive = "open")
      PROVE  passive = "open"
  BY <1>1, <1>2 DEF If
<1>3. pc # "dead" /\ (ConnectionLost \/ Receive)
  BY DEF Next, vars, Server, AcceptClient, DataRefused, DataAccepted, send_file, TransferDone,
         Client, Connect, SendCommand, Leave, OpenData, EndData, Chmod, transfer
<1>4. current \in Clients /\ current # NoClient /\ pc = "recv" /\ Listening
  BY <1>3 DEF ConnectionLost, Receive, FtpInv, TypeOK
<1>5. CASE ConnectionLost
  <2>1. passive = "open"
    BY <1>2, <1>5 DEF ConnectionLost, EndSession
  <2>2. current \notin Impatient => ~announced
    BY <1>3, <1>4, <1>5 DEF ConnectionLost, FtpInv, PatientSession
  <2> QED
    BY <1>1, <1>4, <2>1, <2>2 DEF Lost, Listening, Descriptors, If
<1>6. CASE Receive
  <2>1. inbox # <<>> /\ Head(inbox) \in {"PASV", "QUIT"} /\ (Passive \/ EndSession)
    BY <1>6 DEF Receive, Quit, Answer, ChangeDirectory, transfer
  <2>2. passive = "open"
    BY <1>2, <2>1 DEF Passive, EndSession
  <2>3. current \notin Impatient => ~announced
    BY <1>3, <1>4, <2>1 DEF FtpInv, PatientSession
  <2> QED
    BY <1>1, <1>4, <2>2, <2>3 DEF Lost, Listening, Descriptors, If
<1> QED
  BY <1>3, <1>5, <1>6

\* Listening sockets are lost only by clients that open them and do not use them,
\* or after a transfer was refused because all descriptors were in use: no
\* sequence of complete transfers loses one.
THEOREM LeaksHaveCauses == Spec => LeaksHaveCause
<1>1. FtpInv /\ [Next]_vars => [leaked' # leaked => Lost]_vars
  BY LeakStep
<1>2. [leaked' # leaked => Lost]_vars
        => [leaked' # leaked =>
               /\ passive = "open"
               /\ current \in Impatient \/ (pc = "recv" /\ Descriptors = MaxFds)]_vars
  BY DEF Lost
<1> QED
  BY <1>1, <1>2, InvariantHolds, PTL DEF Spec, LeaksHaveCause
=============================================================================
