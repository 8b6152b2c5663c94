----------------------------- MODULE ChatSession -----------------------------
(***************************************************************************)
(* One invocation of the chat and file server (src/chat2/chatserver.c,     *)
(* SYSCALL_DEFINE2(server, ...)) and the clients of src/cl2/cl2.c that     *)
(* connect to it, over TCP connections as the Linux kernel runs them.      *)
(*                                                                         *)
(* The server serves one connection at a time.  In each round it receives  *)
(* into `buffer', answers with the fixed message of the process that made  *)
(* the call, and then looks at `buffer' for a file request.  A client      *)
(* sends a line and then waits for one answer, or, after a file request,   *)
(* receives until the connection ends.                                     *)
(*                                                                         *)
(* Data: a line is a sequence of cells; Tag stands for "FILE:", BufLen     *)
(* for the 100 bytes of `buffer', NameLen for the 11 bytes a filename can  *)
(* have.  Data from client to server is the byte stream of cells; data     *)
(* from server to client is a stream of tokens (the message, the greeting, *)
(* the parts of a file, one per kernel_read).                              *)
(*                                                                         *)
(* link[c] is the connection of client c as the server's kernel sees it:   *)
(*   none      not connected yet                                           *)
(*   live      both ends are open                                          *)
(*   fin       the client has closed; the server may still send            *)
(*   doomed    the server sent after that: a RST is on its way             *)
(*   reset     a RST has arrived and is to be reported to the server       *)
(*   dead      it was reported, or came after a FIN; sending raises SIGPIPE *)
(*   released  the server has closed, the client still has to see it       *)
(*   aborted   the same, by a RST: data under way may be lost              *)
(*   closed    both ends have closed                                       *)
(***************************************************************************)
EXTENDS Naturals, Sequences, FiniteSets, SequencesExt

CONSTANTS
  Client,      \* runs of cl2; each connects once
  Allowed,     \* those whose address is client_ip_arg
  Cell,        \* what lines are made of
  NUL,         \* the cell that is '\0'
  Tag,         \* "FILE:"
  BufLen,      \* sizeof(buffer)
  NameLen,     \* MAX_FILENAME_LEN - 1
  InitBuffers, \* what the uninitialised `buffer' may hold
  FileParts,   \* file name -> number of kernel_reads that return data
  Unreadable,  \* names of files whose kernel_read may fail
  Lines,       \* lines a user may type
  MaxLines,    \* bound: lines per client
  Backlog,     \* the argument of kernel_listen
  SndCap,      \* bound: tokens that fit in a send buffer
  NoOne        \* no client

ASSUME DataAssumption ==
  /\ NUL \in Cell
  /\ Tag \in Seq(Cell \ {NUL})
  /\ BufLen \in Nat /\ NameLen \in Nat
  /\ Len(Tag) + NameLen <= BufLen
  /\ InitBuffers \subseteq [1..BufLen -> Cell]
  /\ Lines \subseteq Seq(Cell \ {NUL})
  /\ DOMAIN FileParts \subseteq Seq(Cell \ {NUL})
  /\ FileParts \in [DOMAIN FileParts -> Nat]

ASSUME BoundAssumption ==
  /\ MaxLines \in Nat /\ Backlog \in Nat /\ SndCap \in Nat \ {0}
  /\ Allowed \subseteq Client /\ NoOne \notin Client

VARIABLES
  \* the server invocation
  spc,             \* where it is
  cur,             \* the client client_socket is connected to
  buffer,          \* char buffer[100], never cleared
  is_file_request, \* bool is_file_request, set once per call
  filename,        \* char filename[]
  pos,             \* parts of the file read so far
  signal,          \* pending for the process in the call: "none", "int", "pipe"
  \* TCP
  queue,           \* connections waiting to be accepted
  link,            \* the state of each connection
  c2s,             \* cells under way or queued, client to server
  s2c,             \* tokens under way or queued, server to client
  \* the clients
  cpc,             \* where each client is
  typed,           \* number of lines typed
  got,             \* tokens written to the file being received
  asked            \* history: names of the files each client asked for

server  == <<spc, cur, buffer, is_file_request, filename, pos>>
network == <<queue, link, c2s, s2c>>
clients == <<cpc, typed, got, asked>>
vars == <<spc, cur, buffer, is_file_request, filename, pos, signal,
          queue, link, c2s, s2c, cpc, typed, got, asked>>

MsgToken == [kind |-> "msg"]
HelloToken == [kind |-> "hello"]
PartToken(name, k) == [kind |-> "part", name |-> name, part |-> k]

\* strncmp(s, "FILE:", 5) == 0
IsRequest(s) == IsPrefix(Tag, s)

\* kernel_read of the file may give nothing: it is empty, or cannot be read, as a
\* directory cannot.
YieldsNothing(name) ==
  /\ name \in DOMAIN FileParts
  /\ FileParts[name] = 0 \/ name \in Unreadable

\* Mutant of NameIn: memcpy for strncpy.
NameCopied(s) == SubSeq(s, Len(Tag) + 1, Len(Tag) + NameLen)

\* strncpy(filename, buffer + 5, MAX_FILENAME_LEN - 1) into a zeroed array
NameIn(s) ==
  LET rest == SubSeq(s, Len(Tag) + 1, Len(Tag) + NameLen)
      size == CHOOSE n \in 0..Len(rest) :
                /\ \A i \in 1..n : rest[i] # NUL
                /\ n < Len(rest) => rest[n + 1] = NUL
  IN  SubSeq(rest, 1, size)

\* The first Len(data) cells of the buffer are overwritten, the others stay.
Overwrite(buf, data) ==
  [i \in 1..BufLen |-> IF i <= Len(data) THEN data[i] ELSE buf[i]]

Init ==
  /\ spc = "accept"
  /\ cur = NoOne
  /\ buffer \in InitBuffers
  /\ is_file_request = FALSE
  /\ filename = <<>>
  /\ pos = 0
  /\ signal = "none"
  /\ queue = <<>>
  /\ link = [c \in Client |-> "none"]
  /\ c2s = [c \in Client |-> <<>>]
  /\ s2c = [c \in Client |-> <<>>]
  /\ cpc = [c \in Client |-> "start"]
  /\ typed = [c \in Client |-> 0]
  /\ got = [c \in Client |-> <<>>]
  /\ asked = [c \in Client |-> {}]

SetLink(c, state) == link' = [link EXCEPT ![c] = state]

-----------------------------------------------------------------------------
(* kernel_sendmsg with msg_flags = 0, on the connection of the current     *)
(* client: Sends(token) when it returns a count, SendFails when it returns *)
(* an error.                                                               *)

Sends(token) ==
  /\ \/ /\ link[cur] = "live"
        /\ Len(s2c[cur]) < SndCap
        /\ s2c' = [s2c EXCEPT ![cur] = Append(@, token)]
        /\ UNCHANGED link
     \/ /\ link[cur] \in {"fin", "doomed"}
        /\ SetLink(cur, "doomed")
        /\ UNCHANGED s2c
  /\ UNCHANGED <<queue, c2s, signal>>

SendFails ==
  /\ \/ /\ link[cur] = "live"               \* blocked, and interrupted
        /\ signal # "none"
        /\ Len(s2c[cur]) >= SndCap
        /\ UNCHANGED <<link, signal>>
     \/ /\ link[cur] = "reset"              \* ECONNRESET
        /\ SetLink(cur, "dead")
        /\ UNCHANGED signal
     \/ /\ link[cur] = "dead"               \* EPIPE
        /\ signal' = IF signal = "none" THEN "pipe" ELSE signal
        /\ UNCHANGED link
  /\ UNCHANGED <<queue, c2s, s2c>>

\* sock_release of the server's end of c: a FIN, or a RST when data from the
\* client was left unread.
ReleaseLink(c) ==
  /\ SetLink(c, IF link[c] # "live" THEN "closed"
                ELSE IF c2s[c] = <<>> THEN "released" ELSE "aborted")
  /\ c2s' = [c2s EXCEPT ![c] = <<>>]

-----------------------------------------------------------------------------
(* The server's loop *)

Accept ==
  /\ spc = "accept"
  /\ queue # <<>>
  /\ cur' = Head(queue)
  /\ queue' = Tail(queue)
  /\ spc' = "check"
  /\ UNCHANGED <<buffer, is_file_request, filename, pos, signal, link, c2s, s2c, clients>>

\* Mutant of AcceptInterrupted: `continue' for `break'.
AcceptRetries ==
  /\ spc = "accept"
  /\ queue = <<>>
  /\ signal # "none"
  /\ UNCHANGED vars

\* A signal interrupts kernel_accept only when it has to wait.
AcceptInterrupted ==
  /\ spc = "accept"
  /\ queue = <<>>
  /\ signal # "none"
  /\ spc' = "exit"
  /\ UNCHANGED <<cur, buffer, is_file_request, filename, pos, signal, network, clients>>

\* Mutant of Admit: the address is not compared.
AdmitAll ==
  /\ spc = "check"
  /\ link[cur] # "reset"
  /\ spc' = "recv"
  /\ UNCHANGED <<cur, buffer, is_file_request, filename, pos, signal, network, clients>>

Admit ==
  /\ spc = "check"
  /\ link[cur] # "reset"
  /\ cur \in Allowed
  /\ spc' = "recv"
  /\ UNCHANGED <<cur, buffer, is_file_request, filename, pos, signal, network, clients>>

\* Mutant of Refuse: `break' for `continue'.
RefuseEnds ==
  /\ spc = "check"
  /\ link[cur] = "reset" \/ cur \notin Allowed
  /\ ReleaseLink(cur)
  /\ cur' = NoOne
  /\ spc' = "exit"
  /\ UNCHANGED <<buffer, is_file_request, filename, pos, signal, queue, s2c, clients>>

\* kernel_getpeername fails on a connection that was reset; another address
\* is denied.
Refuse ==
  /\ spc = "check"
  /\ link[cur] = "reset" \/ cur \notin Allowed
  /\ ReleaseLink(cur)
  /\ cur' = NoOne
  /\ spc' = "accept"
  /\ UNCHANGED <<buffer, is_file_request, filename, pos, signal, queue, s2c, clients>>

\* receive_message returns data: any part of what is queued that fits.
Receive ==
  /\ spc = "recv"
  /\ \E n \in 1..Len(c2s[cur]) :
       /\ n <= BufLen
       /\ buffer' = Overwrite(buffer, SubSeq(c2s[cur], 1, n))
       /\ c2s' = [c2s EXCEPT ![cur] = SubSeq(@, n + 1, Len(@))]
  /\ spc' = "copy"
  /\ UNCHANGED <<cur, is_file_request, filename, pos, signal, queue, link, s2c, clients>>

\* receive_message returns 0 at the end of the stream, which the loop takes
\* for a message: buffer is as it was.
ReceiveEnd ==
  /\ spc = "recv"
  /\ c2s[cur] = <<>>
  /\ link[cur] \in {"fin", "doomed", "dead"}
  /\ spc' = "copy"
  /\ UNCHANGED <<cur, buffer, is_file_request, filename, pos, signal, network, clients>>

\* receive_message returns an error: the connection was reset, or a signal is
\* pending and there is nothing to receive.
ReceiveFails ==
  /\ spc = "recv"
  /\ c2s[cur] = <<>>
  /\ \/ link[cur] = "reset" /\ SetLink(cur, "dead")
     \/ link[cur] = "live" /\ signal # "none" /\ UNCHANGED link
  /\ spc' = "release"
  /\ UNCHANGED <<cur, buffer, is_file_request, filename, pos, signal, queue, c2s, s2c, clients>>

\* Mutant of Copy: `continue' for `break' when copy_from_user fails.
CopyContinues ==
  /\ spc = "copy"
  /\ spc' \in {"reply", "recv"}
  /\ UNCHANGED <<cur, buffer, is_file_request, filename, pos, signal, network, clients>>

\* copy_from_user of the message
Copy ==
  /\ spc = "copy"
  /\ spc' \in {"reply", "release"}
  /\ UNCHANGED <<cur, buffer, is_file_request, filename, pos, signal, network, clients>>

\* Mutant of Reply: the result of send_message is never looked at.
ReplyUnchecked ==
  /\ spc = "reply"
  /\ Sends(MsgToken) \/ SendFails
  /\ spc' = IF IsRequest(buffer) THEN "open"
            ELSE IF is_file_request THEN "greet" ELSE "recv"
  /\ filename' = IF IsRequest(buffer) THEN NameIn(buffer) ELSE filename
  /\ UNCHANGED <<cur, buffer, is_file_request, pos, clients>>

\* send_message(client_socket, kernel_message, ...), and the branch on the
\* buffer that follows it.  Only a plain message outside is_file_request looks
\* at the result.
Reply ==
  /\ spc = "reply"
  /\ \/ /\ Sends(MsgToken)
        /\ spc' = IF IsRequest(buffer) THEN "open"
                  ELSE IF is_file_request THEN "greet" ELSE "recv"
     \/ /\ SendFails
        /\ spc' = IF IsRequest(buffer) THEN "open"
                  ELSE IF is_file_request THEN "greet" ELSE "release"
  /\ filename' = IF IsRequest(buffer) THEN NameIn(buffer) ELSE filename
  /\ UNCHANGED <<cur, buffer, is_file_request, pos, clients>>

\* send_file: filp_open; it, or kmalloc, may fail.
OpenFile ==
  /\ spc = "open"
  /\ \/ filename \in DOMAIN FileParts /\ spc' = "part"
     \/ spc' = "release"
  /\ pos' = 0
  /\ UNCHANGED <<cur, buffer, is_file_request, filename, signal, network, clients>>

\* Mutant of SendPart: kernel_read is given a position that stays where it was.
SendPartAgain ==
  /\ spc = "part"
  /\ pos < FileParts[filename]
  /\ \/ Sends(PartToken(filename, pos)) /\ spc' = "part" /\ pos' = pos
     \/ SendFails /\ spc' = "release" /\ pos' = pos
  /\ UNCHANGED <<cur, buffer, is_file_request, filename, clients>>

SendPart ==
  /\ spc = "part"
  /\ pos < FileParts[filename]
  /\ \/ Sends(PartToken(filename, pos)) /\ spc' = "part" /\ pos' = pos + 1
     \/ SendFails /\ spc' = "release" /\ pos' = pos
  /\ UNCHANGED <<cur, buffer, is_file_request, filename, clients>>

\* kernel_read returns 0, or an error, which ends the loop the same way.
FileEnds ==
  /\ spc = "part"
  /\ pos = FileParts[filename] \/ filename \in Unreadable
  /\ is_file_request' = TRUE
  /\ spc' = "recv"
  /\ UNCHANGED <<cur, buffer, filename, pos, signal, network, clients>>

Greet ==
  /\ spc = "greet"
  /\ \/ Sends(HelloToken) /\ is_file_request' = FALSE /\ spc' = "recv"
     \/ SendFails /\ spc' = "release" /\ UNCHANGED is_file_request
  /\ UNCHANGED <<cur, buffer, filename, pos, clients>>

\* Mutant of ReleaseClient: client_socket = NULL without sock_release.
ReleaseLeaks ==
  /\ spc = "release"
  /\ cur' = NoOne
  /\ spc' = "accept"
  /\ UNCHANGED <<buffer, is_file_request, filename, pos, signal, network, clients>>

ReleaseClient ==
  /\ spc = "release"
  /\ ReleaseLink(cur)
  /\ cur' = NoOne
  /\ spc' = "accept"
  /\ UNCHANGED <<buffer, is_file_request, filename, pos, signal, queue, s2c, clients>>

\* tcp_socket_exit: closing the listener resets what it has not accepted.
Exit ==
  /\ spc = "exit"
  /\ spc' = "off"
  /\ link' = [c \in Client |->
       IF c \notin ToSet(queue) THEN link[c]
       ELSE IF link[c] = "live" THEN "aborted" ELSE "closed"]
  /\ queue' = <<>>
  /\ UNCHANGED <<cur, buffer, is_file_request, filename, pos, signal, c2s, s2c, clients>>

ServerStep ==
  \/ Accept \/ AcceptInterrupted \/ Admit \/ Refuse
  \/ Receive \/ ReceiveEnd \/ ReceiveFails \/ Copy \/ Reply
  \/ OpenFile \/ SendPart \/ FileEnds \/ Greet \/ ReleaseClient \/ Exit

\* The user interrupts the process that made the call.
Interrupt ==
  /\ spc # "off"
  /\ signal = "none"
  /\ signal' = "int"
  /\ UNCHANGED <<server, network, clients>>

\* The RST that answers data sent to a closed client arrives.
RstArrives(c) ==
  /\ link[c] = "doomed"
  /\ SetLink(c, "dead")
  /\ UNCHANGED <<server, signal, queue, c2s, s2c, clients>>

-----------------------------------------------------------------------------
(* The clients *)

\* The kernel completes a connection while the accept queue has room; once the
\* listener is closed, connect fails and the client exits.
Connect(c) ==
  /\ cpc[c] = "start"
  /\ \/ /\ spc # "off"
        /\ Len(queue) <= Backlog
        /\ queue' = Append(queue, c)
        /\ SetLink(c, "live")
        /\ cpc' = [cpc EXCEPT ![c] = "prompt"]
     \/ /\ spc = "off"
        /\ cpc' = [cpc EXCEPT ![c] = "done"]
        /\ UNCHANGED <<queue, link>>
  /\ UNCHANGED <<server, signal, c2s, s2c, typed, got, asked>>

\* close(sockfd), by the program or by its death.  Unread data makes the kernel
\* answer with a RST; data still under way is answered so when it arrives.
Close(c) ==
  /\ cpc' = [cpc EXCEPT ![c] = "done"]
  /\ \/ /\ link[c] = "live"
        /\ \/ s2c[c] = <<>> /\ SetLink(c, "fin")
           \/ s2c[c] # <<>> /\ (SetLink(c, "reset") \/ SetLink(c, "doomed"))
     \/ /\ link[c] \in {"released", "aborted"}
        /\ SetLink(c, "closed")
  /\ s2c' = [s2c EXCEPT ![c] = <<>>]

\* The user types a line and the client sends it.  Sent to a server that has
\* closed, it vanishes, or send_message fails and the client ends.
TypeLine(c) ==
  /\ cpc[c] = "prompt"
  /\ typed[c] < MaxLines
  /\ typed' = [typed EXCEPT ![c] = @ + 1]
  /\ \E line \in Lines :
       /\ asked' = IF IsRequest(line)
                     THEN [asked EXCEPT ![c] = @ \cup
                             {SubSeq(line, Len(Tag) + 1, Len(line))}]
                     ELSE asked
       /\ \/ /\ \/ /\ link[c] = "live"
                   /\ c2s' = [c2s EXCEPT ![c] = @ \o line]
                \/ /\ link[c] \in {"released", "aborted"}
                   /\ UNCHANGED c2s
             /\ IF IsRequest(line)
                  THEN \* receive_file may be unable to create the file
                       /\ cpc' \in {[cpc EXCEPT ![c] = "recvfile"], cpc}
                       /\ got' = IF cpc' = cpc THEN got ELSE [got EXCEPT ![c] = <<>>]
                  ELSE /\ cpc' = [cpc EXCEPT ![c] = "recvmsg"]
                       /\ UNCHANGED got
             /\ UNCHANGED <<link, s2c>>
          \/ /\ link[c] \in {"released", "aborted"}
             /\ Close(c)
             /\ UNCHANGED <<c2s, got>>
  /\ UNCHANGED <<server, signal, queue>>

Quit(c) ==
  /\ cpc[c] = "prompt"
  /\ Close(c)
  /\ UNCHANGED <<server, signal, queue, c2s, typed, got, asked>>

\* recv finds the end of the connection; what a RST has overtaken is lost.
AtEnd(c) ==
  \/ link[c] = "released" /\ s2c[c] = <<>>
  \/ link[c] = "aborted"

\* receive_message: one recv, whose result main ignores.
ReceiveMessage(c) ==
  /\ cpc[c] = "recvmsg"
  /\ \/ \E n \in 1..Len(s2c[c]) : s2c' = [s2c EXCEPT ![c] = SubSeq(@, n + 1, Len(@))]
     \/ AtEnd(c) /\ UNCHANGED s2c
  /\ cpc' = [cpc EXCEPT ![c] = "prompt"]
  /\ UNCHANGED <<server, signal, queue, link, c2s, typed, got, asked>>

\* receive_file: everything until the end of the connection goes to the file.
ReceiveFile(c) ==
  /\ cpc[c] = "recvfile"
  /\ \/ /\ s2c[c] # <<>>
        /\ got' = [got EXCEPT ![c] = Append(@, Head(s2c[c]))]
        /\ s2c' = [s2c EXCEPT ![c] = Tail(@)]
        /\ UNCHANGED cpc
     \/ /\ AtEnd(c)
        /\ cpc' = [cpc EXCEPT ![c] = "prompt"]
        /\ UNCHANGED <<got, s2c>>
  /\ UNCHANGED <<server, signal, queue, link, c2s, typed, asked>>

\* The client is killed while it waits.
Kill(c) ==
  /\ cpc[c] \in {"recvmsg", "recvfile"}
  /\ Close(c)
  /\ UNCHANGED <<server, signal, queue, c2s, typed, got, asked>>

ClientStep(c) ==
  \/ Connect(c) \/ TypeLine(c) \/ Quit(c) \/ ReceiveMessage(c)
  \/ ReceiveFile(c) \/ Kill(c)

\* The call has returned and every client has exited.
Finished ==
  /\ spc = "off"
  /\ \A c \in Client : cpc[c] = "done"
  /\ UNCHANGED vars

Next ==
  \/ ServerStep
  \/ Interrupt
  \/ \E c \in Client : RstArrives(c) \/ ClientStep(c)
  \/ Finished

Spec == Init /\ [][Next]_vars

\* The scheduler runs the process in the call and the client processes, and the
\* network delivers: each of these goes on while it can.
Running ==
  /\ WF_vars(ServerStep)
  /\ \A c \in Client : /\ WF_vars(Connect(c))
                       /\ WF_vars(ReceiveMessage(c))
                       /\ WF_vars(ReceiveFile(c))
                       /\ WF_vars(RstArrives(c))

\* Users leave: by "exit" at the prompt, or by killing a client that is waiting
\* for a file.  A client waiting for an answer is left to wait.
KillReceiver(c) == cpc[c] = "recvfile" /\ Kill(c)
UsersLeave ==
  \A c \in Client : WF_vars(Quit(c)) /\ WF_vars(KillReceiver(c))

FairSpec == Spec /\ Running
SocialSpec == FairSpec /\ UsersLeave

-----------------------------------------------------------------------------
(* Properties *)

Tokens == {MsgToken, HelloToken} \cup
            UNION {{PartToken(n, k) : k \in 0..FileParts[n] - 1} : n \in DOMAIN FileParts}

ServerSteps == {"accept", "check", "recv", "copy", "reply", "open", "part",
                "greet", "release", "exit", "off"}
LinkStates == {"none", "live", "fin", "doomed", "reset", "dead",
               "released", "aborted", "closed"}
ClientSteps == {"start", "prompt", "recvmsg", "recvfile", "done"}

\* Domains; filename holds at most NameLen characters and no '\0'.
TypeOK ==
  /\ spc \in ServerSteps
  /\ cur \in Client \cup {NoOne}
  /\ buffer \in [1..BufLen -> Cell]
  /\ is_file_request \in BOOLEAN
  /\ filename \in BoundedSeq(Cell \ {NUL}, NameLen)
  /\ pos \in Nat
  /\ signal \in {"none", "int", "pipe"}
  /\ queue \in BoundedSeq(Client, Backlog + 1)
  /\ link \in [Client -> LinkStates]
  /\ c2s \in [Client -> Seq(Cell \ {NUL})]
  /\ s2c \in [Client -> BoundedSeq(Tokens, SndCap)]
  /\ cpc \in [Client -> ClientSteps]
  /\ typed \in [Client -> 0..MaxLines]
  /\ got \in [Client -> Seq(Tokens)]

\* A client from another address never gets anything: no message, greeting or
\* part of a file, at any time from connect to close (chatserver.c:207).
DeniedGetNothing ==
  \A c \in Client \ Allowed : s2c[c] = <<>> /\ got[c] = <<>>

\* The server and the client it serves both wait to receive, with nothing under
\* way in either direction.
MutualWait(c) ==
  /\ cur = c /\ spc = "recv" /\ link[c] = "live"
  /\ c2s[c] = <<>> /\ s2c[c] = <<>>

\* A client waiting for the answer to a line and the server never wait for each
\* other: however the stream is cut or lines are merged by recv, and although
\* the answers of earlier rounds may be read late, an answer is still to come.
NoMessageDeadlock == \A c \in Client : ~(cpc[c] = "recvmsg" /\ MutualWait(c))

\* What a client stores as a file: the parts of a file are there in order, each once and
\* without a gap; before the first comes the message, which is sent on the same stream
\* (chatserver.c:228), unless it could not be sent because of a signal.
CopyInOrder ==
  \A c \in Client : \A i \in 2..Len(got[c]) :
    LET token == got[c][i]
    IN  token.kind = "part" =>
          IF token.part > 0 THEN got[c][i - 1] = PartToken(token.name, token.part - 1)
          ELSE got[c][i - 1] = MsgToken \/ signal # "none"

\* The loop is left only for a cause: the user interrupts it, or an allowed client has left
\* and a second send to its closed connection raised SIGPIPE, which stays pending and
\* ends a later accept (chatserver.c:216, :189).  The endless loop of readme.md:258 may so
\* end without an interrupt; a refused or reset client, a request, a file, a full queue or
\* an error of a call never ends it.
EndsForCause ==
  spc \in {"exit", "off"} =>
    \/ signal = "int"
    \/ signal = "pipe" /\ \E c \in Allowed : cpc[c] = "done"

\* The client has left, and the last thing in `buffer' is a request for a file that
\* yields nothing.  recv returns 0, which is taken for that request once more;
\* send_file sends nothing and returns 0, which hides that the answer failed
\* (chatserver.c:234).  No step waits, and none looks at a signal: unless
\* copy_from_user or filp_open fails, this goes on for ever.
ServesNobody ==
  /\ spc \in {"recv", "copy", "reply", "open", "part"}
  /\ cur # NoOne
  /\ link[cur] \in {"fin", "doomed", "dead"}
  /\ c2s[cur] = <<>>
  /\ IsRequest(buffer) /\ YieldsNothing(NameIn(buffer))

\* A client that waits for the answer to a line gets one, or sees the end of
\* the connection, provided the users ahead of it leave and the server does not go on
\* serving one that has left.
Answered ==
  \A c \in Client : cpc[c] = "recvmsg" ~> (cpc[c] # "recvmsg" \/ ServesNobody)

\* A connection whose client has gone is released, although receive_message does not
\* report the end of the stream (chatserver.c:216): whatever the buffer holds, a later
\* send fails.  The exception is a request for a file that yields nothing;
\* readme.md:264 says that every connection is released.
DisconnectReleased ==
  \A c \in Client :
    (cur = c /\ link[c] \in {"fin", "doomed", "reset", "dead"})
      ~> (cur # c \/ ServesNobody)

\* A pending signal ends the call from any step, also from a wait or a blocked send, but
\* for the same exception: there the call cannot even be killed.
SignalStops == (signal # "none") ~> (spc = "off" \/ ServesNobody)

\* The server implements TurnServer: `gone' are the connections whose server
\* end is closed, and a turn is `stuck' while nobody is served.
Turns == INSTANCE TurnServer WITH
  line <- queue,
  turn <- cur,
  gone <- {c \in Client : link[c] \in {"released", "aborted", "closed"}},
  open <- spc # "off",
  stuck <- ServesNobody
TakesTurns == Turns!Spec

-----------------------------------------------------------------------------
(* What the report and the comments say, and the code does not do. *)

\* A file request completes: client and server do not end up waiting for each
\* other (readme.md:416, :446).
NoFileDeadlock == \A c \in Client : ~(cpc[c] = "recvfile" /\ MutualWait(c))

\* The file sent is one whose name the client sent (readme.md:262).
FileAsAsked ==
  \A c \in Client : \A t \in ToSet(s2c[c]) :
    t.kind = "part" => t.name \in asked[c]
=============================================================================
