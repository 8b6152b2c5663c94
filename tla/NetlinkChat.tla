----------------------------- MODULE NetlinkChat ------------------------------
(***************************************************************************)
(* The chat module of src/chat3/server.c (src/server.c is the same file):  *)
(* one TCP client, served in the module's init function, and local users   *)
(* who send to a netlink socket whose input function passes what they send *)
(* to that client, in the user's own process.                              *)
(*                                                                         *)
(* What the module relies on is external, and as in the Linux kernel:      *)
(*   - accept stores a socket that is not connected in client_socket before *)
(*     it looks for a connection; with O_NONBLOCK it does not wait for one; *)
(*   - nlmsg_unicast to port 0 goes to the kernel's own end of the netlink *)
(*     socket, so send_to_user calls netlink_receive: what the client sent *)
(*     is sent back to it;                                                 *)
(*   - kthread_should_stop in a process that is no kernel thread reads a   *)
(*     word that has another meaning there: it may return anything, or     *)
(*     fault;                                                              *)
(*   - a user's netlink socket holds a reference to the module, which keeps *)
(*     it from being unloaded, but not from going away when init fails.    *)
(***************************************************************************)
EXTENDS Naturals, Sequences, FiniteSets

CONSTANTS
  User,       \* processes that use the netlink socket
  FileParts,  \* kernel_reads of a file that return data
  SndCap,     \* bound: tokens that fit in the send buffer
  Backlog,    \* the argument of kernel_listen
  MaxChunks,  \* bound: chunks the client sends
  MaxMessages \* bound: messages the users send

ASSUME NetlinkChatAssumption ==
  /\ FileParts \in Nat /\ SndCap \in Nat \ {0} /\ Backlog \in Nat
  /\ MaxChunks \in Nat /\ MaxMessages \in Nat

VARIABLES
  \* the process that loads or unloads the module
  pc,         \* where init or exit is; "absent", "loaded" between them
  asks,       \* the buffer starts with "file:"
  pos,        \* parts of the file sent
  signal,     \* a signal is pending for the process
  \* sockets: "none", "mine", or "lost" when the module is gone and they are not
  listener,   \* server_socket
  netlink,    \* netlink_socket
  client,     \* client_socket: "NULL", "embryo", "connected", "released"
  \* the users
  upc,        \* where each user is
  messages,   \* messages the users have sent
  \* TCP
  queue,      \* connections waiting to be accepted
  conn,       \* the accepted client: "none", "live", "gone"
  c2s,        \* chunks of data on the way to the server
  chunks,     \* chunks the client has sent
  out,        \* history: what the server has sent to the client, in order
  taken,      \* how much of out the client has received
  \* history
  received,   \* chunks the server has received
  failed,     \* a load has failed after the server socket was made
  fault       \* "none", or what ran into undefined behaviour

loading == <<pc, asks, pos, received, failed>>
sockets == <<listener, netlink, client>>
users == <<upc, messages>>
wire == <<queue, conn, c2s, chunks, out, taken>>
vars == <<pc, asks, pos, signal, listener, netlink, client, upc, messages,
          queue, conn, c2s, chunks, out, taken, received, failed, fault>>

Init ==
  /\ pc = "absent" /\ asks = FALSE /\ pos = 0 /\ signal = FALSE
  /\ listener = "none" /\ netlink = "none" /\ client = "NULL"
  /\ upc = [u \in User |-> "none"] /\ messages = 0
  /\ queue = 0 /\ conn = "none" /\ c2s = <<>> /\ chunks = 0
  /\ out = <<>> /\ taken = 0
  /\ received = 0 /\ failed = FALSE /\ fault = "none"

-----------------------------------------------------------------------------
(* send_message: kernel_sendmsg on the client's connection.  A send to a    *)
(* client that has gone succeeds or fails, and may raise SIGPIPE in the     *)
(* process that sends.                                                      *)

Echo(n) == [kind |-> "echo", chunk |-> n, part |-> 0]
FilePart(n, k) == [kind |-> "part", chunk |-> n, part |-> k]
UserText == [kind |-> "user", chunk |-> 0, part |-> 0]

Sends(token) ==
  \/ /\ conn = "live"
     /\ Len(out) - taken < SndCap
     /\ out' = Append(out, token)
  \/ conn = "gone" /\ UNCHANGED out

SendFails(interrupted) ==
  \/ conn = "gone"
  \/ conn = "live" /\ Len(out) - taken >= SndCap /\ interrupted

-----------------------------------------------------------------------------
(* tcp_socket_init *)

\* create_server_socket
Listen ==
  /\ pc = "absent"
  /\ listener = "none"
  /\ listener' = "mine"
  /\ pc' = "netlink"
  /\ asks' = FALSE /\ signal' = FALSE
  /\ client' = "NULL"
  /\ UNCHANGED <<pos, received, failed, netlink, users, wire, fault>>

\* Any call of create_server_socket fails, bind when the port is in use: the socket is
\* released, and the module goes away.
ListenFails ==
  /\ pc = "absent"
  /\ client' = "NULL"
  /\ UNCHANGED <<loading, signal, listener, netlink, users, wire, fault>>

\* init returns an error and the kernel frees the module.  What it has made
\* and not released stays, and nothing refers to it.
LoadFails ==
  /\ pc' = "absent"
  /\ listener' = IF listener = "mine" THEN "lost" ELSE listener
  /\ netlink' = IF netlink = "mine" THEN "lost" ELSE netlink
  /\ failed' = TRUE

\* netlink_kernel_create; when it fails, the server socket is not released.
CreateNetlink ==
  /\ pc = "netlink"
  /\ \/ /\ netlink = "none"
        /\ netlink' = "mine"
        /\ pc' = "accept"
        /\ UNCHANGED <<listener, failed>>
     \/ LoadFails
  /\ UNCHANGED <<asks, pos, received, signal, client, users, wire, fault>>

\* kernel_accept has stored the new socket.
AcceptEnter ==
  /\ pc = "accept"
  /\ client' = "embryo"
  /\ pc' = "accepting"
  /\ UNCHANGED <<asks, pos, received, failed, signal, listener, netlink, users, wire, fault>>

AcceptOk ==
  /\ pc = "accepting"
  /\ queue > 0
  /\ queue' = queue - 1
  /\ client' = "connected" /\ conn' = "live"
  /\ c2s' = <<>> /\ out' = <<>> /\ taken' = 0 /\ received' = 0
  /\ pc' = "check"
  /\ UNCHANGED <<asks, pos, failed, signal, listener, netlink, users, chunks, fault>>

\* No connection is waiting, or accept fails otherwise: neither the server socket
\* nor the netlink socket is released.
AcceptFails ==
  /\ pc = "accepting"
  /\ client' = "NULL"
  /\ LoadFails
  /\ UNCHANGED <<asks, pos, received, signal, users, wire, fault>>

\* while (!kthread_should_stop())
CheckStop ==
  /\ pc = "check"
  /\ \/ pc' \in {"recv", "loaded"} /\ UNCHANGED fault
     \/ fault' = "loop" /\ UNCHANGED pc
  /\ UNCHANGED <<asks, pos, received, failed, signal, sockets, users, wire>>

\* receive_message returns data.  A chunk shorter than "file:" leaves the rest
\* of what the buffer held, so it may start either way.
Receive ==
  /\ pc = "recv"
  /\ c2s # <<>>
  /\ asks' \in IF Head(c2s) = "short" THEN BOOLEAN ELSE {Head(c2s) = "request"}
  /\ c2s' = Tail(c2s)
  /\ received' = received + 1
  /\ pc' = "tell"
  /\ UNCHANGED <<pos, failed, signal, sockets, users, queue, conn, chunks, out, taken, fault>>

\* Mutant of ReceiveNothing: an error closes the connection.
ReceiveErrorCloses ==
  /\ pc = "recv"
  /\ c2s = <<>>
  /\ conn = "gone" \/ signal
  /\ client' = "released"
  /\ pc' = "check"
  /\ UNCHANGED <<asks, pos, received, failed, signal, listener, netlink, users, wire, fault>>

\* recv returns 0, or an error: the loop goes on in both cases.
ReceiveNothing ==
  /\ pc = "recv"
  /\ c2s = <<>>
  /\ conn = "gone" \/ signal
  /\ pc' = "check"
  /\ UNCHANGED <<asks, pos, received, failed, signal, sockets, users, wire, fault>>

\* send_to_user: there is no memory for the message, or netlink_receive sends it
\* to the client.
TellUser ==
  /\ pc = "tell"
  /\ \/ Sends(Echo(received)) /\ UNCHANGED signal
     \/ UNCHANGED <<out, signal>>
     \/ SendFails(signal) /\ signal' \in {signal, TRUE} /\ UNCHANGED out
  /\ pc' = IF asks THEN "open" ELSE "check"
  /\ UNCHANGED <<asks, pos, received, failed, sockets, users, queue, conn, c2s, chunks, taken, fault>>

\* send_file: filp_open or kmalloc may fail.
OpenFile ==
  /\ pc = "open"
  /\ pos' = 0
  /\ pc' \in {"part", "check"}
  /\ UNCHANGED <<asks, received, failed, signal, sockets, users, wire, fault>>

\* Mutant of SendPart: the file is read at a position that stays where it was.
SendPartAgain ==
  /\ pc = "part"
  /\ pos < FileParts
  /\ \/ Sends(FilePart(received, pos)) /\ UNCHANGED <<pc, signal>>
     \/ SendFails(signal) /\ pc' = "check" /\ UNCHANGED <<out, signal>>
  /\ UNCHANGED <<asks, pos, received, failed, sockets, users, queue, conn, c2s, chunks, taken, fault>>

\* Mutant of SendPart: the end of the file is not noticed.
SendPartPastEnd ==
  /\ pc = "part"
  /\ \/ Sends(FilePart(received, pos)) /\ pos' = pos + 1 /\ UNCHANGED <<pc, signal>>
     \/ SendFails(signal) /\ pc' = "check" /\ UNCHANGED <<pos, out, signal>>
  /\ UNCHANGED <<asks, received, failed, sockets, users, queue, conn, c2s, chunks, taken, fault>>

SendPart ==
  /\ pc = "part"
  /\ pos < FileParts
  /\ \/ /\ Sends(FilePart(received, pos))
        /\ pos' = pos + 1
        /\ UNCHANGED <<pc, signal>>
     \/ /\ SendFails(signal) /\ signal' \in {signal, TRUE}
        /\ pc' = "check"
        /\ UNCHANGED <<pos, out>>
  /\ UNCHANGED <<asks, received, failed, sockets, users, queue, conn, c2s, chunks, taken, fault>>

\* Mutant of FileEnds: `>= 0' for `> 0' in the loop's condition.
FileNeverEnds ==
  /\ pc = "part"
  /\ pos = FileParts
  /\ UNCHANGED vars

\* kernel_read returns 0 at the end of the file, or an error anywhere in it: the loop
\* ends the same way.
FileEnds ==
  /\ pc = "part"
  /\ pc' = "check"
  /\ UNCHANGED <<asks, pos, received, failed, signal, sockets, users, wire, fault>>

-----------------------------------------------------------------------------
(* tcp_socket_exit *)

\* The module is not unloaded while a user has a netlink socket.  The client's
\* socket is released first.
ExitClient ==
  /\ pc = "loaded"
  /\ \A u \in User : upc[u] = "none"
  /\ client' = IF client = "connected" THEN "released" ELSE client
  /\ conn' = "none" /\ c2s' = <<>>
  /\ pc' = "xserver"
  /\ UNCHANGED <<asks, pos, received, failed, signal, listener, netlink, users,
                 queue, chunks, out, taken, fault>>

\* Mutant of ExitServer: the server socket is not released.
ExitServerLeaks ==
  /\ pc = "xserver"
  /\ listener' = "lost"
  /\ pc' = "xnetlink"
  /\ UNCHANGED <<asks, pos, received, failed, signal, netlink, client, users, wire, fault>>

\* Connections that were not accepted are reset.
ExitServer ==
  /\ pc = "xserver"
  /\ listener' = "none"
  /\ queue' = 0
  /\ pc' = "xnetlink"
  /\ UNCHANGED <<asks, pos, received, failed, signal, netlink, client, users,
                 conn, c2s, chunks, out, taken, fault>>

ExitNetlink ==
  /\ pc = "xnetlink"
  /\ netlink' = "none"
  /\ pc' = "absent"
  /\ UNCHANGED <<asks, pos, received, failed, signal, listener, client, users, wire, fault>>

ModuleStep ==
  \/ CreateNetlink \/ AcceptEnter \/ AcceptOk \/ AcceptFails
  \/ CheckStop \/ Receive \/ ReceiveNothing \/ TellUser
  \/ OpenFile \/ SendPart \/ FileEnds \/ ExitServer \/ ExitNetlink

Interrupt ==
  /\ pc \in {"check", "recv", "tell", "open", "part"}
  /\ ~signal
  /\ signal' = TRUE
  /\ UNCHANGED <<loading, sockets, users, wire, fault>>

-----------------------------------------------------------------------------
(* The users and netlink_receive *)

Unloading == {"xserver", "xnetlink"}

\* A user opens a socket of the protocol.  With a module that is gone, the
\* kernel asks freed memory for the reference.
OpenNetlink(u) ==
  /\ upc[u] = "none"
  /\ \/ /\ netlink = "mine" /\ pc \notin Unloading
        /\ upc' = [upc EXCEPT ![u] = "open"]
        /\ UNCHANGED fault
     \/ /\ netlink = "lost"
        /\ fault' = "gone"
        /\ UNCHANGED upc
  /\ UNCHANGED <<loading, signal, sockets, messages, wire>>

\* sendmsg calls the input function of the kernel's socket.
SendMessage(u) ==
  /\ upc[u] = "open"
  /\ messages < MaxMessages
  /\ messages' = messages + 1
  /\ IF netlink = "mine"
       THEN upc' = [upc EXCEPT ![u] = "call"] /\ UNCHANGED fault
       ELSE fault' = "gone" /\ UNCHANGED upc
  /\ UNCHANGED <<loading, signal, sockets, wire>>

\* netlink_receive reads client_socket and uses it.
EnterReceive(u) ==
  /\ upc[u] = "call"
  /\ IF netlink # "mine" THEN fault' = "gone" /\ UNCHANGED upc
     ELSE IF client # "connected" THEN fault' = "callback" /\ UNCHANGED upc
     ELSE upc' = [upc EXCEPT ![u] = "send"] /\ UNCHANGED fault
  /\ UNCHANGED <<loading, signal, sockets, messages, wire>>

\* send_message to the client; the user's process may be interrupted.
PassOn(u) ==
  /\ upc[u] = "send"
  /\ IF client # "connected" THEN fault' = "callback" /\ UNCHANGED <<upc, out>>
     ELSE /\ \/ Sends(UserText)
             \/ SendFails(TRUE) /\ UNCHANGED out
          /\ upc' = [upc EXCEPT ![u] = "open"]
          /\ UNCHANGED fault
  /\ UNCHANGED <<loading, signal, sockets, messages, queue, conn, c2s, chunks, taken>>

CloseNetlink(u) ==
  /\ upc[u] = "open"
  /\ upc' = [upc EXCEPT ![u] = "none"]
  /\ UNCHANGED <<loading, signal, sockets, messages, wire, fault>>

UserStep(u) == \/ OpenNetlink(u) \/ SendMessage(u) \/ EnterReceive(u)
               \/ PassOn(u) \/ CloseNetlink(u)

-----------------------------------------------------------------------------
(* The TCP clients *)

\* A connection is completed while the listener, lost or not, has room.
Connect ==
  /\ listener # "none"
  /\ queue <= Backlog
  /\ queue' = queue + 1
  /\ UNCHANGED <<loading, signal, sockets, users, conn, c2s, chunks, out, taken, fault>>

ClientSends ==
  /\ conn = "live"
  /\ chunks < MaxChunks
  /\ \E chunk \in {"line", "request", "short"} : c2s' = Append(c2s, chunk)
  /\ chunks' = chunks + 1
  /\ UNCHANGED <<loading, signal, sockets, users, queue, conn, out, taken, fault>>

ClientReads ==
  /\ conn = "live"
  /\ taken < Len(out)
  /\ taken' = taken + 1
  /\ UNCHANGED <<loading, signal, sockets, users, queue, conn, c2s, chunks, out, fault>>

ClientCloses ==
  /\ conn = "live"
  /\ conn' = "gone"
  /\ UNCHANGED <<loading, signal, sockets, users, queue, c2s, chunks, out, taken, fault>>

ClientStep == Connect \/ ClientSends \/ ClientReads \/ ClientCloses

Next ==
  \/ /\ fault = "none"
     /\ \/ Listen \/ ListenFails \/ ModuleStep \/ ExitClient \/ Interrupt
        \/ \E u \in User : UserStep(u)
        \/ ClientStep
  \/ fault # "none" /\ UNCHANGED vars

Spec == Init /\ [][Next]_vars

\* The process that loads or unloads runs while it can, and the client reads what it
\* is sent.
FairSpec ==
  /\ Spec
  /\ WF_vars(fault = "none" /\ ModuleStep)
  /\ WF_vars(fault = "none" /\ ClientReads)

-----------------------------------------------------------------------------
(* Properties *)

InitSteps == {"netlink", "accept", "accepting", "check", "recv", "tell", "open", "part"}
Session == {"check", "recv", "tell", "open", "part"}
Tokens == [kind : {"echo", "part", "user"}, chunk : Nat, part : Nat]

\* Domains; the sockets the module has at each step.
TypeOK ==
  /\ pc \in InitSteps \cup Unloading \cup {"absent", "loaded"}
  /\ asks \in BOOLEAN /\ pos \in 0..FileParts /\ signal \in BOOLEAN
  /\ listener \in {"none", "mine", "lost"}
  /\ netlink \in {"none", "mine", "lost"}
  /\ client \in {"NULL", "embryo", "connected", "released"}
  /\ upc \in [User -> {"none", "open", "call", "send"}]
  /\ messages \in Nat /\ queue \in Nat /\ chunks \in Nat /\ taken \in Nat /\ received \in Nat
  /\ conn \in {"none", "live", "gone"}
  /\ c2s \in Seq({"line", "request", "short"})
  /\ out \in Seq(Tokens)
  /\ failed \in BOOLEAN
  /\ fault \in {"none", "loop", "callback", "gone"}

\* From accept to the end of exit, netlink_receive never uses a client_socket that
\* is not connected, and never runs when the module is gone, however users, init and
\* exit interleave and whatever becomes of the client: it does so only before a
\* client was accepted, or after a load that failed (chat3/server.c:184).
SafeOnceAccepted ==
  /\ fault = "callback" => pc \in {"accept", "accepting"}
  /\ fault = "gone" => failed

\* Only a load that fails leaves a socket behind (:216, :222).  One that returned 0 is
\* unloaded without leaving any.
LeftByFailure ==
  pc = "absent" =>
    /\ listener = "lost" \/ netlink = "lost" => failed
    /\ listener # "mine" /\ netlink # "mine" /\ client # "connected"

\* The messages of users come anywhere in what the client receives, also between the
\* parts of a file (:184).  The rest keeps its order: what comes of a chunk comes
\* after what came of the chunks before, its echo before its file, the parts of a
\* file in order and each once.
Before(s, t) ==
  \/ s.chunk < t.chunk
  \/ s.chunk = t.chunk /\ s.kind = "echo" /\ t.kind = "part"
  \/ s.chunk = t.chunk /\ s.kind = "part" /\ t.kind = "part" /\ s.part < t.part
OutInOrder ==
  \A i, j \in 1..Len(out) :
    (i < j /\ out[i].kind # "user" /\ out[j].kind # "user") => Before(out[i], out[j])

\* As long as the loop goes on, what the client sends is received, although
\* users send to the same socket, files fail and the client may leave.
Heard ==
  (c2s # <<>> /\ pc \in Session)
    ~> (c2s = <<>> \/ pc \notin Session \/ fault # "none")
===============================================================================
