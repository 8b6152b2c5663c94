----------------------------- MODULE ModuleServer -----------------------------
(***************************************************************************)
(* The chat server as a loadable module (src/chat2/chat_server_module.c),  *)
(* and clients of src/cl2/cl2.c.  TCP, the clients and the variables are   *)
(* those of ChatSession; the process that loads the module takes the place *)
(* of the process in the system call.  This server                         *)
(*   - clears is_file_request for each client, and takes every client;     *)
(*   - answers a line with that line and '!', and a file request with the  *)
(*     file only;                                                          *)
(*   - looks at the result of every send;                                  *)
(*   - does not close when its loop ends: init returns 0, the module counts *)
(*     as loaded, and connections are completed and not accepted until it  *)
(*     is unloaded.                                                        *)
(*                                                                         *)
(* spc = "off": the module is not loaded; spc = "exit": init has returned. *)
(* The port, a parameter of the module, is the one cl2 connects to.        *)
(***************************************************************************)
EXTENDS ChatSession, Integers

VARIABLES
  bytes_received, \* what the last recv returned
  \* history
  said,           \* cells each client sent, in order
  echoed,         \* cells echoed to each client, in order
  served          \* clients a file was sent to in this connection

history == <<said, echoed, served>>
modVars == <<vars, bytes_received, history>>

EchoToken == [kind |-> "echo"]

\* The module has just made its socket.
ModInit ==
  /\ Init
  /\ bytes_received = 0
  /\ said = [c \in Client |-> <<>>]
  /\ echoed = [c \in Client |-> <<>>]
  /\ served = {}

-----------------------------------------------------------------------------
(* tcp_socket_init *)

\* create_server_socket succeeds; when it fails it leaves nothing.  The buffer
\* is whatever the stack holds.
Load ==
  /\ spc = "off"
  /\ spc' = "accept"
  /\ buffer' \in InitBuffers
  /\ is_file_request' = FALSE /\ filename' = <<>> /\ pos' = 0
  /\ signal' = "none"
  /\ UNCHANGED <<cur, network, clients, bytes_received, history>>

\* Mutant of ModAccept: is_file_request is not reset.
ModAcceptKeepsFlag ==
  /\ spc = "accept"
  /\ queue # <<>>
  /\ cur' = Head(queue) /\ queue' = Tail(queue)
  /\ spc' = "recv"
  /\ UNCHANGED <<buffer, is_file_request, filename, pos, signal, link, c2s, s2c, clients,
                 bytes_received, history>>

ModAccept ==
  /\ spc = "accept"
  /\ queue # <<>>
  /\ cur' = Head(queue) /\ queue' = Tail(queue)
  /\ is_file_request' = FALSE
  /\ spc' = "recv"
  /\ UNCHANGED <<buffer, filename, pos, signal, link, c2s, s2c, clients,
                 bytes_received, history>>

\* Mutant of AcceptBreaks: `continue' for `break'.
AcceptContinues ==
  /\ AcceptRetries
  /\ UNCHANGED <<bytes_received, history>>

\* kernel_accept is interrupted, and init returns 0.
AcceptBreaks ==
  /\ AcceptInterrupted
  /\ UNCHANGED <<bytes_received, history>>

\* What is done with a message of n cells, with buf in the buffer.
Dispatch(buf, n) ==
  /\ bytes_received' = n
  /\ spc' = IF IsRequest(buf) THEN "open"
            ELSE IF is_file_request THEN "greet" ELSE "echo"
  /\ filename' = IF IsRequest(buf) THEN NameIn(buf) ELSE filename

ModReceive ==
  /\ spc = "recv"
  /\ \E n \in 1..Len(c2s[cur]) :
       /\ n <= BufLen
       /\ buffer' = Overwrite(buffer, SubSeq(c2s[cur], 1, n))
       /\ c2s' = [c2s EXCEPT ![cur] = SubSeq(@, n + 1, Len(@))]
       /\ Dispatch(buffer', n)
  /\ UNCHANGED <<cur, is_file_request, pos, signal, queue, link, s2c, clients, history>>

\* The end of the stream is taken for a message of length 0.
ModReceiveEnd ==
  /\ spc = "recv"
  /\ c2s[cur] = <<>>
  /\ link[cur] \in {"fin", "doomed", "dead"}
  /\ Dispatch(buffer, 0)
  /\ UNCHANGED <<cur, buffer, is_file_request, pos, signal, network, clients, history>>

\* Mutant of ModReceiveFails: the error -1 is taken for a length.
ReceiveErrorTaken ==
  /\ spc = "recv"
  /\ c2s[cur] = <<>>
  /\ link[cur] = "reset" \/ (link[cur] = "live" /\ signal # "none")
  /\ Dispatch(buffer, -1)
  /\ UNCHANGED <<cur, buffer, is_file_request, pos, signal, network, clients, history>>

ModReceiveFails ==
  /\ ReceiveFails
  /\ UNCHANGED <<bytes_received, history>>

\* send_file, as in chatserver.c
ModOpenFile == OpenFile /\ UNCHANGED <<bytes_received, history>>
ModSendPart == SendPart /\ UNCHANGED <<bytes_received, history>>
ModFileEnds ==
  /\ FileEnds
  /\ served' = served \cup {cur}
  /\ UNCHANGED <<bytes_received, said, echoed>>

ModGreet == Greet /\ UNCHANGED <<bytes_received, history>>

\* strncpy copies the data up to a '\0' and pads with '\0'.
Modified(data) ==
  [i \in 1..Len(data) |-> IF \E j \in 1..i : data[j] = NUL THEN NUL ELSE data[i]]

\* The '\0' after the '!' of a message that fills the buffer is written behind
\* modified_message: nothing, or the first cell of the buffer, changes.
Overrun ==
  IF bytes_received = BufLen
    THEN buffer' \in {buffer, [buffer EXCEPT ![1] = NUL]}
    ELSE UNCHANGED buffer

\* Mutant of Echo: the buffer is taken for a string.
EchoString ==
  /\ spc = "echo"
  /\ \/ /\ Sends(EchoToken)
        /\ spc' = "recv"
        /\ echoed' = [echoed EXCEPT ![cur] = @ \o SelectSeq(buffer, LAMBDA x : x # NUL)]
     \/ SendFails /\ spc' = "release" /\ UNCHANGED echoed
  /\ Overrun
  /\ UNCHANGED <<cur, is_file_request, filename, pos, clients, bytes_received, said, served>>

\* Mutant of Echo: a failed send does not end the session.
EchoUnchecked ==
  /\ spc = "echo"
  /\ Sends(EchoToken) \/ SendFails
  /\ spc' = "recv"
  /\ Overrun
  /\ UNCHANGED <<cur, is_file_request, filename, pos, clients, bytes_received, history>>

Echo ==
  /\ spc = "echo"
  /\ \/ /\ Sends(EchoToken)
        /\ spc' = "recv"
        /\ echoed' = [echoed EXCEPT ![cur] = @ \o Modified(SubSeq(buffer, 1, bytes_received))]
     \/ SendFails /\ spc' = "release" /\ UNCHANGED echoed
  /\ Overrun
  /\ UNCHANGED <<cur, is_file_request, filename, pos, clients, bytes_received, said, served>>

\* Mutant of ModRelease: client_socket = NULL without sock_release.
ModReleaseLeaks == ReleaseLeaks /\ UNCHANGED <<bytes_received, history>>

ModRelease == ReleaseClient /\ UNCHANGED <<bytes_received, history>>

InitStep ==
  \/ ModAccept \/ AcceptBreaks \/ ModReceive \/ ModReceiveEnd \/ ModReceiveFails
  \/ ModOpenFile \/ ModSendPart \/ ModFileEnds \/ ModGreet \/ Echo \/ ModRelease

\* tcp_socket_exit, once init has returned.
Unload == Exit /\ UNCHANGED <<bytes_received, history>>

\* A signal for the process that loads the module.
ModInterrupt ==
  /\ spc # "exit"
  /\ Interrupt
  /\ UNCHANGED <<bytes_received, history>>

\* A step of client c; what it sends is added to what it has said.
ModClientStep(c) ==
  /\ RstArrives(c) \/ ClientStep(c)
  /\ said' = [said EXCEPT ![c] = @ \o SubSeq(c2s'[c], Len(c2s[c]) + 1, Len(c2s'[c]))]
  /\ UNCHANGED <<bytes_received, echoed, served>>

ModNext ==
  \/ Load \/ InitStep \/ Unload \/ ModInterrupt
  \/ \E c \in Client : ModClientStep(c)

ModSpec == ModInit /\ [][ModNext]_modVars

\* The loading process runs while it can, clients and network as in ChatSession,
\* and users leave.
ModFairSpec ==
  /\ ModSpec
  /\ WF_modVars(InitStep)
  /\ \A c \in Client :
       /\ WF_modVars(Connect(c) /\ ModClientStep(c))
       /\ WF_modVars(ReceiveMessage(c) /\ ModClientStep(c))
       /\ WF_modVars(ReceiveFile(c) /\ ModClientStep(c))
       /\ WF_modVars(RstArrives(c) /\ ModClientStep(c))
       /\ WF_modVars(Quit(c) /\ ModClientStep(c))
       /\ WF_modVars(KillReceiver(c) /\ ModClientStep(c))

-----------------------------------------------------------------------------
(* Properties *)

ModTokens == Tokens \cup {EchoToken}

\* Domains; bytes_received is at most the size of the buffer, and the file that is
\* sent has a name that fits filename.
ModTypeOK ==
  /\ spc \in (ServerSteps \cup {"echo"}) \ {"check", "copy", "reply"}
  /\ cur \in Client \cup {NoOne}
  /\ buffer \in [1..BufLen -> Cell]
  /\ is_file_request \in BOOLEAN
  /\ filename \in BoundedSeq(Cell \ {NUL}, NameLen)
  /\ pos \in Nat
  /\ signal \in {"none", "int", "pipe"}
  /\ queue \in BoundedSeq(Client, Backlog + 1)
  /\ link \in [Client -> LinkStates]
  /\ c2s \in [Client -> Seq(Cell \ {NUL})]
  /\ s2c \in [Client -> BoundedSeq(ModTokens, SndCap)]
  /\ cpc \in [Client -> ClientSteps]
  /\ typed \in [Client -> 0..MaxLines]
  /\ got \in [Client -> Seq(ModTokens)]
  /\ bytes_received \in 0..BufLen
  /\ said \in [Client -> Seq(Cell \ {NUL})] /\ echoed \in [Client -> Seq(Cell)]
  /\ served \subseteq Client

\* The elements of s are found in t, in this order: the i-th of s at place[i].
IsSubsequence(s, t) ==
  \E place \in [1..Len(s) -> 1..Len(t)] :
    /\ \A i, j \in 1..Len(s) : i < j => place[i] < place[j]
    /\ \A i \in 1..Len(s) : s[i] = t[place[i]]

\* What is echoed to a client is made of what it sent itself, in order and nothing
\* twice: never of what an earlier message or client left in the buffer, although
\* the stream is cut anywhere, the buffer is never cleared and the end of the copy
\* is written behind its array (chat_server_module.c:214, :216).
EchoesOwn == \A c \in Client : IsSubsequence(echoed[c], said[c])

\* The greeting goes only to a client that a file was sent to on the same connection,
\* whatever the clients before it did (:172, :198).
GreetsServed ==
  \A c \in Client : HelloToken \in ToSet(s2c[c]) \cup ToSet(got[c]) => c \in served

\* When the module is unloaded, no connection is left open, neither one that was
\* served nor one that init did not accept any more (:167, :237).
UnloadedClosed ==
  spc = "off" =>
    cur = NoOne /\ \A c \in Client : link[c] \in {"none", "released", "aborted", "closed"}

\* A client that waits for the answer to its line gets one or sees the end of the
\* connection, unless the loop has ended: then it waits until the module
\* is unloaded, as nobody accepts its connection (:167).  It also waits while the
\* loop goes on serving a client that has left (ServesNobody).
AnsweredOrQueued ==
  \A c \in Client : cpc[c] = "recvmsg" ~>
    \/ cpc[c] # "recvmsg"
    \/ spc = "exit" /\ c \in ToSet(queue)
    \/ ServesNobody

\* The session with a client that has left ends, although the end of the stream is
\* not seen: the answers to it fail in the end (:177, :220).  Only where there is nothing
\* to send, for a request for a file that yields nothing, none fails (:136-148).
GoneReleased ==
  \A c \in Client :
    (cur = c /\ link[c] \in {"fin", "doomed", "reset", "dead"})
      ~> (cur # c \/ ServesNobody)

\* A pending signal makes init return from any step, with the same exception: that loop
\* neither waits nor sends, and insmod cannot be killed (:174-196).
LoopEnds == (signal # "none") ~> (spc \in {"exit", "off"} \/ ServesNobody)
===============================================================================
