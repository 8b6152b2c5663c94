---------------------------- MODULE ServerSockets ----------------------------
(***************************************************************************)
(* The life cycle of the two sockets of src/chat2/chatserver.c.            *)
(*                                                                         *)
(* System call 451 (SYSCALL_DEFINE2(server, ...)) keeps its listening and  *)
(* its connected socket in two static variables, server_socket and         *)
(* client_socket, with no lock: every process that makes the call (each    *)
(* run of src/chat2/chat.c) works on the same two pointers.  A step of     *)
(* this module is one access of one invocation to the shared state: a call *)
(* into the socket layer, or one assignment to a static pointer.           *)
(*                                                                         *)
(* A socket is a slot of the allocator: its kind says what the slot holds. *)
(*   free       not allocated                                              *)
(*   new        created, not bound (sock_create_kern)                      *)
(*   bound      bound to `port'                                            *)
(*   listening  listening on `port'                                        *)
(*   stray      listening on an ephemeral port: kernel_listen binds a      *)
(*              socket that nobody bound before                            *)
(*   embryo     allocated by kernel_accept, which fills in `ops' only once *)
(*              a connection has arrived                                   *)
(*   conn       a connection                                               *)
(* An access through NULL, through a released socket, or through the ops   *)
(* of an embryo has no defined outcome; the model stops at the first one   *)
(* (pc = "crashed").                                                       *)
(***************************************************************************)
EXTENDS FiniteSets

CONSTANTS Proc,   \* processes that make system call 451
          Sock,   \* socket slots; creation fails when none is left (a bound)
          NULL    \* the null pointer

ASSUME NullAssumption == NULL \notin Sock

VARIABLES server_socket,  \* static struct socket *server_socket
          client_socket,  \* static struct socket *client_socket
          kind,           \* what each socket slot holds
          pc,             \* where each invocation is
          lsk,            \* listener a blocked kernel_accept works on
          nsk,            \* socket a blocked kernel_accept or recvmsg works on
          overlap,        \* history: two invocations overlapped since all were idle
          lost            \* history: sockets in use when all were last idle

pointers == <<server_socket, client_socket>>
blocked  == <<lsk, nsk>>
history  == <<overlap, lost>>
vars == <<server_socket, client_socket, kind, pc, lsk, nsk, overlap, lost>>

Kinds == {"free", "new", "bound", "listening", "stray", "embryo", "conn"}

Loop == {"enter", "accept", "peer", "deny", "session", "recv", "reply",
         "release", "releaseNull"}
Steps == {"idle", "create", "bind", "listen", "undo", "undoNull", "copyIp",
          "exitServer", "exitServerNull", "exitClient", "exitClientNull",
          "crashed"} \cup Loop

PortTaken == \E s \in Sock : kind[s] \in {"bound", "listening"}

InUse == {s \in Sock : kind[s] # "free"}

\* Passing this pointer to sock_release is undefined.
Invalid(ptr) == ptr \notin InUse

\* A call through ptr->ops is undefined.
NoOps(ptr) == ptr \notin {s \in InUse : kind[s] # "embryo"}

Idle(p) == pc[p] = "idle"
Quiescent == \A p \in Proc : Idle(p)
AloneInCall(p) == \A q \in Proc \ {p} : Idle(q)

-----------------------------------------------------------------------------
Init ==
  /\ server_socket = NULL
  /\ client_socket = NULL
  /\ kind = [s \in Sock |-> "free"]
  /\ pc = [p \in Proc |-> "idle"]
  /\ lsk = [p \in Proc |-> NULL]
  /\ nsk = [p \in Proc |-> NULL]
  /\ overlap = FALSE
  /\ lost = {}

GoTo(p, step) == pc' = [pc EXCEPT ![p] = step]

\* The invocation returns; when it was the last one running, a new epoch
\* begins, and whatever is still allocated then is lost.
Return(p) ==
  /\ GoTo(p, "idle")
  /\ IF AloneInCall(p)
       THEN overlap' = FALSE /\ lost' = {s \in Sock : kind'[s] # "free"}
       ELSE UNCHANGED history

\* A process makes system call 451.
Call(p) ==
  /\ Idle(p)
  /\ GoTo(p, "create")
  /\ overlap' = (overlap \/ ~AloneInCall(p))
  /\ UNCHANGED <<pointers, kind, blocked, lost>>

-----------------------------------------------------------------------------
(* create_server_socket *)

CreateOk(p) ==
  /\ pc[p] = "create"
  /\ \E s \in Sock :
       /\ kind[s] = "free"
       /\ kind' = [kind EXCEPT ![s] = "new"]
       /\ server_socket' = s
  /\ GoTo(p, "bind")
  /\ UNCHANGED <<client_socket, blocked, history>>

CreateFail(p) ==
  /\ pc[p] = "create"
  /\ UNCHANGED <<pointers, kind, blocked>>
  /\ Return(p)

BindOk(p) ==
  /\ pc[p] = "bind"
  /\ ~NoOps(server_socket)
  /\ kind[server_socket] = "new"
  /\ ~PortTaken
  /\ kind' = [kind EXCEPT ![server_socket] = "bound"]
  /\ GoTo(p, "listen")
  /\ UNCHANGED <<pointers, blocked, history>>

ListenOk(p) ==
  /\ pc[p] = "listen"
  /\ ~NoOps(server_socket)
  /\ kind[server_socket] \in {"new", "bound", "listening", "stray"}
  /\ kind' = [kind EXCEPT ![server_socket] =
                IF @ \in {"bound", "listening"} THEN "listening" ELSE "stray"]
  /\ GoTo(p, "copyIp")
  /\ UNCHANGED <<pointers, blocked, history>>

\* Either call may fail at any time: the port is in use or still in
\* TIME_WAIT, the socket is bound already, memory is short.
SetupFail(p) ==
  /\ pc[p] \in {"bind", "listen"}
  /\ ~NoOps(server_socket)
  /\ GoTo(p, "undo")
  /\ UNCHANGED <<pointers, kind, blocked, history>>

Undo(p) ==
  /\ pc[p] = "undo"
  /\ ~Invalid(server_socket)
  /\ kind' = [kind EXCEPT ![server_socket] = "free"]
  /\ GoTo(p, "undoNull")
  /\ UNCHANGED <<pointers, blocked, history>>

\* Mutant of UndoNull: the pointer is left holding the error code.
UndoKeepsError(p) ==
  /\ pc[p] = "undoNull"
  /\ server_socket' = "error"
  /\ UNCHANGED <<client_socket, kind, blocked>>
  /\ Return(p)

UndoNull(p) ==
  /\ pc[p] = "undoNull"
  /\ server_socket' = NULL
  /\ UNCHANGED <<client_socket, kind, blocked>>
  /\ Return(p)

-----------------------------------------------------------------------------
(* The accept loop *)

CopyIpOk(p) ==
  /\ pc[p] = "copyIp"
  /\ GoTo(p, "enter")
  /\ UNCHANGED <<pointers, kind, blocked, history>>

\* return -EFAULT, after tcp_socket_exit
CopyIpFail(p) ==
  /\ pc[p] = "copyIp"
  /\ GoTo(p, "exitServer")
  /\ UNCHANGED <<pointers, kind, blocked, history>>

\* kernel_accept on a listener: it stores the new socket in client_socket at
\* once and then waits for a connection.
AcceptEnter(p) ==
  /\ pc[p] = "enter"
  /\ ~NoOps(server_socket)
  /\ kind[server_socket] \in {"listening", "stray"}
  /\ \E s \in Sock :
       /\ kind[s] = "free"
       /\ kind' = [kind EXCEPT ![s] = "embryo"]
       /\ client_socket' = s
       /\ nsk' = [nsk EXCEPT ![p] = s]
  /\ lsk' = [lsk EXCEPT ![p] = server_socket]
  /\ GoTo(p, "accept")
  /\ UNCHANGED <<server_socket, history>>

\* kernel_accept fails before it waits: no memory for the new socket, or
\* server_socket does not listen.
AcceptRefused(p) ==
  /\ pc[p] = "enter"
  /\ ~NoOps(server_socket)
  /\ client_socket' = NULL
  /\ GoTo(p, "exitServer")
  /\ UNCHANGED <<server_socket, kind, blocked, history>>

AcceptSafe(p) ==
  /\ pc[p] = "accept"
  /\ ~Invalid(lsk[p])
  /\ ~Invalid(nsk[p])
  /\ ~Invalid(client_socket)

\* The connection is attached to the socket allocated on entry; ops are
\* filled in through client_socket as it is now.
AcceptOk(p) ==
  /\ AcceptSafe(p)
  /\ kind' = IF client_socket = nsk[p]
               THEN [kind EXCEPT ![client_socket] = "conn"]
               ELSE kind
  /\ GoTo(p, "peer")
  /\ UNCHANGED <<pointers, blocked, history>>

\* The wait fails (a signal): kernel_accept releases *newsock, which is
\* client_socket as it is now, and clears it.
AcceptFail(p) ==
  /\ AcceptSafe(p)
  /\ kind' = [kind EXCEPT ![client_socket] = "free"]
  /\ client_socket' = NULL
  /\ GoTo(p, "exitServer")
  /\ UNCHANGED <<server_socket, blocked, history>>

\* The peer is the one allowed address.
PeerAllowed(p) ==
  /\ pc[p] = "peer"
  /\ ~NoOps(client_socket)
  /\ kind[client_socket] = "conn"
  /\ GoTo(p, "session")
  /\ UNCHANGED <<pointers, kind, blocked, history>>

\* kernel_getpeername fails, or the address is another one.
PeerRefused(p) ==
  /\ pc[p] = "peer"
  /\ ~NoOps(client_socket)
  /\ GoTo(p, "deny")
  /\ UNCHANGED <<pointers, kind, blocked, history>>

\* Mutant of Deny: `break' for `continue' after the release.
DenyBreaks(p) ==
  /\ pc[p] = "deny"
  /\ ~Invalid(client_socket)
  /\ kind' = [kind EXCEPT ![client_socket] = "free"]
  /\ GoTo(p, "release")
  /\ UNCHANGED <<pointers, blocked, history>>

\* Mutant of Deny: the denied client's socket is not released.
DenyKeeps(p) ==
  /\ pc[p] = "deny"
  /\ ~Invalid(client_socket)
  /\ GoTo(p, "enter")
  /\ UNCHANGED <<pointers, kind, blocked, history>>

\* Mutant of Deny: the wrong socket is released.
DenyServer(p) ==
  /\ pc[p] = "deny"
  /\ ~Invalid(client_socket)
  /\ kind' = [kind EXCEPT ![server_socket] = "free"]
  /\ GoTo(p, "enter")
  /\ UNCHANGED <<pointers, blocked, history>>

\* sock_release without clearing client_socket
Deny(p) ==
  /\ pc[p] = "deny"
  /\ ~Invalid(client_socket)
  /\ kind' = [kind EXCEPT ![client_socket] = "free"]
  /\ GoTo(p, "enter")
  /\ UNCHANGED <<pointers, blocked, history>>

-----------------------------------------------------------------------------
(* The session with an accepted client, and its end *)

RecvEnter(p) ==
  /\ pc[p] = "session"
  /\ ~NoOps(client_socket)
  /\ nsk' = [nsk EXCEPT ![p] = client_socket]
  /\ GoTo(p, "recv")
  /\ UNCHANGED <<pointers, kind, lsk, history>>

RecvOk(p) ==
  /\ pc[p] = "recv"
  /\ ~NoOps(nsk[p])
  /\ kind[nsk[p]] = "conn"
  /\ GoTo(p, "reply")
  /\ UNCHANGED <<pointers, kind, blocked, history>>

\* receive_message or copy_from_user fails
RecvFail(p) ==
  /\ pc[p] = "recv"
  /\ ~NoOps(nsk[p])
  /\ GoTo(p, "release")
  /\ UNCHANGED <<pointers, kind, blocked, history>>

\* One send_message to client_socket: the reply, a piece of a file or the
\* greeting; more may follow, or the next receive, or the end of the session.
Send(p) ==
  /\ pc[p] = "reply"
  /\ ~NoOps(client_socket)
  /\ \/ GoTo(p, "reply")
     \/ GoTo(p, "session")
     \/ GoTo(p, "release")
  /\ UNCHANGED <<pointers, kind, blocked, history>>

\* if (client_socket) sock_release(client_socket)
Release(p) ==
  /\ pc[p] = "release"
  /\ IF client_socket = NULL
       THEN GoTo(p, "enter") /\ UNCHANGED kind
       ELSE /\ kind[client_socket] # "free"
            /\ kind' = [kind EXCEPT ![client_socket] = "free"]
            /\ GoTo(p, "releaseNull")
  /\ UNCHANGED <<pointers, blocked, history>>

ReleaseNull(p) ==
  /\ pc[p] = "releaseNull"
  /\ client_socket' = NULL
  /\ GoTo(p, "enter")
  /\ UNCHANGED <<server_socket, kind, blocked, history>>

-----------------------------------------------------------------------------
(* tcp_socket_exit *)

ExitServer(p) ==
  /\ pc[p] = "exitServer"
  /\ IF server_socket = NULL
       THEN GoTo(p, "exitClient") /\ UNCHANGED kind
       ELSE /\ kind[server_socket] # "free"
            /\ kind' = [kind EXCEPT ![server_socket] = "free"]
            /\ GoTo(p, "exitServerNull")
  /\ UNCHANGED <<pointers, blocked, history>>

\* Mutant of ExitServerNull: the static pointer is not cleared.
ExitServerKeeps(p) ==
  /\ pc[p] = "exitServerNull"
  /\ GoTo(p, "exitClient")
  /\ UNCHANGED <<pointers, kind, blocked, history>>

ExitServerNull(p) ==
  /\ pc[p] = "exitServerNull"
  /\ server_socket' = NULL
  /\ GoTo(p, "exitClient")
  /\ UNCHANGED <<client_socket, kind, blocked, history>>

ExitClient(p) ==
  /\ pc[p] = "exitClient"
  /\ IF client_socket = NULL
       THEN UNCHANGED kind /\ Return(p)
       ELSE /\ kind[client_socket] # "free"
            /\ kind' = [kind EXCEPT ![client_socket] = "free"]
            /\ GoTo(p, "exitClientNull")
            /\ UNCHANGED history
  /\ UNCHANGED <<pointers, blocked>>

ExitClientNull(p) ==
  /\ pc[p] = "exitClientNull"
  /\ client_socket' = NULL
  /\ UNCHANGED <<server_socket, kind, blocked>>
  /\ Return(p)

-----------------------------------------------------------------------------
\* The next access of p goes through a pointer that is not valid for it.
Dangles(p) ==
  \/ pc[p] \in {"bind", "listen", "enter"} /\ NoOps(server_socket)
  \/ pc[p] = "undo" /\ Invalid(server_socket)
  \/ pc[p] = "accept" /\ ~AcceptSafe(p)
  \/ pc[p] \in {"peer", "session", "reply"} /\ NoOps(client_socket)
  \/ pc[p] = "recv" /\ NoOps(nsk[p])
  \/ pc[p] = "deny" /\ Invalid(client_socket)
  \/ pc[p] = "exitServer" /\ server_socket # NULL /\ Invalid(server_socket)
  \/ pc[p] \in {"release", "exitClient"}
       /\ client_socket # NULL /\ Invalid(client_socket)

Crash(p) ==
  /\ Dangles(p)
  /\ GoTo(p, "crashed")
  /\ UNCHANGED <<pointers, kind, blocked, history>>

Crashed == \E p \in Proc : pc[p] = "crashed"

Setup(p) == CreateOk(p) \/ CreateFail(p) \/ BindOk(p) \/ ListenOk(p)
              \/ SetupFail(p) \/ Undo(p) \/ UndoNull(p)
Accepting(p) == CopyIpOk(p) \/ CopyIpFail(p) \/ AcceptEnter(p)
              \/ AcceptRefused(p) \/ AcceptOk(p) \/ AcceptFail(p)
              \/ PeerAllowed(p) \/ PeerRefused(p) \/ Deny(p)
Serving(p) == RecvEnter(p) \/ RecvOk(p) \/ RecvFail(p) \/ Send(p)
              \/ Release(p) \/ ReleaseNull(p)
Exiting(p) == ExitServer(p) \/ ExitServerNull(p) \/ ExitClient(p)
              \/ ExitClientNull(p)

\* What happens after an undefined access is not modelled.
Halt == Crashed /\ UNCHANGED vars

Next ==
  \/ /\ ~Crashed
     /\ \E p \in Proc : \/ Call(p) \/ Setup(p) \/ Accepting(p)
                        \/ Serving(p) \/ Exiting(p) \/ Crash(p)
  \/ Halt

Spec == Init /\ [][Next]_vars

-----------------------------------------------------------------------------
(* Properties *)

\* The pointers, the slots and the invocations stay in their domains.
TypeOK ==
  /\ server_socket \in Sock \cup {NULL}
  /\ client_socket \in Sock \cup {NULL}
  /\ kind \in [Sock -> Kinds]
  /\ pc \in [Proc -> Steps]
  /\ lsk \in [Proc -> Sock \cup {NULL}]
  /\ nsk \in [Proc -> Sock \cup {NULL}]
  /\ overlap \in BOOLEAN
  /\ lost \in SUBSET Sock

\* An invocation that has overlapped no other never uses a pointer that is
\* NULL or released, on any path: not after the release in create_server_socket,
\* not after the one on the denied path, which leaves client_socket dangling
\* (chatserver.c:199, :209), not in tcp_socket_exit.  This holds even when an
\* earlier overlap has left sockets behind.
CrashNeedsOverlap == Crashed => overlap

\* When no invocation runs, both static pointers are NULL again: the next one
\* starts as the first did.  This holds whatever the invocations interleaved.
QuiescentPointers ==
  Quiescent => server_socket = NULL /\ client_socket = NULL

\* Without overlap every socket in use is the listener, the client's, or was
\* lost in an earlier epoch: at most one client is connected at a time, and no
\* path through the loop, the denied and failing ones included, leaks a socket.
Accounted == ~overlap => InUse \subseteq lost \cup {server_socket, client_socket}

\* Without overlap the listener stays the same usable socket, on the port, for
\* the whole loop.
SoloListens ==
  ~overlap => \A p \in Proc :
     pc[p] \in Loop => server_socket # NULL /\ kind[server_socket] = "listening"

-----------------------------------------------------------------------------
(* The inductive invariant behind the properties above. *)

\* A static pointer is set only while some invocation is at a step from which
\* it will clear it.
ServerHolders == {"bind", "listen", "undo", "undoNull", "copyIp", "exitServer",
                  "exitServerNull", "crashed"} \cup Loop
ClientHolders == {"exitServer", "exitServerNull", "exitClient",
                  "exitClientNull", "crashed"} \cup Loop
ServerHeld == server_socket # NULL => \E p \in Proc : pc[p] \in ServerHolders
ClientHeld == client_socket # NULL => \E p \in Proc : pc[p] \in ClientHolders

\* What a lone invocation knows about the two sockets at each step.
SoloServer(p) ==
  /\ pc[p] \in ServerHolders => server_socket \in Sock
  /\ pc[p] \in {"create", "exitClient"} => server_socket = NULL
  /\ pc[p] = "bind" => kind[server_socket] = "new"
  /\ pc[p] = "listen" => kind[server_socket] = "bound"
  /\ pc[p] = "undo" => kind[server_socket] \in {"new", "bound"}
  /\ pc[p] \in {"copyIp", "exitServer"} \cup Loop => kind[server_socket] = "listening"
  /\ pc[p] \in {"undoNull", "exitServerNull"} => kind[server_socket] = "free"
SoloClient(p) ==
  /\ pc[p] \in Steps \ Loop => client_socket = NULL
  /\ pc[p] = "enter" /\ client_socket # NULL => kind[client_socket] = "free"
  /\ pc[p] \in Loop \ {"enter"} => client_socket \in Sock
  /\ pc[p] = "accept" => /\ kind[client_socket] = "embryo"
                         /\ nsk[p] = client_socket
                         /\ lsk[p] = server_socket
  /\ pc[p] \in {"peer", "deny", "session", "recv", "reply", "release"}
       => kind[client_socket] = "conn"
  /\ pc[p] = "recv" => nsk[p] = client_socket
  /\ pc[p] = "releaseNull" => kind[client_socket] = "free"

Solo ==
  /\ \A p, q \in Proc : ~Idle(p) /\ ~Idle(q) => p = q
  /\ \A p \in Proc : pc[p] \notin {"crashed", "exitClientNull"}
  /\ \A p \in Proc : ~Idle(p) => SoloServer(p) /\ SoloClient(p)
  /\ InUse \subseteq lost \cup {server_socket, client_socket}

IInv == TypeOK /\ ServerHeld /\ ClientHeld /\ (~overlap => Solo)

-----------------------------------------------------------------------------
(* What the report says of this code, and the code does not do. *)

\* Once every invocation has returned, the server socket is closed: nobody
\* holds the port (readme.md:265).
PortFreed == Quiescent => ~PortTaken
=============================================================================
