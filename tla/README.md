# A TLA+ model of the chat and file server in the kernel

This directory holds a formal model of the programs in `src/`: TLA+ modules
translated from the C code, TLC configurations that check them on small
instances, and proofs checked by TLAPS. References such as `chatserver.c:189`
are to `src/chat2/chatserver.c`, `cl2.c` to `src/cl2/cl2.c`, `server2.c` to
`src/netlink/server2.c`, `udp.c` to `src/udp/udp.c`, `client.c` to
`src/client/client.c`, `chat3/server.c` and `chat_server_module.c` to the files of
that name, and `readme.md` to `src/readme.md`. `src/udp.c` and `src/server.c` are
copies of `udp/udp.c` and `chat3/server.c`.

## 1. The system

The repository contains several small programs around Linux sockets: a chat and
file server that runs as a system call, the same as a loadable module, a variant
with a netlink socket, a client in the kernel, a UDP server thread in the kernel,
and a gateway between UDP clients and a netlink module.

| part | source | state it keeps | operations |
|---|---|---|---|
| chat server, system call 451 | `chat2/chatserver.c`, started by `chat2/chat.c` | the static pointers `server_socket`, `client_socket`; per call `buffer`, `is_file_request`, `filename` | create, bind and listen; accept, check the peer's address, receive, answer, send a file, greet, release; exit |
| its client | `cl2/cl2.c` | the socket, `buffer`, the file being written | connect, read a line, send, receive an answer, receive a file, close |
| gateway | `netlink/server2.c` | two sockets, `buff_rcv`, `client_addr`, `buff_send`, the error messages | receive a datagram, verify it, pass it to a kernel module, wait for the module's answer, answer the client |
| server as a module | `chat2/chat_server_module.c` | as the chat server, `is_file_request` per connection, `bytes_received` | as the chat server, but answers a line with the line and `!`; load, unload |
| netlink chat module | `chat3/server.c` | `server_socket`, `client_socket`, `netlink_socket`, the buffer | load with a session in the init function, a netlink callback that sends to the client, unload |
| kernel client | `client/client.c` | `client_socket`, the file and `offset` | connect, send, receive, receive a file, release; unload |
| UDP kernel thread | `udp/udp.c` | `kthread`: thread, socket, `running` | start the thread, make and bind a socket, receive and answer datagrams, leave on SIGKILL; unload |
| hello, `*.mod.c`, Makefiles, Dockerfile | | none | |

**How they interact.** Any process can make system call 451, several at once;
every invocation works on the *same* two static pointers, without a lock.
Within an invocation, server and client exchange two TCP byte streams, on which
nothing marks where a message ends: the server calls `recv` with room for 100
bytes, the client calls `recv` once per line, or until the end of the stream
for a file. Both sides learn of the other's end only through the result of a
socket call. The gateway is a single loop with three partners: clients behind
a network that loses, duplicates and reorders, and a kernel module that
answers over a socket on which an answer carries no identification. The modules
do their work in their init functions, so the process that loads them is the
server or the client; only the UDP module starts a thread, and shares `kthread`
with it and with the process that unloads, without a lock. In the netlink chat
module the input function runs in each user's process and uses the
`client_socket` that init has made, or has not made yet.

**What is hard.**

* *Interleaving*: overlapping invocations overwrite, release and clear each
  other's sockets. `sock_release` and the assignment of NULL are two steps.
  `running` is never set (udp.c:47), so unloading does not wait for the thread.
  `netlink_receive` runs before, while and after init accepts a client.
* *Stale state*: `buffer` is never cleared (chatserver.c:163, :230), and
  `is_file_request` outlives a connection (:164). The denied path leaves
  `client_socket` dangling (:209). A short datagram overwrites only the beginning
  of `buff_rcv` (server2.c:139), and the mixture may pass the 8-bit checksum;
  `net_error[0]` keeps the type of an earlier error (:160).
* *Ends and failures of connections*: `recv` returning 0 counts as a message
  (chatserver.c:216). Most results of `send_message` are overwritten or not
  looked at (:228-:234), and a file that is empty or cannot be read counts as sent
  (:145-:156). A send to a dead connection raises SIGPIPE in the process that made
  the call, and that signal interrupts a later accept. Init functions that fail half
  way must undo what they did.
* *Waiting*: server and client both wait in `recv`, and the gateway waits in
  `recv` for a module that may never have been asked.
* *Positions*: `kernel_write` advances `offset` and the loop advances it again
  (client.c:138); a terminator is written one past the end of an array
  (chat_server_module.c:216).
* *Ordering*: answers and lines run ahead of each other; answers of the kernel
  module must match the requests.

**What makes each part correct.** The sockets: no use of a NULL or released
socket, no leak, pointers NULL and port free when no call runs. The session:
one client at a time and in order of arrival, nothing to a denied address, an
answer for each line, an ended connection is released, a signal ends the call,
a file request completes with the file asked for. The gateway: one answer per
request, to the one who asked, saying what came of *that* request. The modules:
nothing is used after it is released or freed, nothing is left behind when they
are unloaded or fail to load, a signal ends what waits, what a client is sent is
its own and in order, and what the kernel client writes is where it belongs.
`PROJECT.json` lists each hazard at its line with the properties about it.

## 2. The modules

| module | what it is |
|---|---|
| `ServerSockets` | the two static sockets under concurrent invocations of the system call |
| `ServerSocketsProofs` | its inductive invariant; what holds without overlap, and that only an overlap loses a socket |
| `ChatSession` | one invocation serving several clients over TCP |
| `ChatSessionProofs` | its invariant, the denial of other clients, that it takes turns as `TurnServer` says, and until when it accepts |
| `ChatStreamProofs` | what it puts on its streams: types and sizes, answers owed, files in order; which file is sent |
| `TurnServer` | abstract: what the server promises the clients that wait for it |
| `NetlinkGateway` | the gateway with clients, network and kernel module |
| `Registry` | abstract: what the gateway promises |
| `NetlinkGatewayProofs` | the inductive invariant, that the gateway implements `Registry`, and what its answers rest on |
| `ModuleServer` | the same server as a module; extends `ChatSession`, from which it takes TCP and the clients |
| `ModuleServerProofs` | its types, the greeting, what is open after unloading, the turns, the echo; takes lemmas about lines and names from `ChatStreamProofs` |
| `NetlinkChat`, `NetlinkChatProofs` | the module with init, users' processes and exit; what its callback may touch, what is left behind |
| `KernelClient`, `KernelClientProofs` | the client module and its copy of the file |
| `UdpThread`, `UdpThreadProofs` | thread, loader and unloader on `kthread` |
| `MCServerSockets`, `MCChatSession`, `MCModuleServer` | the instances for TLC; the other modules need only constants in the `.cfg` |

`ServerSockets` and `ChatSession` model the same C file at two grains. The
first has a step per access to the shared pointers and hides what is received
and sent; the second has one invocation, which the theorems of the first show
to be safe when it does not overlap another, and models the data.

### ServerSockets

State: the two pointers; for each socket slot what it holds (`kind`); for each
process where it is in the call (`pc`); the sockets that a blocked
`kernel_accept` or `recvmsg` keeps using although the static pointer may change
meanwhile (`lsk`, `nsk`). `kernel_accept` stores the new socket in
`client_socket` *before* it waits; hence `AcceptEnter` and `AcceptOk` are two
actions. `overlap` and `lost` are history variables: whether two invocations
have overlapped since the last time none ran, and what was then still
allocated.

| code | actions |
|---|---|
| `create_server_socket` | `CreateOk/Fail`, `BindOk`, `ListenOk`, `SetupFail`, `Undo`, `UndoNull` |
| `server`: address, accept, peer check | `CopyIpOk/Fail`, `AcceptEnter/Refused/Ok/Fail`, `PeerAllowed/Refused`, `Deny` |
| `server`: session and its end | `RecvEnter/Ok/Fail`, `Send`, `Release`, `ReleaseNull` |
| `tcp_socket_exit` | `ExitServer`, `ExitServerNull`, `ExitClient`, `ExitClientNull` |
| an access with no defined outcome | `Crash`, after which the model stops |

An access through NULL, a released socket, or the unset `ops` of a socket that
is still being accepted has no defined outcome; the model stops there and the
properties say when that can happen. A slot may be allocated again after its
release, so that a stale pointer may also hit a *valid* socket of another call.

Properties. `CrashNeedsOverlap`: no undefined access without overlap.
`QuiescentPointers`: both pointers are NULL when no call runs, whatever the
interleaving. `Accounted`: without overlap no path leaks. `SoloListens`: without
overlap the listener stays valid on its port. `PortFreed` is what readme.md:265
says, and fails; `SoloPortFreed` proves it for executions without overlap.

### ChatSession

State of the server: `spc`, `cur` (who `client_socket` is connected to),
`buffer`, `is_file_request`, `filename`, the pending `signal`. State of TCP: the
accept `queue`, the `link` of each client, the cells on the way to the server
`c2s`, the tokens on the way to a client `s2c`. State of a client: `cpc`, the
number of lines `typed`, what it has written to its file `got`. `asked` is
history.

| code | actions |
|---|---|
| `server`: accept, peer check | `Accept`, `AcceptInterrupted`, `Admit`, `Refuse` |
| `receive_message`, `copy_from_user` | `Receive`, `ReceiveEnd`, `ReceiveFails`, `Copy` |
| the answer, and the branch on `buffer` | `Reply` |
| `send_file`, greeting | `OpenFile`, `SendPart`, `FileEnds`, `Greet` |
| `sock_release`, `tcp_socket_exit` | `ReleaseClient`, `Exit` |
| `cl2.c` `main` | `Connect`, `TypeLine`, `Quit`, `Close` |
| `cl2.c` `receive_message`, `receive_file` | `ReceiveMessage`, `ReceiveFile` |
| outside the code | `Interrupt`, `RstArrives`, `Kill` |

`Sends` and `SendFails` are `kernel_sendmsg` with `msg_flags = 0` in each state of
the connection. The facts about Linux TCP that they and `Close`, `ReleaseLink`
and `RstArrives` rest on:

* After a FIN the receiver still reads what is queued, and then `recv` returns 0.
  It may still send; the peer, already closed, answers with a RST.
* A RST that arrives before a FIN makes the next `recv` or `send` fail with
  ECONNRESET. After a FIN it shows as the end of the stream to `recv` and as
  EPIPE to `send`.
* EPIPE without MSG_NOSIGNAL raises SIGPIPE. The process is inside a system call,
  so the signal stays pending and interrupts calls that have to *wait*; one that
  finds what it needs goes on.
* Closing a socket with unread data sends a RST rather than a FIN.
* The accept queue of `listen(fd, n)` takes `n + 1` connections.

Data. A line is a sequence of cells: two stand for `FILE:`, four for the 100
bytes of `buffer`, two for the 11 of a file name. What matters of the sizes is
kept: a line can be longer than the buffer, a message can fill it, a file name
can be as long as the rest of it. `recv` returns any part of what is queued, so
lines are cut and merged. What is sent to the client is a token: the message,
the greeting, or a part of a named file. The message the server's process sends
is not empty.

Properties. Safety: `DeniedGetNothing`; `NoMessageDeadlock`: a client waiting for
the answer to a line and the server never wait for each other; `CopyInOrder`: what
`receive_file` stores has the parts of each file in order and without a gap, after the
message; `EndsForCause`: the loop is left only when a user interrupts it, or by SIGPIPE
after an allowed client has left. The second half is what becomes of the endless loop of
readme.md:258: `recv` returning 0 is not taken for the end (chatserver.c:216), the second
send to the closed connection raises SIGPIPE (:121), and the pending signal fails the next
accept that has to wait (:189). Liveness: `Answered`, `DisconnectReleased`, `SignalStops`.
Refinement: `TakesTurns`, the module implements `TurnServer`, with `queue` as the line and
the connection being served as the turn. `NoFileDeadlock` and `FileAsAsked`, which the
report states, fail; see section 3.

*A file that yields nothing.* `kernel_read` gives nothing for an empty file or one that
cannot be read, such as a directory (`YieldsNothing`). `send_file` then sends nothing and
returns 0, which replaces the error of the message before it (:234). If the client has left
and such a request is the last thing in `buffer`, `recv` returns 0 and the loop takes it for
the same request once more, and so on: nothing in it waits, and nothing in it looks at a
signal. Only a `copy_from_user` or `filp_open` that fails ends it. `ServesNobody` is this
state. readme.md:264 says that every connection is released and :262 that a
transfer that fails ends the loop; neither is so here, and not even SIGKILL ends the call.
The liveness properties therefore say `... \/ ServesNobody`, and in `TurnServer` a turn need
not end while it is `stuck`. Without that disjunct TLC finds `DisconnectReleased` and
`SignalStops` violated in the instance of `chat_liveness`, also by a request that an earlier
client left in the buffer.

One more thing that the code does and a reader may not expect needs no run to be seen:
`is_file_request` is not reset between connections (chatserver.c:164), so the first plain
line of the next client gets the greeting that comment :246 keeps for the client that got
a file.

### NetlinkGateway

State of the gateway: `pc`, `buff_rcv`, `client_addr`, the `result` of
`send_add_message` and its two siblings, and the last `answer` sent. External,
from how server2.c uses it: the module's `table`, the `answers` it has queued on
the netlink socket, and the `overrun` mark netlink leaves for the next `recv`
when it had to drop one. The network is the set of the datagrams `sent`: each may
arrive at any time, any number of times, or never.

`Receive` is the `recvfrom`; `BadChecksum` and `Suspicious` are the two error answers
at once; `Forward` is the `send` in the three functions; `Collect` is the `recv` and the
checks of type and code; `Reply` is the switch's `sendto`. After a failed `recv` the code
reads its *own request* in the same buffer, whose type differs from that of any
answer; so it reports a network error, which is what `Collect` does with `overrun`.
A datagram shorter than a request overwrites only the beginning of `buff_rcv`, its type
byte included, and the rest is what earlier datagrams left. The checksum is a sum of bytes
modulo 256 (:598-:612), which such a mixture can match, so `Read` allows any content behind a
short datagram: the request before, another that nobody sent, or nothing usable.

Properties. `InStep`: nothing is left on the netlink socket between requests.
`Serves`: every request that reached the module gets an answer and the loop goes on;
when `send` failed nobody will answer, and `recv` waits for ever, which the model
includes (`SendMayFail`). `ImplementsRegistry`: requests are carried out one at a
time, each at most once per delivery, and the answer says what came of the request, or
that this is not known. `AnswersGrounded`: an answer goes to a client that asked for it or
sent a short datagram, and as long as nobody has sent a short one, an address that is found
was registered for that name by somebody. With short datagrams the second half is false: the
model has registrations that nobody asked for. For the same reason `Registry` lets a client
take any request.

### ModuleServer

The variables and the client's actions are those of `ChatSession`, and so are
`OpenFile`, `SendPart`, `FileEnds`, `Greet`, `ReleaseClient`: `send_file` and the
ends of a session are the same code. New: `bytes_received`, and the histories `said`,
`echoed`, `served`.

| code | actions |
|---|---|
| `create_server_socket` | `Load` |
| accept, `break` on an error | `ModAccept`, `AcceptBreaks` |
| `receive_message`, branch on `buffer` | `ModReceive`, `ModReceiveEnd`, `ModReceiveFails`, `Dispatch` |
| the line and `!` | `Echo` with `Modified` and `Overrun` |
| `send_file`, greeting, release | `ModOpenFile`, `ModSendPart`, `ModFileEnds`, `ModGreet`, `ModRelease` |
| `tcp_socket_exit` | `Unload` |

`Overrun`: the terminator of a message that fills the buffer lies behind
`modified_message`; it changes nothing, or the first byte of the buffer next to it.
An interrupted accept ends the loop and init returns 0: the module counts as loaded,
TCP goes on completing connections, and nobody accepts them. The port is a parameter
of the module (4321 unless given); cl2 connects to 4320.

Properties. `EchoesOwn`: what is echoed to a client is made of what it said itself, in
order, although the buffer is never cleared. `GreetsServed`: the reset of
`is_file_request` does what chatserver.c:164 misses. `UnloadedClosed`,
`AnsweredOrQueued`, `GoneReleased`, `LoopEnds`. A file that yields nothing makes this loop
serve a client that has left for ever as well (chat_server_module.c:174-:196): the last three
exclude it with `ServesNobody`, as in `ChatSession`.

### NetlinkChat

State: where init or exit is (`pc`), each user (`upc`), the three sockets, one TCP
client, and `out`, all that was sent to it. A socket is `lost` when the module has gone
and it has not been released.

| code | actions |
|---|---|
| `create_server_socket` | `Listen`, `ListenFails` |
| `tcp_socket_init` up to the client | `CreateNetlink`, `AcceptEnter`, `AcceptOk`, `AcceptFails` |
| its loop | `CheckStop`, `Receive`, `ReceiveNothing`, `TellUser`, `OpenFile`, `SendPart`, `FileEnds` |
| `tcp_socket_exit` | `ExitClient`, `ExitServer`, `ExitNetlink` |
| `netlink_receive` in a user's process | `SendMessage`, `EnterReceive`, `PassOn` |
| outside the code | `OpenNetlink`, `CloseNetlink`, `Interrupt`, `Connect`, `ClientSends`, `ClientReads`, `ClientCloses` |

External facts, at the head of the module: accept stores the new socket before it has a
connection, and does not wait; `nlmsg_unicast` to port 0 reaches the module's own input
function, so what the client sends comes back to it, although the comment at
chat3/server.c:165 says that it goes to all listeners; `kthread_should_stop` in a
process that is no kernel thread may return anything, or fault. The release of the
message after a failed `nlmsg_unicast` (:168) is never reached.

Properties. `SafeOnceAccepted`: from the first client on the callback never uses a
socket that is not connected, nor runs when the module is gone, unless a load has
failed. `LeftByFailure`: only a failed load leaves sockets; it does so when no client
waits at the moment of the accept, or when the netlink socket cannot be made, and later
loads then fail at `bind`. `OutInOrder`: users' texts come anywhere, all else in order.
`Heard`: errors and signals do not end the loop, nor keep it from receiving.

### KernelClient

State: `pc`, the socket, `offset`, the file as the list of its writes, the connection,
the bytes sent and read. The server is any that speaks TCP. One `recv` for the answer
and then one per part; a part has its place in the stream and its place in the file.

| code | actions |
|---|---|
| `connect_to_server`, `send_message` | `Connect`, `ConnectFails`, `SendHello` |
| `receive_message` for the answer | `ReceiveAnswer` |
| `receive_file` | `OpenFile`, `ReceivePart`, `FileEnds` |
| end of init; exit | `Release`; `Unload` |

Properties. `NoSocketLeft`. `InOrder`: parts never overlap, whatever the writes do.
`LoadedComplete`: when init has succeeded and no write failed or fell short (`whole`), every
byte after the answer was written somewhere; the result of `kernel_write` is not looked at,
so without `whole` bytes may be missing. `SignalEnds`: once the server is silent a signal
ends init. `FaithfulCopy`, that the copy then is the file, fails; see section 3. The servers of
this repository never close first, so client and server wait for each other after the file, as
in `chat_file_deadlock`; `src/client/fileee.txt` is empty.

### UdpThread

State: `lpc`, the fields of `kthread`, whether it is allocated, and for each thread where
it is and whether SIGKILL is pending; one access to the shared struct is one step.
`ksocket_init` is `Load`, `SpawnOk/Fail`, `StoreThread`; `ksocket_exit` is `Unload` to
`Unmap`; `ksocket_start` is `Start`, `Create`, `Bind`, `EnterRecv`, `RecvDone`, `Answer`,
`CloseSock`, `NullSock`, `Out`, `Leave`. `Stranded` says that what the next step of a
thread uses is gone, and the model stops there.

`running` is only ever cleared, so exit does not stop the thread and nearly every unload
before the thread has left ends badly: it is what the model shows and no property
denies. `FaultNeedsEarly`: nothing goes wrong otherwise, whichever step of the thread
failed. `NothingLeft`: then nothing is left. `KillEnds`: SIGKILL ends the thread.

## 3. The runs

| run | shows | bounds |
|---|---|---|
| `sockets` | what holds of the static sockets in any interleaving, and what holds without overlap | 2 processes, any number of calls, 4 slots |
| `sockets_port` | **`PortFreed` fails**: the undo of a call whose `bind` fails clears `server_socket` although the other call listens; the other exits without closing its listener | the same |
| `chat_safety` | denial, no deadlock on lines, the copy in order, why the loop ends, types and the bound on a file name | an allowed and a denied client, 2 lines each, one longer than the buffer; a file of 2 parts that may fail to be read; stale stack contents; accept queue of 1 |
| `chat_liveness` | answers, release, signal, turns | 2 allowed clients, one line or file request each; the file may fail to be read; accept queue of 2 |
| `chat_file_deadlock` | **`NoFileDeadlock` fails**: `receive_file` reads until the connection ends, and the server keeps it open for the next message | 1 client |
| `chat_file_name` | **`FileAsAsked` fails**: a file name is continued by what an earlier line left in `buffer` | 1 client, 2 lines |
| `gateway` | the exchange stays in step, requests that reach the module are answered, answers go to who asked, `Registry` is implemented | 2 clients, 1 name, 2 addresses, 3 different datagrams, short ones among them, each delivered any number of times; `send` may fail |
| `module_server` | each client gets its own, greeting, nothing left open, answers, release, signal | 2 clients, one line each that fills the buffer or asks for a file, which may fail to be read; dirty stack; accept queue of 1 |
| `netlink_chat` | what the callback may touch, what is left behind, order of what is sent, the loop goes on | 2 users, 2 messages, 2 chunks, a file of 2 parts, send buffer of 1 |
| `kernel_client` | what the copy lacks, release, end of init | answers of up to 2 bytes, parts of up to 3, 6 bytes |
| `kernel_client_copy` | **`FaithfulCopy` fails**: a file of two parts, every write complete; the second part is written at twice its place (client.c:138), and the log says that the file was received successfully (:185) | the same |
| `udp_thread` | faults and leftovers only after an early unload, SIGKILL | 2 threads, any number of loads |

In `sockets_port` TLC stops at the first violation it meets, and there is more than one,
of which it may report any. When `bind` fails, `create_server_socket` releases `server_socket`
and then sets it to NULL (chatserver.c:53-:55). Either the failing call came second and has
overwritten the pointer of a call that already listens, and clears it; or its own `bind` failed
first and the other call created, bound and listened between the release and the NULL. In both
the other call's `tcp_socket_exit` finds NULL and leaves its listener on the port.

**Why the bounds are enough to be of interest.** Two processes produce every kind of
overlap of two calls, and each returns to `idle`, so that calls also follow each
other; 4 slots are two sockets for each. Two clients let state of one connection
reach the next, let one wait for the other, and let one be denied; a line longer
than the buffer makes two rounds of one line, two lines are enough for the
server to merge them, and two tokens fill the send buffer, so that sends block.
Three datagrams give a request, its repetition and one from another client or
one that cannot be used or is short; `sent` is a set, so a datagram is delivered as often
as the network likes. In `module_server` one line for each client is enough to leave
something in the buffer for the other. In `netlink_chat` two users meet each other and
the file on one stream that is full after one token. Six bytes in parts of at most three
give a copy of two to six parts, cut anywhere, with writes of any length. Two threads
let a thread of an unloaded module live on while the next is loaded.

**Fairness.** `Running`: the scheduler runs the process in the call and the client
processes whenever a call of theirs can go on, and TCP delivers; nothing is assumed
about *which* of two possible outcomes they get. `UsersLeave`: a user at the prompt
leaves in the end, and kills a client that waits for a file. It is needed because the
server serves one client at a time and `NoFileDeadlock` fails: the next client's
answer depends on the user ahead of it leaving. It is not assumed of a client that
waits for the answer to a line, so that `Answered` is a statement about the server.
The gateway is one thread: weak fairness of `Process` says that it goes on once it has a datagram;
the network need not deliver anything. `ModuleServer` takes over the assumptions of
`ChatSession`; `NetlinkChat` assumes that the process that loads or unloads runs and that
the client reads what it is sent, but nothing of users; `KernelClient` only that init runs
while it can, with a server that may be silent for ever; `UdpThread` that threads and the
unloading process are scheduled, and that `recv` returns when a signal is pending.

Deadlock is checked in every run: `Finished` and `Halt` mark where the system
really stops, a state in which something undefined happened stutters, and the gateway's
clients can always send a datagram again.

## 4. The proofs

All proofs hold for every value of the constants. They assume only what the modules
state as assumptions: `NULL` is not a socket; the placeholders of the gateway are no
client, address or job; bounds are natural numbers. `NoDeadlockOnLines` alone has an
assumption of its own (below).

**ServerSockets.** `TypeOK` is inductive. `QuiescentPointers` is not: from a quiescent
state with NULL pointers nothing is known of the next one unless one knows who will clear
them. `ServerHeld` and `ClientHeld` say it: a pointer is set only while *some* invocation
is at a step from which it goes on to clear it. They survive every interleaving, because
each step either leaves that invocation where it clears the pointer or makes the acting
one such an invocation. For the properties without overlap, `Solo` describes the lone
invocation: only one is away from `idle`, it has not crashed, and at each step the
kinds of the two sockets are known (`SoloServer`, `SoloClient`); in particular, at
`enter` the pointer that `Deny` left is dangling, but only `AcceptEnter` or
`AcceptRefused` can follow, and both overwrite it. The invariant is `TypeOK`,
`ServerHeld`, `ClientHeld`, and `~overlap => Solo`; `Invariance` proves it, and
`TypeCorrect`, `QuiescentClean`, `SoloSafety`, `SoloNoLeak` and `SoloListener` follow.
That the pointers are NULL again after *any* overlap is what makes `Solo` hold anew
when a new epoch starts. `PortFreed` fails with overlap (section 3); two theorems say how
far it is true. `LossNeedsOverlap`: a call that returns without having overlapped another
leaves nothing in use that was not in use before it, whichever step of it failed;
`SoloPortFreed`: as long as no two calls overlap, the port is free whenever none runs.

**ChatSession.** `DeniedNothing` needs to know who is being served: `Served` says that
there is a client in service exactly from `accept` to the release, and an allowed one
from the first `recv` on; so only allowed clients are sent anything. `Placed` says that
a connection is in one place: once in the queue, in service, or over. With it
`TurnOrder` shows the safety part of `TakesTurns`: `Connect` is `Arrive`, `Accept` is
`Start`, `Refuse` and `ReleaseClient` are `Finish`, `Exit` is `Close`, and all else, in
particular every failure, signal and end of a connection, is a stutter. `Frame` says
once what the many steps that leave the queue and the client in service alone preserve.
That turns *end* is liveness, and checked by TLC.

`AcceptsUntilLeft` proves `EndsForCause`. It needs `Leavers`: a SIGPIPE, and every state of a
connection on the way to one, has an allowed client that is done behind it; a denied client
is never sent anything, so it cannot raise one. `FileAsAsked` fails because of the uncleared
buffer: `NameAsTyped` says exactly when the name opened is the one typed, for a request that is
received whole: if and only if the cell of `buffer` behind the line is `'\0'`, or the name
fills the room for it.

`ChatStreamProofs` builds on that invariant. `NoDeadlockOnLines` is proved from
`AnswersOwed`: for a connected client that waits for an answer, its line is still under
way, or something is on the way to it, or the server is about to answer or to release it.
It assumes that no user types an empty line, which sends nothing and so is owed nothing
(`Lines` of the runs has none). `FileInOrder` needs more than what the client has stored:
`Rest(c)` is that and all that is still on the stream, in one sequence; `Ordered` says that
this sequence has every part after the one before it, and `Continues` that what the server
sends next fits its end. A step of the server only appends to `Rest` what `Continues`
allows, a step of the client only drops a beginning of it. `TypeCorrect` covers the sizes
as well: `NameType` shows that `strncpy` finds a first `'\0'` or the end of its room
(`Least`: a nonempty set of numbers has a least one), so that `filename` is a name of at
most `NameLen` characters whatever the buffer held.

**NetlinkGateway.** `InStep` is almost inductive: it needs that the module is only
asked about requests (`Busy`), so that what is queued matches `buff_rcv`. With
`Serving` (whoever is being served sent a datagram) this is the invariant of
`TypeCorrect` and `AlwaysInStep`. `Refinement` shows that the gateway implements
`Registry`: a `Receive` that leaves a usable request in the buffer is `Take`;
`Forward` is `Perform` when the module's answer is queued, `Lose` when it is dropped,
and a stutter when `send` fails; `Collect` is a stutter, since it only finds out what
has come of the request; `Reply` is `Answer`. The lemmas `HandleTable` and
`AnswerOutcome` say that the table, and what the gateway makes of the answer, are what
`Registry` says. The theorem does not assume that `send` succeeds: safety holds also where the
gateway waits for ever, and it does not depend on what a short datagram is read as.
`AnswersBacked` looks at the answers on their own, without `Registry`: it proves
`AnswersGrounded`, whose second half, that an address found was registered by somebody, is
stated for executions in which nobody has sent a short datagram (`Whole`). Its invariant
`Grounds` says the same of the table, of what is in the buffer and of the answer still queued.

**ModuleServer.** `GreetingOwn` needs that `is_file_request` is only set after `FileEnds`
for the connection being served (`Flag`), and that the accept clears it. `GreetFrame` and
`ModSendStep` do once what the many steps that touch neither have in common. `NothingOpen`
needs to know where the connections are: `Held` says that one the module has not closed
is in service or in the queue, and that both are empty when the module is not loaded. With
`Held`, and `Placed` as in `ChatSession`, `ModTurnOrder` shows that the module takes turns as
`TurnServer` says, except that `Load` opens the server again (`ReopeningSpec`): no client is
served twice, or out of order, across loads.

`ModTypeCorrect` covers the sizes: what is received fits the buffer, the file name fits its
array, whatever the stack held at the start. `EchoOwn` needs `Own`: what is still on the way
from a client is the end of what it said; what is echoed to it can be found, in order, in the
part before that (`Embeds`); and while an echo is due, the cells of the last message are the
end of that part and not yet used (`Pending`). So the next echo is embedded behind the last.
When a connection ends, what is left of its stream counts as received and is never echoed.
`IsSubsequence` is defined by the embedding itself, not by a recursion over the sequence, so
that no induction over data is needed.

**NetlinkChat.** The invariant says which sockets the module has at each step of init and
exit (`Sockets`), and for each user that a call in progress keeps the module loaded
(`Users`). `CallbackSafe`, `CallbackSocket` and `UnloadsClean` follow, for any number of
users and messages. `StreamInOrder` needs what of each file may have been sent by now
(`SoFar`), which no step of a user changes.

**KernelClient.** `InOrder` needs that `offset` is behind the end of the last write and not
before the stream's position. `SuccessComplete` needs that what the parts cover reaches from
the answer to what has been read, as long as the writes are complete. `OnePartCopies` says how
far `FaithfulCopy` is true: while every write is complete, each part is in its place if and
only if there is at most one. All hold for any sizes and any cut of the stream.

**UdpThread.** As long as no module was unloaded early, at most one thread is alive, it is
the module's own, and at each of its steps it is known whether `kthread->sock` is its
socket and open. That is the invariant of `TypeCorrect`, `SafeWhenAttended` and
`UnloadsClean`.

**Only model-checked**: liveness (`Answered`, `DisconnectReleased`, `SignalStops`, `Serves`,
`AnsweredOrQueued`, `GoneReleased`, `LoopEnds`, `Heard`, `SignalEnds`, `KillEnds`, the
fairness part of `TakesTurns`), which is beyond the provers. Every safety property of a
passing run is stated by a theorem. `OnePartCopies`, `NameAsTyped`, `ModTurnOrder`,
`LossNeedsOverlap` and `SoloPortFreed` are proved and not part of a run.

## 5. What is not modelled

* `ChatSession`: the end of standard input in `cl2` (cl2.c:92), a send cut short by a
  signal, an empty line (`send` of nothing; the client then waits for ever) and an empty
  message of the server's process (the server then never notices that a client has left:
  sending nothing to a dead connection succeeds). A failed `accept` makes the call
  return 0 although readme.md:259 speaks of an error code; return values are not kept.
* `NetlinkGateway`: the one-byte error answers, and to whom that of a failing `recvfrom` is
  sent (:141, :160); lengths of
  names; answers of the module with a wrong length. The uninitialised buffer is taken to
  hold no usable request.
* `ModuleServer`: other effects of the byte written behind the array, and a second load
  while the module is loaded, which the kernel refuses.
* `NetlinkChat`: file names, and what a fault does; the model stops there.
* `KernelClient`: the answer printed without a terminator.
* `UdpThread`: what the datagrams hold; a `kmalloc` that fails is a fault at once.
* `hello/hello.c` keeps no state. `*.mod.c`, the Makefiles and the Dockerfile are generated
  or have no behaviour of their own.

## 6. Plan

Every program of the repository with state of its own is modelled. What is left:

1. Sends that are cut short (`ChatSession`, `ModuleServer`): a token would have to be
   delivered in pieces.
2. An abstract life cycle of a module (loaded, running, unloaded, nothing left behind) that
   `UdpThread` and `NetlinkChat` implement when no load fails and no unload comes early.
3. An abstract accept loop (listening, serving one) that `ServerSockets` without overlap and
   `ChatSession` both implement, so that the two grains of the same file are tied by a proof.
