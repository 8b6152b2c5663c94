------------------------------ MODULE UdpThread -------------------------------
(***************************************************************************)
(* The UDP server thread of src/udp/udp.c (src/udp.c is the same file) and *)
(* the processes that load and unload its module.                          *)
(*                                                                         *)
(* ksocket_init allocates kthread and starts the thread; the thread makes  *)
(* a socket, answers datagrams and leaves when SIGKILL is pending;         *)
(* ksocket_exit releases the socket and frees kthread.  They share kthread *)
(* and its fields without a lock, so a step here is one access to them.    *)
(*                                                                         *)
(* `running' is set to 0 only, so ksocket_exit does not wait for the       *)
(* thread.  A thread that uses kthread, its socket or the module's text    *)
(* when they are gone has no defined behaviour: the model stops there.     *)
(*                                                                         *)
(* A thread makes at most one socket, which has the thread's name.         *)
(***************************************************************************)
EXTENDS FiniteSets

CONSTANTS Thread,  \* threads there can be at a time
          NULL

ASSUME ThreadAssumption == NULL \notin Thread

VARIABLES
  \* loading and unloading
  lpc,      \* where init or exit is; "absent", "loaded" between them
  child,    \* the thread that kthread_run returned to the module now loaded
  \* struct kthread_t
  mem,      \* kthread is allocated
  thread,   \* kthread->thread
  sock,     \* kthread->sock
  running,  \* kthread->running
  \* the threads and the kernel
  tpc,      \* where each thread is
  killed,   \* threads with SIGKILL pending
  open,     \* sockets not released
  fault,    \* "none", or who ran into undefined behaviour
  early     \* history: the module was unloaded while its thread was alive

fields == <<thread, sock, running>>
vars == <<lpc, child, mem, thread, sock, running, tpc, killed, open, fault, early>>

Init ==
  /\ lpc = "absent"
  /\ child = NULL
  /\ mem = FALSE
  /\ thread = NULL /\ sock = NULL /\ running = FALSE
  /\ tpc = [t \in Thread |-> "none"]
  /\ killed = {}
  /\ open = {}
  /\ fault = "none"
  /\ early = FALSE

Alive(t) == tpc[t] # "none"
GoTo(t, step) == tpc' = [tpc EXCEPT ![t] = step]

-----------------------------------------------------------------------------
(* ksocket_init *)

\* kmalloc and memset: the result of kmalloc is not looked at.
Load ==
  /\ lpc = "absent"
  /\ \/ /\ mem' = TRUE
        /\ thread' = NULL /\ sock' = NULL /\ running' = FALSE
        /\ lpc' = "spawn"
        /\ UNCHANGED fault
     \/ /\ fault' = "memory"
        /\ UNCHANGED <<mem, fields, lpc>>
  /\ UNCHANGED <<child, tpc, killed, open, early>>

\* kthread_run returns the new thread, which may run at once.
SpawnOk(t) ==
  /\ lpc = "spawn"
  /\ ~Alive(t)
  /\ GoTo(t, "start")
  /\ child' = t
  /\ lpc' = "store"
  /\ UNCHANGED <<mem, fields, killed, open, fault, early>>

\* Mutant of SpawnFail: kthread is not freed.
SpawnLeaks ==
  /\ lpc = "spawn"
  /\ lpc' = "absent"
  /\ UNCHANGED <<mem, child, fields, tpc, killed, open, fault, early>>

SpawnFail ==
  /\ lpc = "spawn"
  /\ mem' = FALSE
  /\ lpc' = "absent"
  /\ UNCHANGED <<child, fields, tpc, killed, open, fault, early>>

\* kthread->thread is assigned when the thread may already have left.
StoreThread ==
  /\ lpc = "store"
  /\ thread' = child
  /\ lpc' = "loaded"
  /\ UNCHANGED <<child, mem, sock, running, tpc, killed, open, fault, early>>

-----------------------------------------------------------------------------
(* ksocket_exit *)

Unload ==
  /\ lpc = "loaded"
  /\ lpc' = "stop"
  /\ early' = (early \/ Alive(child))
  /\ UNCHANGED <<child, mem, fields, tpc, killed, open, fault>>

\* kthread_stop, if `running', waits until the thread has left.
StopThread ==
  /\ lpc = "stop"
  /\ running => thread # NULL /\ ~Alive(thread)
  /\ lpc' = "test"
  /\ UNCHANGED <<child, mem, fields, tpc, killed, open, fault, early>>

TestSock ==
  /\ lpc = "test"
  /\ lpc' = IF sock # NULL THEN "release" ELSE "free"
  /\ UNCHANGED <<child, mem, fields, tpc, killed, open, fault, early>>

\* sock_release(kthread->sock), which the thread may have released or cleared
\* since the test.
ExitRelease ==
  /\ lpc = "release"
  /\ IF sock \in open
       THEN /\ open' = open \ {sock}
            /\ lpc' = "clear"
            /\ UNCHANGED fault
       ELSE /\ fault' = "loader"
            /\ UNCHANGED <<open, lpc>>
  /\ UNCHANGED <<child, mem, fields, tpc, killed, early>>

ExitClear ==
  /\ lpc = "clear"
  /\ sock' = NULL
  /\ lpc' = "free"
  /\ UNCHANGED <<child, mem, thread, running, tpc, killed, open, fault, early>>

\* kfree(kthread), kthread = NULL
ExitFree ==
  /\ lpc = "free"
  /\ mem' = FALSE
  /\ lpc' = "unmap"
  /\ UNCHANGED <<child, fields, tpc, killed, open, fault, early>>

\* The kernel frees the module's text.
Unmap ==
  /\ lpc = "unmap"
  /\ lpc' = "absent"
  /\ child' = NULL
  /\ UNCHANGED <<mem, fields, tpc, killed, open, fault, early>>

Unloading == \/ StopThread \/ TestSock \/ ExitRelease \/ ExitClear
             \/ ExitFree \/ Unmap
Loader == \/ Load \/ (\E t \in Thread : SpawnOk(t)) \/ SpawnFail \/ StoreThread
          \/ Unload \/ Unloading

-----------------------------------------------------------------------------
(* ksocket_start: what the next step of thread t uses *)

\* The module the thread belongs to has been unloaded.
Orphan(t) == t # child

UsesKthread == {"start", "create", "bind", "loop", "reply", "close", "null", "out"}
UsesSock == {"bind", "loop", "reply", "close"}

\* Something that the next step uses is gone.  In recv the thread is blocked
\* on the socket, and uses nothing until a signal wakes it.
Stranded(t) ==
  \/ Orphan(t)
  \/ tpc[t] \in UsesKthread /\ ~mem
  \/ tpc[t] \in UsesSock /\ (sock # t \/ t \notin open)
  \/ tpc[t] = "recv" /\ t \notin open

ThreadFaults(t) ==
  /\ Alive(t)
  /\ Stranded(t)
  /\ tpc[t] = "recv" => t \in killed
  /\ fault' = "thread"
  /\ UNCHANGED <<lpc, child, mem, fields, tpc, killed, open, early>>

At(t, step) == tpc[t] = step /\ ~Stranded(t)

\* Mutant of Start: running is set, but the loop does not look at
\* kthread_should_stop.
StartRunning(t) ==
  /\ At(t, "start")
  /\ running' = TRUE
  /\ GoTo(t, "create")
  /\ UNCHANGED <<lpc, child, mem, thread, sock, killed, open, fault, early>>

\* allow_signal, running = 0
Start(t) ==
  /\ At(t, "start")
  /\ running' = FALSE
  /\ GoTo(t, "create")
  /\ UNCHANGED <<lpc, child, mem, thread, sock, killed, open, fault, early>>

Create(t) ==
  /\ At(t, "create")
  /\ \/ /\ sock' = t /\ open' = open \cup {t}
        /\ GoTo(t, "bind")
     \/ /\ GoTo(t, "out")
        /\ UNCHANGED <<sock, open>>
  /\ UNCHANGED <<lpc, child, mem, thread, running, killed, fault, early>>

\* A socket that is still open after bind holds the port.
Bound == {t \in open : tpc[t] # "bind"}

Bind(t) ==
  /\ At(t, "bind")
  /\ \/ Bound = {} /\ GoTo(t, "loop")
     \/ GoTo(t, "close")
  /\ UNCHANGED <<lpc, child, mem, fields, killed, open, fault, early>>

\* ksocket_receive reads kthread->sock and waits on the socket.
EnterRecv(t) ==
  /\ At(t, "loop")
  /\ GoTo(t, "recv")
  /\ UNCHANGED <<lpc, child, mem, fields, killed, open, fault, early>>

\* Mutant of RecvDone: the signal is looked at only after an error.
RecvDoneLate(t) ==
  /\ At(t, "recv")
  /\ GoTo(t, "reply")
  /\ UNCHANGED <<lpc, child, mem, fields, killed, open, fault, early>>

\* recv returns: a datagram, or an error, or a signal; signal_pending is looked
\* at first.
RecvDone(t) ==
  /\ At(t, "recv")
  /\ \/ t \in killed /\ GoTo(t, "close")
     \/ t \notin killed /\ GoTo(t, "reply")
     \/ t \notin killed /\ GoTo(t, "loop")
  /\ UNCHANGED <<lpc, child, mem, fields, killed, open, fault, early>>

\* ksocket_send to the address recv has stored in kthread->addr
Answer(t) ==
  /\ At(t, "reply")
  /\ GoTo(t, "loop")
  /\ UNCHANGED <<lpc, child, mem, fields, killed, open, fault, early>>

CloseSock(t) ==
  /\ At(t, "close")
  /\ open' = open \ {t}
  /\ GoTo(t, "null")
  /\ UNCHANGED <<lpc, child, mem, fields, killed, fault, early>>

\* Mutant of NullSock: the pointer is left as it is.
NullForgotten(t) ==
  /\ At(t, "null")
  /\ GoTo(t, "out")
  /\ UNCHANGED <<lpc, child, mem, fields, killed, open, fault, early>>

NullSock(t) ==
  /\ At(t, "null")
  /\ sock' = NULL
  /\ GoTo(t, "out")
  /\ UNCHANGED <<lpc, child, mem, thread, running, killed, open, fault, early>>

\* kthread->thread = NULL, kthread->running = 0
Out(t) ==
  /\ At(t, "out")
  /\ thread' = NULL /\ running' = FALSE
  /\ GoTo(t, "leave")
  /\ UNCHANGED <<lpc, child, mem, sock, killed, open, fault, early>>

\* The thread returns from the module's function, and ends.
Leave(t) ==
  /\ At(t, "leave")
  /\ GoTo(t, "none")
  /\ killed' = killed \ {t}
  /\ UNCHANGED <<lpc, child, mem, fields, open, fault, early>>

ThreadStep(t) ==
  \/ Start(t) \/ Create(t) \/ Bind(t) \/ EnterRecv(t) \/ Answer(t)
  \/ CloseSock(t) \/ NullSock(t) \/ Out(t) \/ Leave(t) \/ ThreadFaults(t)

\* SIGKILL from a user; the thread ignores it until allow_signal.
Kill(t) ==
  /\ tpc[t] \notin {"none", "start"}
  /\ t \notin killed
  /\ killed' = killed \cup {t}
  /\ UNCHANGED <<lpc, child, mem, fields, tpc, open, fault, early>>

Next ==
  \/ /\ fault = "none"
     /\ \/ Loader
        \/ \E t \in Thread : ThreadStep(t) \/ RecvDone(t) \/ Kill(t)
  \/ fault # "none" /\ UNCHANGED vars

Spec == Init /\ [][Next]_vars

\* The scheduler runs the threads and a process that unloads.  recv returns
\* when a signal is pending; no datagram need ever come.
FairSpec ==
  /\ Spec
  /\ WF_vars(fault = "none" /\ Unloading)
  /\ \A t \in Thread :
       /\ WF_vars(fault = "none" /\ ThreadStep(t))
       /\ WF_vars(fault = "none" /\ t \in killed /\ RecvDone(t))

-----------------------------------------------------------------------------
(* Properties *)

LoaderSteps == {"absent", "spawn", "store", "loaded", "stop", "test", "release",
                "clear", "free", "unmap"}
ThreadSteps == {"none", "start", "create", "bind", "loop", "recv", "reply",
                "close", "null", "out", "leave"}

\* Domains; running is never set.
TypeOK ==
  /\ lpc \in LoaderSteps
  /\ child \in Thread \cup {NULL}
  /\ mem \in BOOLEAN
  /\ thread \in Thread \cup {NULL}
  /\ sock \in Thread \cup {NULL}
  /\ running = FALSE
  /\ tpc \in [Thread -> ThreadSteps]
  /\ killed \subseteq Thread
  /\ open \subseteq Thread
  /\ fault \in {"none", "memory", "loader", "thread"}
  /\ early \in BOOLEAN

\* As long as no module was unloaded before its thread had left, neither the
\* thread nor ksocket_exit uses a freed kthread, or a socket that is NULL or
\* released, however the thread ended: by SIGKILL, or because sock_create or
\* bind failed (udp.c:86, :204).
FaultNeedsEarly == fault \in {"loader", "thread"} => early

\* Under the same condition nothing is left when the module is gone: no memory, no
\* open socket, no thread, so that the port can be bound again.
NothingLeft ==
  lpc = "absent" /\ ~early =>
    /\ ~mem
    /\ open = {}
    /\ \A t \in Thread : ~Alive(t)

\* SIGKILL ends the thread, wherever it is, or it faults because the module has been
\* unloaded before (udp.c:77).
KillEnds ==
  \A t \in Thread : t \in killed ~> ~Alive(t) \/ fault # "none"
===============================================================================
