--------------------------- MODULE UdpThreadProofs ----------------------------
(***************************************************************************)
(* The invariant of UdpThread, for any number of threads and any number of *)
(* times the module is loaded and unloaded.                                *)
(***************************************************************************)
EXTENDS UdpThread, TLAPS

\* kthread is allocated from kmalloc to kfree, and the module knows its thread
\* from kthread_run to the end.
Memory ==
  /\ mem = (lpc \notin {"absent", "unmap"})
  /\ lpc \notin {"absent", "spawn"} => child \in Thread
  /\ child \in Thread => lpc \notin {"absent", "spawn"}

\* From socket to close the thread has a socket of its own, open and in kthread.
HasSock == {"bind", "loop", "recv", "reply", "close"}

\* Without an early unload only the thread of the loaded module is alive, ...
Attended == \A t \in Thread : Alive(t) => t = child /\ lpc \in {"store", "loaded"}

\* ... kthread->sock is the socket of that thread exactly while it has one, ...
SockOfThread ==
  /\ \A t \in Thread : tpc[t] \in HasSock => sock = t /\ open = {t}
  /\ \A t \in Thread : tpc[t] = "null" => sock = t /\ open = {}
  /\ (\A t \in Thread : tpc[t] \notin HasSock \cup {"null"}) => sock = NULL /\ open = {}

\* ... and ksocket_exit finds no socket to release.
Clean ==
  /\ Attended
  /\ SockOfThread
  /\ lpc \notin {"release", "clear"}

IInv ==
  /\ TypeOK
  /\ Memory
  /\ ~early => Clean
  /\ FaultNeedsEarly

USE ThreadAssumption

LEMMA InitIInv == Init => IInv
BY DEF Init, IInv, TypeOK, LoaderSteps, ThreadSteps, Memory, Clean, Attended,
       SockOfThread, FaultNeedsEarly, Alive, HasSock

\* The steps of loading and unloading.
LEMMA LoaderIInv == ASSUME IInv, fault = "none", Loader PROVE IInv'
<1> USE DEF IInv, TypeOK, LoaderSteps, ThreadSteps, Memory, Clean, Attended,
            SockOfThread, FaultNeedsEarly, Alive, HasSock, fields
<1>1. CASE Load
  BY <1>1 DEF Load
<1>2. ASSUME NEW t \in Thread, SpawnOk(t) PROVE IInv'
  BY <1>2 DEF SpawnOk, GoTo
<1>3. CASE SpawnFail
  BY <1>3 DEF SpawnFail
<1>4. CASE StoreThread
  BY <1>4 DEF StoreThread
<1>5. CASE Unload
  BY <1>5 DEF Unload
<1>6. CASE StopThread
  BY <1>6 DEF StopThread
<1>7. CASE TestSock
  BY <1>7 DEF TestSock
<1>8. CASE ExitRelease
  BY <1>8 DEF ExitRelease
<1>9. CASE ExitClear
  BY <1>9 DEF ExitClear
<1>10. CASE ExitFree
  BY <1>10 DEF ExitFree
<1>11. CASE Unmap
  BY <1>11 DEF Unmap
<1> QED
  BY <1>1, <1>2, <1>3, <1>4, <1>5, <1>6, <1>7, <1>8, <1>9, <1>10, <1>11
  DEF Loader, Unloading

\* The steps of a thread.
LEMMA ThreadIInv ==
  ASSUME IInv, fault = "none", NEW t \in Thread, ThreadStep(t) \/ RecvDone(t) \/ Kill(t)
  PROVE  IInv'
<1> USE DEF IInv, TypeOK, LoaderSteps, ThreadSteps, Memory, Clean, Attended,
            SockOfThread, FaultNeedsEarly, Alive, HasSock, fields, GoTo, At
<1>1. CASE Start(t)
  BY <1>1 DEF Start
<1>2. CASE Create(t)
  BY <1>2 DEF Create
<1>3. CASE Bind(t)
  BY <1>3 DEF Bind
<1>4. CASE EnterRecv(t)
  BY <1>4 DEF EnterRecv
<1>5. CASE RecvDone(t)
  BY <1>5 DEF RecvDone
<1>6. CASE Answer(t)
  BY <1>6 DEF Answer
<1>7. CASE CloseSock(t)
  BY <1>7 DEF CloseSock
<1>8. CASE NullSock(t)
  BY <1>8 DEF NullSock
<1>9. CASE Out(t)
  BY <1>9 DEF Out
<1>10. CASE Leave(t)
  BY <1>10 DEF Leave
<1>11. CASE ThreadFaults(t)
  BY <1>11 DEF ThreadFaults, Stranded, Orphan, UsesKthread, UsesSock
<1>12. CASE Kill(t)
  BY <1>12 DEF Kill
<1> QED
  BY <1>1, <1>2, <1>3, <1>4, <1>5, <1>6, <1>7, <1>8, <1>9, <1>10, <1>11, <1>12
  DEF ThreadStep

\* The inductive invariant holds of every behaviour.
THEOREM Invariance == Spec => []IInv
<1>1. IInv /\ [Next]_vars => IInv'
  <2> SUFFICES ASSUME IInv, [Next]_vars PROVE IInv'
    OBVIOUS
  <2>1. CASE UNCHANGED vars
    BY <2>1 DEF vars, IInv, TypeOK, Memory, Clean, Attended, SockOfThread,
                FaultNeedsEarly, Alive
  <2>2. CASE Next /\ ~UNCHANGED vars
    BY <2>2, LoaderIInv, ThreadIInv DEF Next
  <2> QED
    BY <2>1, <2>2
<1> QED
  BY InitIInv, <1>1, PTL DEF Spec

\* kthread, its fields and the threads stay in their domains, and `running' is
\* never set, for any threads.
THEOREM TypeCorrect == Spec => []TypeOK
BY Invariance, PTL DEF IInv

\* As long as no module was unloaded before its thread had left, nothing freed,
\* released or NULL is used, for any threads and any number of loads.
THEOREM SafeWhenAttended == Spec => []FaultNeedsEarly
BY Invariance, PTL DEF IInv

\* Under that condition nothing is left of a module that is unloaded.
THEOREM UnloadsClean == Spec => []NothingLeft
<1>1. IInv => NothingLeft
  BY DEF IInv, NothingLeft, TypeOK, ThreadSteps, Memory, Clean, Attended, SockOfThread,
         Alive, HasSock
<1> QED
  BY <1>1, Invariance, PTL
===============================================================================
