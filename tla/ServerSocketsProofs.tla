------------------------- MODULE ServerSocketsProofs -------------------------
(***************************************************************************)
(* Proofs of the invariants of ServerSockets, for any set of processes and *)
(* any set of socket slots.                                                *)
(***************************************************************************)
EXTENDS ServerSockets, TLAPS

\* One invocation takes one step: every action that is not Halt.
ProcStep(p) == Call(p) \/ Setup(p) \/ Accepting(p) \/ Serving(p) \/ Exiting(p)
                 \/ Crash(p)

LEMMA NextCases ==
  ASSUME [Next]_vars
  PROVE  (\E p \in Proc : ~Crashed /\ ProcStep(p)) \/ UNCHANGED vars
BY DEF Next, Halt, ProcStep

\* Every step keeps the variables in their domains.
LEMMA TypeStep ==
  ASSUME TypeOK, NEW p \in Proc, ProcStep(p)
  PROVE  TypeOK'
<1> USE DEF TypeOK, GoTo, Return, pointers, blocked, history, Kinds,
            Steps, Loop
<1>1. CASE Call(p)
  BY <1>1 DEF Call
<1>2. CASE Setup(p)
  BY <1>2 DEF Setup, CreateOk, CreateFail, BindOk, ListenOk, SetupFail, Undo, UndoNull
<1>3. CASE Accepting(p)
  BY <1>3 DEF Accepting, CopyIpOk, CopyIpFail, AcceptEnter, AcceptRefused,
              AcceptOk, AcceptFail, PeerAllowed, PeerRefused, Deny
<1>4. CASE Serving(p)
  BY <1>4 DEF Serving, RecvEnter, RecvOk, RecvFail, Send, Release, ReleaseNull
<1>5. CASE Exiting(p)
  BY <1>5 DEF Exiting, ExitServer, ExitServerNull, ExitClient, ExitClientNull
<1>6. CASE Crash(p)
  BY <1>6 DEF Crash
<1> QED
  BY <1>1, <1>2, <1>3, <1>4, <1>5, <1>6 DEF ProcStep

\* A set pointer keeps an invocation that will clear it, whoever interleaves.
LEMMA HeldStep ==
  ASSUME TypeOK, ServerHeld, ClientHeld, NEW p \in Proc, ~Crashed, ProcStep(p)
  PROVE  ServerHeld' /\ ClientHeld'
<1> USE DEF TypeOK, ServerHeld, ClientHeld, GoTo, Return, pointers,
            blocked, history, ServerHolders, ClientHolders, Loop, Steps
<1>1. CASE Call(p)
  BY <1>1 DEF Call, Idle
<1>2. CASE Setup(p)
  BY <1>2 DEF Setup, CreateOk, CreateFail, BindOk, ListenOk, SetupFail, Undo, UndoNull
<1>3. CASE Accepting(p)
  BY <1>3 DEF Accepting, CopyIpOk, CopyIpFail, AcceptEnter, AcceptRefused,
              AcceptOk, AcceptFail, PeerAllowed, PeerRefused, Deny
<1>4. CASE Serving(p)
  BY <1>4 DEF Serving, RecvEnter, RecvOk, RecvFail, Send, Release, ReleaseNull
<1>5. CASE Exiting(p)
  BY <1>5 DEF Exiting, ExitServer, ExitServerNull, ExitClient, ExitClientNull
<1>6. CASE Crash(p)
  BY <1>6 DEF Crash
<1> QED
  BY <1>1, <1>2, <1>3, <1>4, <1>5, <1>6 DEF ProcStep

\* Between steps of a lone invocation, no other invocation has left "idle".
LEMMA SoloStep ==
  ASSUME IInv, Solo, ~overlap, NEW p \in Proc, ~Crashed, ProcStep(p), ~overlap'
  PROVE  Solo'
<1> USE NullAssumption
        DEF IInv, TypeOK, Solo, SoloServer, SoloClient, GoTo, Return,
            pointers, blocked, history, ServerHolders, Loop, Steps, InUse,
            Kinds, Idle, AloneInCall, Invalid, NoOps
<1>1. CASE Call(p)
  BY <1>1 DEF Call, ServerHeld, ClientHeld, ClientHolders
<1>2. CASE Setup(p)
  BY <1>2 DEF Setup, CreateOk, CreateFail, BindOk, ListenOk, SetupFail, Undo, UndoNull
<1>3. CASE Accepting(p)
  BY <1>3 DEF Accepting, CopyIpOk, CopyIpFail, AcceptEnter, AcceptRefused,
              AcceptOk, AcceptFail, PeerAllowed, PeerRefused, Deny, AcceptSafe
<1>4. CASE Serving(p)
  BY <1>4 DEF Serving, RecvEnter, RecvOk, RecvFail, Send, Release, ReleaseNull
<1>5. CASE Exiting(p)
  BY <1>5 DEF Exiting, ExitServer, ExitServerNull, ExitClient, ExitClientNull
<1>6. CASE Crash(p)
  BY <1>6 DEF Crash, Dangles, AcceptSafe
<1> QED
  BY <1>1, <1>2, <1>3, <1>4, <1>5, <1>6 DEF ProcStep

\* An overlap is forgotten only by the last invocation to return, and what
\* it has left behind counts as lost from then on.
LEMMA EpochEnds ==
  ASSUME IInv, overlap, NEW p \in Proc, ~Crashed, ProcStep(p), ~overlap'
  PROVE  Solo'
<1>1. /\ \A q \in Proc : pc'[q] = "idle"
      /\ lost' = {s \in Sock : kind'[s] # "free"}
  <2> USE DEF IInv, TypeOK, GoTo, Return, AloneInCall, Idle, history
  <2>1. CASE Call(p)
    BY <2>1 DEF Call
  <2>2. CASE Setup(p)
    BY <2>2 DEF Setup, CreateOk, CreateFail, BindOk, ListenOk, SetupFail, Undo, UndoNull
  <2>3. CASE Accepting(p)
    BY <2>3 DEF Accepting, CopyIpOk, CopyIpFail, AcceptEnter, AcceptRefused,
                AcceptOk, AcceptFail, PeerAllowed, PeerRefused, Deny
  <2>4. CASE Serving(p)
    BY <2>4 DEF Serving, RecvEnter, RecvOk, RecvFail, Send, Release, ReleaseNull
  <2>5. CASE Exiting(p)
    BY <2>5 DEF Exiting, ExitServer, ExitServerNull, ExitClient, ExitClientNull
  <2>6. CASE Crash(p)
    BY <2>6 DEF Crash
  <2> QED
    BY <2>1, <2>2, <2>3, <2>4, <2>5, <2>6 DEF ProcStep
<1> QED
  BY <1>1 DEF Solo, Idle, InUse

\* The inductive invariant holds of every reachable state, for any number of
\* processes in any interleaving.
THEOREM Invariance == Spec => []IInv
<1>1. Init => IInv
  <2> SUFFICES ASSUME Init
               PROVE  IInv
    OBVIOUS
  <2>1. TypeOK
    BY DEF Init, TypeOK, Kinds, Steps
  <2>2. ServerHeld /\ ClientHeld
    BY DEF Init, ServerHeld, ClientHeld
  <2>3. Solo
    BY DEF Init, Solo, Idle, InUse
  <2> QED
    BY <2>1, <2>2, <2>3 DEF IInv
<1>2. IInv /\ [Next]_vars => IInv'
  <2> SUFFICES ASSUME IInv, [Next]_vars
               PROVE  IInv'
    OBVIOUS
  <2>1. CASE UNCHANGED vars
    BY <2>1 DEF vars, IInv, TypeOK, ServerHeld, ClientHeld, Solo, SoloServer,
                SoloClient, Idle, InUse
  <2>2. ASSUME NEW p \in Proc, ~Crashed, ProcStep(p)
        PROVE  IInv'
    <3>1. TypeOK'
      BY <2>2, TypeStep DEF IInv
    <3>2. ServerHeld' /\ ClientHeld'
      BY <2>2, HeldStep DEF IInv
    <3>3. ~overlap' => Solo'
      <4>1. CASE overlap
        BY <2>2, <4>1, EpochEnds
      <4>2. CASE ~overlap
        BY <2>2, <4>2, SoloStep DEF IInv
      <4> QED
        BY <4>1, <4>2
    <3> QED
      BY <3>1, <3>2, <3>3 DEF IInv
  <2> QED
    BY <2>1, <2>2, NextCases
<1> QED
  BY <1>1, <1>2, PTL DEF Spec

\* Variables stay in their domains: chatserver.c never stores anything but a
\* socket or NULL in its static pointers.
THEOREM TypeCorrect == Spec => []TypeOK
<1>1. IInv => TypeOK
  BY DEF IInv
<1> QED
  BY <1>1, Invariance, PTL

\* Whatever the invocations interleaved, both static pointers are NULL once
\* none is running: tcp_socket_exit and the error path of create_server_socket
\* leave nothing dangling for the next call.
THEOREM QuiescentClean == Spec => []QuiescentPointers
<1>1. IInv => QuiescentPointers
  BY DEF IInv, ServerHeld, ClientHeld, QuiescentPointers, Quiescent, Idle,
         ServerHolders, ClientHolders, Loop
<1> QED
  BY <1>1, Invariance, PTL

\* An invocation that overlapped no other never makes an undefined access.
THEOREM SoloSafety == Spec => []CrashNeedsOverlap
<1>1. IInv => CrashNeedsOverlap
  BY DEF IInv, CrashNeedsOverlap, Crashed, Solo
<1> QED
  BY <1>1, Invariance, PTL

\* Without overlap at most the listener and one client are in use, besides
\* what earlier overlaps lost: no path leaks a socket.
THEOREM SoloNoLeak == Spec => []Accounted
<1>1. IInv => Accounted
  BY DEF IInv, Accounted, Solo
<1> QED
  BY <1>1, Invariance, PTL

\* Without overlap the loop always has its listener on the port.
THEOREM SoloListener == Spec => []SoloListens
<1>1. IInv => SoloListens
  BY NullAssumption
     DEF IInv, SoloListens, Solo, SoloServer, ServerHolders, Loop, Idle
<1> QED
  BY <1>1, Invariance, PTL

-----------------------------------------------------------------------------
(* What is left when nobody runs *)

\* A lone invocation that returns leaves nothing that was not there before it.
LEMMA ReturnsClean ==
  ASSUME IInv, ~overlap, NEW p \in Proc, ~Crashed, ProcStep(p)
  PROVE  lost' \subseteq lost
<1>1. Solo /\ \A s \in Sock : s \in InUse => s \in lost \cup {server_socket, client_socket}
  BY DEF IInv, Solo
<1>2. ASSUME pc[p] \in {"create", "undoNull", "exitClient"}, kind' = kind, Return(p)
      PROVE  lost' \subseteq lost
  <2>1. client_socket = NULL
    BY <1>1, <1>2 DEF Solo, SoloClient, Idle, Steps, Loop
  <2>2. server_socket = NULL \/ kind[server_socket] = "free"
    BY <1>1, <1>2 DEF Solo, SoloServer, Idle
  <2>3. InUse \subseteq lost
    BY <1>1, <2>1, <2>2, NullAssumption DEF InUse
  <2> QED
    BY <1>2, <2>3 DEF Return, history, InUse
<1>3. pc[p] # "exitClientNull"
  BY <1>1 DEF Solo
<1>4. CASE Call(p)
  BY <1>4 DEF Call
<1>5. CASE Setup(p)
  BY <1>2, <1>5 DEF Setup, CreateOk, CreateFail, BindOk, ListenOk, SetupFail, Undo, UndoNull,
                    history
<1>6. CASE Accepting(p)
  BY <1>6 DEF Accepting, CopyIpOk, CopyIpFail, AcceptEnter, AcceptRefused, AcceptOk, AcceptFail,
              PeerAllowed, PeerRefused, Deny, history
<1>7. CASE Serving(p)
  BY <1>7 DEF Serving, RecvEnter, RecvOk, RecvFail, Send, Release, ReleaseNull, history
<1>8. CASE Exiting(p)
  BY <1>2, <1>3, <1>8 DEF Exiting, ExitServer, ExitServerNull, ExitClient, ExitClientNull, history
<1>9. CASE Crash(p)
  BY <1>9 DEF Crash, history
<1> QED
  BY <1>4, <1>5, <1>6, <1>7, <1>8, <1>9 DEF ProcStep

\* Only overlapping invocations can leave a socket behind that nobody will release: a call that
\* runs alone, through whatever failure, returns with what was in use before it at most
\* (chatserver.c:51, :199, :209, tcp_socket_exit).
THEOREM LossNeedsOverlap == Spec => [][~overlap => lost' \subseteq lost]_vars
<1>1. IInv /\ [Next]_vars => [~overlap => lost' \subseteq lost]_vars
  BY ReturnsClean, NextCases
<1> QED
  BY <1>1, Invariance, PTL DEF Spec

\* PortFreed, as far as it is true: as long as no two invocations overlap, nobody holds the port
\* when none is running (readme.md:265 says so without the condition).
THEOREM SoloPortFreed == Spec /\ [](~overlap) => []PortFreed
<1>1. Init => lost = {}
  BY DEF Init
<1>2. IInv /\ ~overlap /\ lost = {} /\ [Next]_vars => (lost = {})'
  <2> SUFFICES ASSUME IInv, ~overlap, lost = {}, [Next]_vars PROVE lost' = {}
    OBVIOUS
  <2>1. CASE UNCHANGED vars
    BY <2>1 DEF vars
  <2> QED
    BY <2>1, ReturnsClean, NextCases
<1>3. IInv /\ ~overlap /\ lost = {} => PortFreed
  <2> SUFFICES ASSUME IInv, Solo, lost = {}, Quiescent, NEW s \in Sock,
                      kind[s] \in {"bound", "listening"}
               PROVE  FALSE
    BY DEF IInv, PortFreed, PortTaken
  <2>1. server_socket = NULL /\ client_socket = NULL
    BY DEF IInv, ServerHeld, ClientHeld, Quiescent, Idle, ServerHolders, ClientHolders, Loop
  <2> QED
    BY <2>1, NullAssumption DEF Solo, InUse
<1> QED
  BY <1>1, <1>2, <1>3, Invariance, PTL DEF Spec
=============================================================================
