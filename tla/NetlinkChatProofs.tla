-------------------------- MODULE NetlinkChatProofs ---------------------------
(***************************************************************************)
(* Proofs for NetlinkChat, for any users, files, messages and sizes: when  *)
(* netlink_receive may run, which sockets there are.                       *)
(***************************************************************************)
EXTENDS NetlinkChat, TLAPS

Serving == Session \cup {"loaded"}

\* The sockets at each step of init and exit.
Sockets ==
  /\ pc \in InitSteps \cup Unloading \cup {"absent", "loaded"}
  /\ pc = "netlink" => client = "NULL"
  /\ pc = "accept" => client # "connected"
  /\ pc = "accepting" => client = "embryo"
  /\ pc \in InitSteps \cup {"loaded", "xserver"} => listener = "mine"
  /\ pc \in (InitSteps \ {"netlink"}) \cup {"loaded"} \cup Unloading => netlink = "mine"
  /\ pc \in Serving => client = "connected"
  /\ pc = "netlink" => netlink # "mine"
  /\ pc = "xnetlink" => listener # "mine"
  /\ pc = "absent" => listener # "mine" /\ netlink # "mine"
  /\ pc \in Unloading \cup {"absent"} => client # "connected"
  /\ listener = "lost" \/ netlink = "lost" => failed

\* Users that have a netlink socket: there is an end of the kernel's, or was one; and
\* none while the module is unloaded.
Users ==
  /\ upc \in [User -> {"none", "open", "call", "send"}]
  /\ netlink = "none" => \A u \in User : upc[u] = "none"
  /\ pc \in Unloading => \A u \in User : upc[u] = "none"
  /\ \A u \in User : upc[u] = "send" => pc \in Serving

IInv == Sockets /\ Users /\ SafeOnceAccepted /\ netlink \in {"none", "mine", "lost"}

LEMMA InvInit == Init => IInv
BY DEF Init, IInv, Sockets, Users, SafeOnceAccepted, InitSteps, Unloading, Serving, Session

\* A load that fails leaves its sockets behind.
LEMMA FailsInv ==
  ASSUME IInv, pc \in {"netlink", "accepting"}, LoadFails, client' # "connected",
         UNCHANGED <<upc, fault>>, fault = "none"
  PROVE  IInv'
<1>1. Sockets'
  BY DEF IInv, Sockets, LoadFails, InitSteps, Unloading, Serving, Session
<1>2. Users'
  BY DEF IInv, Sockets, Users, LoadFails, InitSteps, Unloading, Serving, Session
<1> QED
  BY <1>1, <1>2 DEF IInv, SafeOnceAccepted, LoadFails

\* Steps of the session change no socket.
LEMMA SessionInv ==
  ASSUME IInv, pc \in Session, pc' \in Serving,
         UNCHANGED <<sockets, upc, failed>>,
         fault' \in {fault, "loop"}
  PROVE  IInv'
<1>1. Sockets'
  BY DEF IInv, Sockets, sockets, InitSteps, Unloading, Serving, Session
<1>2. Users'
  BY DEF IInv, Users, sockets, Unloading, Serving, Session
<1>3. SafeOnceAccepted'
  BY DEF IInv, SafeOnceAccepted, Session
<1> QED
  BY <1>1, <1>2, <1>3 DEF IInv, sockets

LEMMA ModuleInv ==
  ASSUME IInv, fault = "none", Listen \/ ListenFails \/ ModuleStep \/ ExitClient
  PROVE  IInv'
<1> USE DEF users, wire
<1>1. CASE Listen
  BY <1>1 DEF Listen, IInv, Sockets, Users, SafeOnceAccepted, InitSteps, Unloading,
              Serving, Session
<1>2. CASE ListenFails
  BY <1>2 DEF ListenFails, loading, IInv, Sockets, Users, SafeOnceAccepted, InitSteps,
              Unloading, Serving, Session
<1>3. CASE CreateNetlink
  <2>1. CASE LoadFails
    BY <1>3, <2>1, FailsInv DEF CreateNetlink, IInv, Sockets
  <2>2. CASE netlink' = "mine" /\ pc' = "accept" /\ UNCHANGED <<listener, failed>>
    BY <1>3, <2>2 DEF CreateNetlink, IInv, Sockets, Users, SafeOnceAccepted, InitSteps,
                      Unloading, Serving, Session
  <2> QED
    BY <1>3, <2>1, <2>2 DEF CreateNetlink
<1>4. CASE AcceptEnter
  BY <1>4 DEF AcceptEnter, IInv, Sockets, Users, SafeOnceAccepted, InitSteps,
              Unloading, Serving, Session
<1>5. CASE AcceptOk
  BY <1>5 DEF AcceptOk, IInv, Sockets, Users, SafeOnceAccepted, InitSteps,
              Unloading, Serving, Session
<1>6. CASE AcceptFails
  BY <1>6, FailsInv DEF AcceptFails
<1>7. CASE CheckStop
  BY <1>7, SessionInv DEF CheckStop, Session, Serving
<1>8. CASE Receive \/ ReceiveNothing
  BY <1>8, SessionInv DEF Receive, ReceiveNothing, Session, Serving, sockets
<1>9. CASE TellUser \/ OpenFile
  BY <1>9, SessionInv DEF TellUser, OpenFile, Session, Serving
<1>10. CASE SendPart \/ FileEnds
  BY <1>10, SessionInv DEF SendPart, FileEnds, Session, Serving
<1>11. CASE ExitClient
  BY <1>11 DEF ExitClient, IInv, Sockets, Users, SafeOnceAccepted, InitSteps,
               Unloading, Serving, Session
<1>12. CASE ExitServer
  BY <1>12 DEF ExitServer, IInv, Sockets, Users, SafeOnceAccepted, InitSteps,
               Unloading, Serving, Session
<1>13. CASE ExitNetlink
  BY <1>13 DEF ExitNetlink, IInv, Sockets, Users, SafeOnceAccepted, InitSteps,
               Unloading, Serving, Session
<1> QED
  BY <1>1, <1>2, <1>3, <1>4, <1>5, <1>6, <1>7, <1>8, <1>9, <1>10, <1>11, <1>12, <1>13
  DEF ModuleStep

\* A user's step changes where the user is, and may fault.
LEMMA UserInv ==
  ASSUME IInv, fault = "none", NEW u \in User, UserStep(u)
  PROVE  IInv'
<1>1. UNCHANGED <<pc, failed, listener, netlink, client>>
  BY DEF UserStep, OpenNetlink, SendMessage, EnterReceive, PassOn, CloseNetlink,
         loading, sockets
<1>2. /\ upc' \in [User -> {"none", "open", "call", "send"}]
      /\ \A v \in User \ {u} : upc'[v] = upc[v]
      /\ upc'[u] = "send" => upc[u] = "send" \/ (upc[u] = "call" /\ client = "connected")
      /\ upc'[u] # "none" => upc[u] # "none" \/ (netlink = "mine" /\ pc \notin Unloading)
  BY DEF IInv, Users, UserStep, OpenNetlink, SendMessage, EnterReceive, PassOn, CloseNetlink
<1>3. Sockets'
  BY <1>1 DEF IInv, Sockets
<1>4. Users'
  <2>1. upc'[u] = "send" => pc \in Serving
    BY <1>2 DEF IInv, Sockets, Users, Serving, InitSteps, Unloading, Session
  <2>2. upc'[u] # "none" => netlink # "none" /\ pc \notin Unloading
    BY <1>2 DEF IInv, Users
  <2> QED
    BY <1>1, <1>2, <2>1, <2>2 DEF IInv, Users
<1>5. fault' = "callback" => pc \in {"accept", "accepting"}
  BY DEF UserStep, OpenNetlink, SendMessage, EnterReceive, PassOn, CloseNetlink,
         IInv, Sockets, Users, Serving, InitSteps, Unloading, Session
<1>6. fault' = "gone" => failed
  BY DEF UserStep, OpenNetlink, SendMessage, EnterReceive, PassOn, CloseNetlink,
         IInv, Sockets, Users
<1> QED
  BY <1>1, <1>3, <1>4, <1>5, <1>6 DEF IInv, SafeOnceAccepted

LEMMA InvStep ==
  ASSUME IInv, [Next]_vars
  PROVE  IInv'
<1> USE DEF IInv, Sockets, Users, SafeOnceAccepted
<1>1. CASE UNCHANGED vars
  BY <1>1 DEF vars
<1>2. ASSUME fault = "none", Listen \/ ListenFails \/ ModuleStep \/ ExitClient
      PROVE  IInv'
  BY <1>2, ModuleInv
<1>3. ASSUME fault = "none", NEW u \in User, UserStep(u)
      PROVE  IInv'
  BY <1>3, UserInv
<1>4. CASE Interrupt \/ ClientStep
  BY <1>4 DEF Interrupt, ClientStep, Connect, ClientSends, ClientReads, ClientCloses,
              loading, sockets, users
<1> QED
  BY <1>1, <1>2, <1>3, <1>4 DEF Next

\* IInv is invariant.
THEOREM Invariance == Spec => []IInv
BY InvInit, InvStep, PTL DEF Spec

\* SafeOnceAccepted: from the first client on, netlink_receive only uses a connected
\* socket, for any number of users and messages.
THEOREM CallbackSafe == Spec => []SafeOnceAccepted
BY Invariance, PTL DEF IInv

\* While a user is in netlink_receive with the client's socket, that socket stays:
\* init is in the session or has returned, and exit has not begun (chat3/server.c:184).
SocketStays ==
  \A u \in User : upc[u] = "send" =>
    client = "connected" /\ (pc \in Session \/ pc = "loaded")

\* The socket that netlink_receive uses is neither replaced nor released meanwhile.
THEOREM CallbackSocket == Spec => []SocketStays
<1>1. IInv => SocketStays
  BY DEF IInv, Sockets, Users, SocketStays, Serving
<1> QED
  BY <1>1, Invariance, PTL

\* LeftByFailure: only a load that failed leaves a socket behind.
THEOREM UnloadsClean == Spec => []LeftByFailure
<1>1. IInv => LeftByFailure
  BY DEF IInv, Sockets, LeftByFailure
<1> QED
  BY <1>1, Invariance, PTL
-----------------------------------------------------------------------------
(* Types, and the order of what the client is sent *)

LEMMA TokenTypes ==
  /\ \A n \in Nat : Echo(n) \in Tokens
  /\ \A n, k \in Nat : FilePart(n, k) \in Tokens
  /\ UserText \in Tokens
BY DEF Echo, FilePart, UserText, Tokens

\* The parts of TypeOK that need sequences and counters, and the others.
TypeSeqs == c2s \in Seq({"line", "request", "short"}) /\ out \in Seq(Tokens)
TypeNats ==
  /\ pos \in 0..FileParts
  /\ messages \in Nat /\ queue \in Nat /\ chunks \in Nat /\ taken \in Nat /\ received \in Nat
TypeRest ==
  /\ pc \in InitSteps \cup Unloading \cup {"absent", "loaded"}
  /\ asks \in BOOLEAN /\ signal \in BOOLEAN
  /\ listener \in {"none", "mine", "lost"}
  /\ netlink \in {"none", "mine", "lost"}
  /\ client \in {"NULL", "embryo", "connected", "released"}
  /\ upc \in [User -> {"none", "open", "call", "send"}]
  /\ conn \in {"none", "live", "gone"}
  /\ failed \in BOOLEAN
  /\ fault \in {"none", "loop", "callback", "gone"}

LEMMA TypeParts == TypeOK <=> TypeSeqs /\ TypeNats /\ TypeRest
BY DEF TypeOK, TypeSeqs, TypeNats, TypeRest

LEMMA TypeInit == Init => TypeOK
<1> SUFFICES ASSUME Init PROVE TypeOK
  OBVIOUS
<1>1. TypeSeqs
  BY DEF Init, TypeSeqs
<1>2. TypeNats
  BY NetlinkChatAssumption DEF Init, TypeNats
<1>3. TypeRest
  BY DEF Init, TypeRest
<1> QED
  BY <1>1, <1>2, <1>3, TypeParts

\* What a send does to out.
LEMMA SendsType ==
  ASSUME out \in Seq(Tokens), NEW t \in Tokens, Sends(t)
  PROVE  out' \in Seq(Tokens)
BY DEF Sends

LEMMA SeqsStep ==
  ASSUME TypeSeqs, TypeNats, [Next]_vars
  PROVE  TypeSeqs'
<1> USE DEF TypeSeqs, loading, sockets, users, wire
<1>1. CASE UNCHANGED vars
  BY <1>1 DEF vars
<1>2. CASE Listen \/ ListenFails \/ CreateNetlink \/ AcceptEnter \/ AcceptFails
  BY <1>2 DEF Listen, ListenFails, CreateNetlink, AcceptEnter, AcceptFails
<1>3. CASE AcceptOk \/ ExitClient
  <2>1. c2s' = <<>>
    BY <1>3 DEF AcceptOk, ExitClient
  <2>2. c2s' \in Seq({"line", "request", "short"})
    BY <2>1
  <2>3. out' = out \/ out' = <<>>
    BY <1>3 DEF AcceptOk, ExitClient
  <2>4. out' \in Seq(Tokens)
    <3>1. <<>> \in Seq(Tokens)
      OBVIOUS
    <3>2. CASE out' = <<>>
      BY <3>1, <3>2, Zenon
    <3> QED
      BY <2>3, <3>2
  <2> QED
    BY <2>2, <2>4
<1>4. CASE CheckStop \/ ReceiveNothing \/ OpenFile \/ FileEnds \/ ExitServer \/ ExitNetlink
  BY <1>4 DEF CheckStop, ReceiveNothing, OpenFile, FileEnds, ExitServer, ExitNetlink
<1>5. CASE Receive
  BY <1>5 DEF Receive
<1>6. CASE TellUser
  <2>1. Sends(Echo(received)) \/ UNCHANGED out
    BY <1>6 DEF TellUser
  <2>2. Echo(received) \in Tokens
    BY TokenTypes DEF TypeNats
  <2>3. out' \in Seq(Tokens)
    BY <2>1, <2>2, SendsType
  <2> QED
    BY <1>6, <2>3 DEF TellUser
<1>7. CASE SendPart
  <2>1. Sends(FilePart(received, pos)) \/ UNCHANGED out
    BY <1>7 DEF SendPart
  <2>2. FilePart(received, pos) \in Tokens
    <3>1. pos \in Nat
      BY NetlinkChatAssumption DEF TypeNats
    <3> QED
      BY <3>1, TokenTypes DEF TypeNats
  <2>3. out' \in Seq(Tokens)
    BY <2>1, <2>2, SendsType
  <2> QED
    BY <1>7, <2>3 DEF SendPart
<1>8. ASSUME NEW u \in User, UserStep(u)
      PROVE  TypeSeqs'
  <2>1. CASE PassOn(u)
    <3>1. Sends(UserText) \/ UNCHANGED out
      BY <2>1 DEF PassOn
    <3>2. out' \in Seq(Tokens)
      BY <3>1, TokenTypes, SendsType
    <3> QED
      BY <2>1, <3>2 DEF PassOn
  <2>2. CASE ~PassOn(u)
    BY <1>8, <2>2 DEF UserStep, OpenNetlink, SendMessage, EnterReceive, CloseNetlink
  <2> QED
    BY <2>1, <2>2
<1>9. CASE ClientSends
  <2>1. PICK chunk \in {"line", "request", "short"} : c2s' = Append(c2s, chunk)
    BY <1>9 DEF ClientSends
  <2>2. c2s' \in Seq({"line", "request", "short"})
    BY <2>1
  <2> QED
    BY <1>9, <2>2 DEF ClientSends
<1>10. CASE Interrupt \/ Connect \/ ClientReads \/ ClientCloses
  BY <1>10 DEF Interrupt, Connect, ClientReads, ClientCloses
<1> QED
  BY <1>1, <1>2, <1>3, <1>4, <1>5, <1>6, <1>7, <1>8, <1>9, <1>10
  DEF Next, ModuleStep, ClientStep

LEMMA NatsStep ==
  ASSUME TypeNats, [Next]_vars
  PROVE  TypeNats'
<1> USE NetlinkChatAssumption DEF TypeNats, loading, sockets, users, wire
<1>1. CASE UNCHANGED vars
  BY <1>1 DEF vars
<1>2. CASE Listen \/ ListenFails \/ CreateNetlink \/ AcceptEnter \/ AcceptFails
  BY <1>2 DEF Listen, ListenFails, CreateNetlink, AcceptEnter, AcceptFails
<1>3. CASE AcceptOk
  BY <1>3 DEF AcceptOk
<1>4. CASE CheckStop \/ ReceiveNothing \/ OpenFile \/ FileEnds \/ ExitServer \/ ExitNetlink
  BY <1>4 DEF CheckStop, ReceiveNothing, OpenFile, FileEnds, ExitServer, ExitNetlink
<1>5. CASE Receive \/ ExitClient
  BY <1>5 DEF Receive, ExitClient
<1>6. CASE TellUser
  BY <1>6 DEF TellUser
<1>7. CASE SendPart
  <2>1. pos' = pos \/ (pos < FileParts /\ pos' = pos + 1)
    BY <1>7 DEF SendPart
  <2>2. pos' \in 0..FileParts
    BY <2>1
  <2> QED
    BY <1>7, <2>2 DEF SendPart
<1>8. ASSUME NEW u \in User, UserStep(u)
      PROVE  TypeNats'
  <2>1. UNCHANGED <<pos, queue, chunks, taken, received>>
    BY <1>8 DEF UserStep, OpenNetlink, SendMessage, EnterReceive, PassOn, CloseNetlink
  <2>2. messages' = messages \/ messages' = messages + 1
    BY <1>8 DEF UserStep, OpenNetlink, SendMessage, EnterReceive, PassOn, CloseNetlink
  <2> QED
    BY <2>1, <2>2
<1>9. CASE Interrupt \/ ClientStep
  BY <1>9 DEF Interrupt, ClientStep, Connect, ClientSends, ClientReads, ClientCloses
<1> QED
  BY <1>1, <1>2, <1>3, <1>4, <1>5, <1>6, <1>7, <1>8, <1>9 DEF Next, ModuleStep

LEMMA RestStep ==
  ASSUME TypeRest, [Next]_vars
  PROVE  TypeRest'
<1> USE DEF TypeRest, InitSteps, Unloading, loading, sockets, users, wire
<1>1. CASE UNCHANGED vars
  BY <1>1 DEF vars
<1>2. CASE Listen \/ ListenFails \/ AcceptEnter
  BY <1>2 DEF Listen, ListenFails, AcceptEnter
<1>3. CASE CreateNetlink \/ AcceptFails
  BY <1>3 DEF CreateNetlink, AcceptFails, LoadFails
<1>4. CASE AcceptOk \/ ReceiveNothing \/ OpenFile \/ FileEnds
  BY <1>4 DEF AcceptOk, ReceiveNothing, OpenFile, FileEnds
<1>5. CASE CheckStop
  BY <1>5 DEF CheckStop
<1>6. CASE Receive
  <2>1. asks' \in BOOLEAN
    BY <1>6 DEF Receive
  <2> QED
    BY <1>6, <2>1 DEF Receive
<1>7. CASE TellUser
  BY <1>7 DEF TellUser
<1>8. CASE SendPart
  BY <1>8 DEF SendPart
<1>9. CASE ExitClient \/ ExitServer \/ ExitNetlink
  BY <1>9 DEF ExitClient, ExitServer, ExitNetlink
<1>10. ASSUME NEW u \in User, UserStep(u)
       PROVE  TypeRest'
  BY <1>10 DEF UserStep, OpenNetlink, SendMessage, EnterReceive, PassOn, CloseNetlink
<1>11. CASE Interrupt \/ ClientStep
  BY <1>11 DEF Interrupt, ClientStep, Connect, ClientSends, ClientReads, ClientCloses
<1> QED
  BY <1>1, <1>2, <1>3, <1>4, <1>5, <1>6, <1>7, <1>8, <1>9, <1>10, <1>11
  DEF Next, ModuleStep

LEMMA TypeStep ==
  ASSUME TypeOK, [Next]_vars
  PROVE  TypeOK'
<1>1. TypeSeqs' /\ TypeNats' /\ TypeRest'
  BY TypeParts, SeqsStep, NatsStep, RestStep
<1> QED
  BY <1>1 DEF TypeOK, TypeSeqs, TypeNats, TypeRest

\* TypeOK: the state stays in its domains, for any constants.
THEOREM TypeCorrect == Spec => []TypeOK
BY TypeInit, TypeStep, PTL DEF Spec

\* What may have been sent when init is at `step', has received n chunks and sent k
\* parts: anything of earlier chunks; of the last the echo, and then the parts up to k.
Sent(t, step, n, k) ==
  \/ t.chunk < n
  \/ /\ t.chunk = n
     /\ \/ step \notin {"tell", "open", "part"}
        \/ step \in {"open", "part"} /\ t.kind = "echo"
        \/ step = "part" /\ t.kind = "part" /\ t.part < k
SoFar == \A i \in 1..Len(out) : out[i].kind # "user" => Sent(out[i], pc, received, pos)

\* Appending a token that comes after all others keeps the order.
LEMMA AppendOrder ==
  ASSUME NEW t, out \in Seq(Tokens), t \in Tokens, OutInOrder, out' = Append(out, t),
         t.kind # "user" =>
           \A i \in 1..Len(out) : out[i].kind # "user" => Before(out[i], t)
  PROVE  OutInOrder'
<1> SUFFICES ASSUME NEW i \in 1..Len(out'), NEW j \in 1..Len(out'), i < j,
                    out'[i].kind # "user", out'[j].kind # "user"
             PROVE  Before(out'[i], out'[j])
  BY DEF OutInOrder, Before
<1>1. Len(out') = Len(out) + 1 /\ Len(out) \in Nat
  OBVIOUS
<1>2. \A k \in 1..Len(out) : out'[k] = out[k]
  OBVIOUS
<1>3. out'[Len(out) + 1] = t
  OBVIOUS
<1>4. CASE j = Len(out) + 1
  <2>1. i \in 1..Len(out)
    BY <1>1, <1>4
  <2> QED
    BY <1>2, <1>3, <1>4, <2>1
<1>5. CASE j # Len(out) + 1
  <2>1. i \in 1..Len(out) /\ j \in 1..Len(out)
    BY <1>1, <1>5
  <2> QED
    BY <1>2, <2>1 DEF OutInOrder
<1> QED
  BY <1>4, <1>5

\* What is sent is as far as pc says, when a token of the right kind is appended.
LEMMA AppendSoFar ==
  ASSUME NEW t, out \in Seq(Tokens), t \in Tokens, out' = Append(out, t),
         \A i \in 1..Len(out) :
           out[i].kind # "user" => Sent(out[i], pc', received', pos'),
         t.kind # "user" => Sent(t, pc', received', pos')
  PROVE  SoFar'
<1>1. Len(out') = Len(out) + 1 /\ Len(out) \in Nat
  OBVIOUS
<1>2. \A k \in 1..Len(out) : out'[k] = out[k]
  OBVIOUS
<1>3. out'[Len(out) + 1] = t
  OBVIOUS
<1> SUFFICES ASSUME NEW k \in 1..Len(out'), out'[k].kind # "user"
             PROVE  Sent(out'[k], pc', received', pos')
  BY DEF SoFar
<1>4. CASE k = Len(out) + 1
  BY <1>3, <1>4
<1>5. CASE k # Len(out) + 1
  <2>1. k \in 1..Len(out)
    BY <1>1, <1>5
  <2> QED
    BY <1>2, <2>1
<1> QED
  BY <1>4, <1>5

\* A step that sends nothing, where as much may have been sent as before, or more.
LEMMA OrderFrame ==
  ASSUME OutInOrder, SoFar, out' = out,
         \A t \in Tokens : t.kind # "user" /\ Sent(t, pc, received, pos)
                             => Sent(t, pc', received', pos'),
         out \in Seq(Tokens)
  PROVE  OutInOrder' /\ SoFar'
<1>1. \A i \in 1..Len(out) : out[i] \in Tokens
  OBVIOUS
<1>2. SoFar'
  BY <1>1 DEF SoFar
<1>3. OutInOrder'
  BY DEF OutInOrder, Before
<1> QED
  BY <1>2, <1>3

\* What the user's process sends comes anywhere.
LEMMA UserOrder ==
  ASSUME OutInOrder, SoFar, out \in Seq(Tokens), out' = Append(out, UserText),
         UNCHANGED <<pc, received, pos>>
  PROVE  OutInOrder' /\ SoFar'
<1>1. UserText \in Tokens /\ UserText.kind = "user"
  BY TokenTypes DEF UserText
<1>2. OutInOrder'
  BY <1>1, AppendOrder
<1>3. SoFar'
  BY <1>1, AppendSoFar DEF SoFar
<1> QED
  BY <1>2, <1>3

LEMMA TellOrder ==
  ASSUME TypeOK, OutInOrder, SoFar, TellUser
  PROVE  OutInOrder' /\ SoFar'
<1> DEFINE e == Echo(received)
<1>1. out \in Seq(Tokens) /\ received \in Nat /\ e \in Tokens
  BY TokenTypes DEF TypeOK
<1>2. e.kind = "echo" /\ e.chunk = received
  BY DEF Echo
<1>3. /\ pc = "tell" /\ pc' \in {"open", "check"}
      /\ received' = received /\ pos' = pos
      /\ out' = Append(out, e) \/ out' = out
  BY DEF TellUser, Sends
<1> HIDE DEF e
<1>4. \A i \in 1..Len(out) : out[i] \in Tokens
  BY <1>1
<1>5. \A i \in 1..Len(out) : out[i].kind # "user" => out[i].chunk < received
  BY <1>3, <1>4 DEF SoFar, Sent
<1>6. CASE out' = out
  BY <1>1, <1>3, <1>6, OrderFrame DEF Sent
<1>7. CASE out' = Append(out, e)
  <2>1. \A i \in 1..Len(out) : out[i].kind # "user" => Before(out[i], e)
    BY <1>2, <1>5 DEF Before
  <2>2. OutInOrder'
    BY <1>1, <1>7, <2>1, AppendOrder
  <2>3. Sent(e, pc', received', pos')
    BY <1>2, <1>3 DEF Sent
  <2>4. \A i \in 1..Len(out) : out[i].kind # "user" => Sent(out[i], pc', received', pos')
    BY <1>3, <1>5 DEF Sent
  <2>5. SoFar'
    BY <1>1, <1>7, <2>3, <2>4, AppendSoFar
  <2> QED
    BY <2>2, <2>5
<1> QED
  BY <1>3, <1>6, <1>7

LEMMA PartOrder ==
  ASSUME TypeOK, OutInOrder, SoFar, SendPart
  PROVE  OutInOrder' /\ SoFar'
<1> DEFINE f == FilePart(received, pos)
<1>1. out \in Seq(Tokens) /\ received \in Nat /\ pos \in Nat /\ f \in Tokens
  BY NetlinkChatAssumption, TokenTypes DEF TypeOK
<1>2. f.kind = "part" /\ f.chunk = received /\ f.part = pos
  BY DEF FilePart
<1>3. /\ pc = "part" /\ received' = received
      /\ \/ out' = Append(out, f) /\ pos' = pos + 1 /\ pc' = pc
         \/ out' = out /\ pos' = pos + 1 /\ pc' = pc
         \/ out' = out /\ pos' = pos /\ pc' = "check"
  BY DEF SendPart, Sends
<1> HIDE DEF f
<1>4. \A i \in 1..Len(out) : out[i] \in Tokens
  BY <1>1
<1>5. \A t \in Tokens : t.part \in Nat /\ t.chunk \in Nat
  BY DEF Tokens
<1>6. \A t \in Tokens : Sent(t, pc, received, pos) => Sent(t, pc', received', pos')
  BY <1>1, <1>3, <1>5 DEF Sent
<1>7. CASE out' = out
  BY <1>1, <1>6, <1>7, OrderFrame
<1>8. CASE out' = Append(out, f) /\ pos' = pos + 1 /\ pc' = pc
  <2>1. \A i \in 1..Len(out) : out[i].kind # "user" => Before(out[i], f)
    BY <1>2, <1>3, <1>4 DEF SoFar, Sent, Before
  <2>2. OutInOrder'
    BY <1>1, <1>8, <2>1, AppendOrder
  <2>3. Sent(f, pc', received', pos')
    BY <1>1, <1>2, <1>3, <1>8 DEF Sent
  <2>4. \A i \in 1..Len(out) : out[i].kind # "user" => Sent(out[i], pc', received', pos')
    BY <1>4, <1>6 DEF SoFar
  <2>5. SoFar'
    BY <1>1, <1>8, <2>3, <2>4, AppendSoFar
  <2> QED
    BY <2>2, <2>5
<1> QED
  BY <1>3, <1>7, <1>8

LEMMA OrderStep ==
  ASSUME TypeOK, OutInOrder, SoFar, [Next]_vars
  PROVE  OutInOrder' /\ SoFar'
<1> USE DEF loading, sockets, users, wire
<1>1. out \in Seq(Tokens) /\ received \in Nat /\ \A t \in Tokens : t.chunk \in Nat
  BY DEF TypeOK, Tokens
<1>2. ASSUME UNCHANGED <<out, received, pos>>,
             pc' = pc \/ pc' \notin {"tell", "open", "part"} \/ (pc = "open" /\ pc' = "part")
      PROVE  OutInOrder' /\ SoFar'
  <2>1. \A t \in Tokens : Sent(t, pc, received, pos) => Sent(t, pc', received', pos')
    BY <1>2 DEF Sent
  <2> QED
    BY <1>1, <1>2, <2>1, OrderFrame
<1>3. CASE UNCHANGED vars
  BY <1>2, <1>3 DEF vars
<1>4. CASE Listen \/ ListenFails \/ CreateNetlink \/ AcceptEnter \/ AcceptFails
  BY <1>2, <1>4 DEF Listen, ListenFails, CreateNetlink, AcceptEnter, AcceptFails, LoadFails
<1>5. CASE AcceptOk
  BY <1>5 DEF AcceptOk, OutInOrder, SoFar
<1>6. CASE CheckStop
  BY <1>2, <1>6 DEF CheckStop
<1>7. CASE Receive
  <2>1. out' = out /\ received' = received + 1
    BY <1>7 DEF Receive
  <2>2. \A t \in Tokens : Sent(t, pc, received, pos) => Sent(t, pc', received', pos')
    BY <1>1, <2>1 DEF Sent
  <2> QED
    BY <1>1, <2>1, <2>2, OrderFrame
<1>8. CASE ReceiveNothing \/ FileEnds
  BY <1>2, <1>8 DEF ReceiveNothing, FileEnds
<1>9. CASE OpenFile
  <2>1. out' = out /\ received' = received /\ pc = "open"
    BY <1>9 DEF OpenFile
  <2>2. pc' \in {"part", "check"}
    BY <1>9 DEF OpenFile
  <2>3. \A t \in Tokens : Sent(t, pc, received, pos) => Sent(t, pc', received', pos')
    BY <2>1, <2>2 DEF Sent
  <2> QED
    BY <1>1, <2>1, <2>3, OrderFrame
<1>10. CASE TellUser
  BY <1>10, TellOrder
<1>11. CASE SendPart
  BY <1>11, PartOrder
<1>12. CASE ExitClient \/ ExitServer \/ ExitNetlink
  BY <1>2, <1>12 DEF ExitClient, ExitServer, ExitNetlink
<1>13. ASSUME NEW u \in User, UserStep(u)
       PROVE  OutInOrder' /\ SoFar'
  <2>1. UNCHANGED <<pc, received, pos>>
    BY <1>13 DEF UserStep, OpenNetlink, SendMessage, EnterReceive, PassOn, CloseNetlink
  <2>2. out' = out \/ out' = Append(out, UserText)
    BY <1>13 DEF UserStep, OpenNetlink, SendMessage, EnterReceive, PassOn, CloseNetlink,
                 Sends
  <2> QED
    BY <1>1, <1>2, <2>1, <2>2, UserOrder
<1>14. CASE Interrupt \/ ClientStep
  BY <1>2, <1>14 DEF Interrupt, ClientStep, Connect, ClientSends, ClientReads, ClientCloses
<1> QED
  BY <1>3, <1>4, <1>5, <1>6, <1>7, <1>8, <1>9, <1>10, <1>11, <1>12, <1>13, <1>14
  DEF Next, ModuleStep

\* OutInOrder: what comes of the client's chunks keeps its order in the stream, for any
\* number of users that send on it from their own processes, and any files.
THEOREM StreamInOrder == Spec => []OutInOrder
<1>1. Init => OutInOrder /\ SoFar
  BY DEF Init, OutInOrder, SoFar
<1>2. TypeOK /\ (OutInOrder /\ SoFar) /\ [Next]_vars => (OutInOrder /\ SoFar)'
  BY OrderStep
<1> QED
  BY <1>1, <1>2, TypeCorrect, PTL DEF Spec
===============================================================================
