-------------------------- MODULE ChatSessionProofs --------------------------
(***************************************************************************)
(* Proofs for ChatSession, for any clients, lines, files and sizes: a      *)
(* denied client gets nothing, and every step of the server is a step of   *)
(* TurnServer or none.                                                     *)
(***************************************************************************)
EXTENDS ChatSession, TLAPS

\* What the proofs need of the domains.
Shape ==
  /\ spc \in ServerSteps
  /\ cur \in Client \cup {NoOne}
  /\ pos \in Nat
  /\ spc = "part" => filename \in DOMAIN FileParts
  /\ queue \in Seq(Client)
  /\ link \in [Client -> LinkStates]
  /\ cpc \in [Client -> ClientSteps]
  /\ s2c \in [Client -> Seq(Tokens)]
  /\ got \in [Client -> Seq(Tokens)]

\* Who is being served: someone exactly from accept to release, and from the
\* first receive on, someone allowed.
Serving == {"check", "recv", "copy", "reply", "open", "part", "greet", "release"}
Served ==
  /\ cur = NoOne <=> spc \notin Serving
  /\ spc \in Serving \ {"check"} => cur \in Allowed

\* A connection is in one place: in the queue, being served, or over.
Over == {"released", "aborted", "closed"}
Placed ==
  /\ \A i, j \in 1..Len(queue) : queue[i] = queue[j] => i = j
  /\ \A i \in 1..Len(queue) : queue[i] # cur /\ link[queue[i]] \notin Over \cup {"none"}
  /\ cur # NoOne => link[cur] \notin Over \cup {"none"}
  /\ \A c \in Client : cpc[c] = "start" => link[c] = "none"
  /\ spc = "off" => queue = <<>>

IInv == Shape /\ Served /\ Placed /\ DeniedGetNothing

LEMMA InvInit == Init => IInv
BY DataAssumption, BoundAssumption
   DEF Init, IInv, Shape, Served, Serving, Placed, DeniedGetNothing, ServerSteps,
       LinkStates, ClientSteps

LEMMA TokenTypes ==
  /\ MsgToken \in Tokens /\ HelloToken \in Tokens
  /\ \A n \in DOMAIN FileParts, k \in Nat : k < FileParts[n] => PartToken(n, k) \in Tokens
BY DataAssumption DEF Tokens

\* What one kernel_sendmsg to an allowed client preserves.
LEMMA SendStep ==
  ASSUME IInv, NEW token \in Tokens, cur \in Allowed, Sends(token) \/ SendFails
  PROVE  /\ link' \in [Client -> LinkStates]
         /\ s2c' \in [Client -> Seq(Tokens)]
         /\ queue' = queue
         /\ \A c \in Client \ Allowed : s2c'[c] = s2c[c]
         /\ \A c \in Client \ {cur} : link'[c] = link[c]
         /\ link'[cur] \notin Over \cup {"none"}
<1> USE BoundAssumption DEF IInv, Shape, Placed, Served, Over, LinkStates
<1>1. cur \in Client /\ cur # NoOne
  OBVIOUS
<1>2. CASE Sends(token)
  <2>1. CASE s2c' = [s2c EXCEPT ![cur] = Append(@, token)] /\ UNCHANGED link
    BY <1>1, <1>2, <2>1 DEF Sends
  <2>2. CASE SetLink(cur, "doomed") /\ UNCHANGED s2c
    BY <1>1, <1>2, <2>2 DEF Sends, SetLink
  <2> QED
    BY <1>2, <2>1, <2>2 DEF Sends
<1>3. CASE SendFails
  BY <1>1, <1>3 DEF SendFails, SetLink
<1> QED
  BY <1>2, <1>3

\* Releasing the connection in service: it is over, the others are untouched.
LEMMA ReleaseStep ==
  ASSUME Shape, cur \in Client, ReleaseLink(cur)
  PROVE  /\ link' \in [Client -> LinkStates]
         /\ link'[cur] \in Over
         /\ \A c \in Client \ {cur} : link'[c] = link[c]
BY DEF ReleaseLink, SetLink, Shape, LinkStates, Over

\* A client's close: its connection stays over, or stays open for the server.
LEMMA CloseStep ==
  ASSUME Shape, NEW c \in Client, Close(c)
  PROVE  /\ cpc' \in [Client -> ClientSteps] /\ cpc' = [cpc EXCEPT ![c] = "done"]
         /\ link' \in [Client -> LinkStates]
         /\ link'[c] \in Over <=> link[c] \in Over
         /\ link'[c] # "none"
         /\ s2c' \in [Client -> Seq(Tokens)] /\ s2c' = [s2c EXCEPT ![c] = <<>>]
         /\ \A d \in Client \ {c} : link'[d] = link[d]
<1>1. link[c] \in {"live", "released", "aborted"}
  BY DEF Close
<1>2. \E state \in {"fin", "reset", "doomed", "closed"} :
        SetLink(c, state) /\ (state = "closed" <=> link[c] \in Over)
  BY <1>1 DEF Close, Over
<1> QED
  BY <1>1, <1>2 DEF Close, Shape, SetLink, Over, LinkStates, ClientSteps

\* A step that leaves the queue and who is served, and ends no connection in
\* either, keeps the invariant when what it does to the streams is harmless.
LEMMA Frame ==
  ASSUME IInv, queue' = queue, cur' = cur, pos' \in Nat,
         spc' \in ServerSteps, spc' # "off" \/ spc = "off",
         spc' \in Serving <=> spc \in Serving,
         spc' \in Serving \ {"check"} => cur \in Allowed,
         spc' = "part" => filename' \in DOMAIN FileParts,
         link' \in [Client -> LinkStates], cpc' \in [Client -> ClientSteps],
         s2c' \in [Client -> Seq(Tokens)], got' \in [Client -> Seq(Tokens)],
         \A c \in Client : link[c] \notin Over \cup {"none"} => link'[c] \notin Over \cup {"none"},
         \A c \in Client : cpc'[c] = "start" => cpc[c] = "start" /\ link'[c] = link[c],
         \A c \in Client \ Allowed : s2c'[c] = <<>> /\ got'[c] = <<>>
  PROVE  IInv'
<1>1. Shape'
  BY DEF IInv, Shape
<1>2. Served'
  BY DEF IInv, Served
<1>3. Placed'
  <2>1. \A i \in 1..Len(queue) : queue[i] \in Client
    BY DEF IInv, Shape
  <2>2. cur # NoOne => cur \in Client
    BY DEF IInv, Shape
  <2>3. \A i, j \in 1..Len(queue') : queue'[i] = queue'[j] => i = j
    BY DEF IInv, Placed
  <2>4. \A i \in 1..Len(queue') :
          queue'[i] # cur' /\ link'[queue'[i]] \notin Over \cup {"none"}
    <3> SUFFICES ASSUME NEW i \in 1..Len(queue)
                 PROVE  queue[i] # cur /\ link'[queue[i]] \notin Over \cup {"none"}
      OBVIOUS
    <3>1. queue[i] # cur /\ link[queue[i]] \notin Over \cup {"none"}
      BY DEF IInv, Placed
    <3> QED
      BY <2>1, <3>1
  <2>5. cur' # NoOne => link'[cur'] \notin Over \cup {"none"}
    BY <2>2 DEF IInv, Placed
  <2>6. \A c \in Client : cpc'[c] = "start" => link'[c] = "none"
    BY DEF IInv, Placed
  <2>7. spc' = "off" => queue' = <<>>
    BY DEF IInv, Placed
  <2> QED
    BY <2>3, <2>4, <2>5, <2>6, <2>7 DEF Placed
<1>4. DeniedGetNothing'
  BY DEF DeniedGetNothing
<1> QED
  BY <1>1, <1>2, <1>3, <1>4 DEF IInv

\* The same for a send to the client in service.
LEMMA SendFrame ==
  ASSUME IInv, NEW token \in Tokens, cur \in Allowed, Sends(token) \/ SendFails,
         UNCHANGED <<cur, clients>>, pos' \in Nat,
         spc \in Serving, spc' \in Serving,
         spc' = "part" => filename' \in DOMAIN FileParts
  PROVE  IInv'
<1>1. cur \in Client
  BY BoundAssumption
<1>2. /\ link' \in [Client -> LinkStates] /\ s2c' \in [Client -> Seq(Tokens)]
      /\ queue' = queue
      /\ \A c \in Client \ Allowed : s2c'[c] = s2c[c]
      /\ \A c \in Client \ {cur} : link'[c] = link[c]
      /\ link'[cur] \notin Over \cup {"none"}
  BY SendStep
<1>3. \A c \in Client : cpc[c] = "start" => link'[c] = link[c]
  <2>1. cpc[cur] # "start"
    BY <1>1, BoundAssumption DEF IInv, Placed
  <2> QED
    BY <1>2, <2>1
<1> QED
  BY <1>1, <1>2, <1>3, Frame DEF IInv, Shape, DeniedGetNothing, Serving, ServerSteps, clients

LEMMA ServerInv ==
  ASSUME IInv, ServerStep
  PROVE  IInv'
<1> USE BoundAssumption DEF server, network, clients
<1>1. CASE Accept
  <2>1. queue # <<>> /\ cur' = Head(queue) /\ queue' = Tail(queue)
    BY <1>1 DEF Accept
  <2>2. /\ queue' \in Seq(Client) /\ Len(queue') = Len(queue) - 1
        /\ \A i \in 1..Len(queue') : queue'[i] = queue[i + 1]
        /\ cur' = queue[1] /\ cur' \in Client
    BY <2>1 DEF IInv, Shape
  <2>3. Shape' /\ Served' /\ DeniedGetNothing'
    BY <1>1, <2>2 DEF Accept, IInv, Shape, Served, Serving, DeniedGetNothing, ServerSteps
  <2>4. Placed'
    BY <1>1, <2>1, <2>2 DEF Accept, IInv, Shape, Placed
  <2> QED
    BY <2>3, <2>4 DEF IInv
<1>2. CASE AcceptInterrupted
  BY <1>2, Frame DEF AcceptInterrupted, IInv, Shape, Serving, ServerSteps, DeniedGetNothing
<1>3. CASE Admit
  BY <1>3, Frame DEF Admit, IInv, Shape, Serving, ServerSteps, DeniedGetNothing
<1>4. ASSUME spc \in Serving, spc' = "accept", cur' = NoOne, ReleaseLink(cur),
             UNCHANGED <<pos, queue, s2c, clients>>
      PROVE  IInv'
  <2>1. cur \in Client
    BY <1>4 DEF IInv, Served, Shape
  <2>2. /\ link' \in [Client -> LinkStates]
        /\ link'[cur] \in Over
        /\ \A c \in Client \ {cur} : link'[c] = link[c]
    BY <1>4, <2>1, ReleaseStep DEF IInv
  <2>3. Shape' /\ Served' /\ DeniedGetNothing'
    BY <1>4, <2>2 DEF IInv, Shape, Served, Serving, DeniedGetNothing, ServerSteps
  <2>4. Placed'
    BY <1>4, <2>1, <2>2 DEF IInv, Shape, Placed
  <2> QED
    BY <2>3, <2>4 DEF IInv
<1>5. CASE Refuse
  BY <1>4, <1>5 DEF Refuse, Serving
<1>6. CASE Receive
  BY <1>6, Frame DEF Receive, IInv, Shape, Served, Serving, ServerSteps, DeniedGetNothing
<1>7. CASE ReceiveEnd
  BY <1>7, Frame DEF ReceiveEnd, IInv, Shape, Served, Serving, ServerSteps, DeniedGetNothing
<1>8. CASE ReceiveFails
  <2>1. cur \in Client /\ cpc[cur] # "start" /\ cur \in Allowed
    BY <1>8 DEF ReceiveFails, IInv, Shape, Served, Serving, Placed
  <2>2. link' = link \/ link' = [link EXCEPT ![cur] = "dead"]
    BY <1>8 DEF ReceiveFails, SetLink
  <2>3. /\ link' \in [Client -> LinkStates]
        /\ \A c \in Client : link[c] \notin Over \cup {"none"}
                               => link'[c] \notin Over \cup {"none"}
        /\ \A c \in Client : cpc[c] = "start" => link'[c] = link[c]
    BY <2>1, <2>2 DEF IInv, Shape, LinkStates, Over
  <2> QED
    BY <1>8, <2>1, <2>3, Frame
       DEF ReceiveFails, IInv, Shape, Serving, ServerSteps, DeniedGetNothing
<1>9. CASE Copy
  BY <1>9, Frame DEF Copy, IInv, Shape, Served, Serving, ServerSteps, DeniedGetNothing
<1>10. CASE Reply
  <2>1. cur \in Allowed
    BY <1>10 DEF Reply, IInv, Served, Serving
  <2>2. Sends(MsgToken) \/ SendFails
    BY <1>10 DEF Reply
  <2>3. spc' \in {"open", "greet", "recv", "release"} /\ spc = "reply"
        /\ UNCHANGED <<cur, pos, clients>>
    BY <1>10 DEF Reply
  <2> QED
    BY <2>1, <2>2, <2>3, SendFrame, TokenTypes DEF IInv, Shape, Serving
<1>11. CASE OpenFile
  BY <1>11, Frame DEF OpenFile, IInv, Shape, Served, Serving, ServerSteps, DeniedGetNothing
<1>12. CASE SendPart
  <2>1. cur \in Allowed /\ pos \in Nat /\ filename \in DOMAIN FileParts
    BY <1>12 DEF SendPart, IInv, Shape, Served, Serving
  <2>2. PartToken(filename, pos) \in Tokens
    BY <1>12, <2>1, TokenTypes DEF SendPart
  <2>3. Sends(PartToken(filename, pos)) \/ SendFails
    BY <1>12 DEF SendPart
  <2>4. spc' \in {"part", "release"} /\ spc = "part" /\ pos' \in {pos, pos + 1}
        /\ UNCHANGED <<cur, filename, clients>>
    BY <1>12 DEF SendPart
  <2>5. pos' \in Nat
    BY <2>1, <2>4
  <2> QED
    BY <2>1, <2>2, <2>3, <2>4, <2>5, SendFrame DEF Serving
<1>13. CASE FileEnds
  BY <1>13, Frame DEF FileEnds, IInv, Shape, Served, Serving, ServerSteps, DeniedGetNothing
<1>14. CASE Greet
  <2>1. cur \in Allowed
    BY <1>14 DEF Greet, IInv, Served, Serving
  <2>2. Sends(HelloToken) \/ SendFails
    BY <1>14 DEF Greet
  <2>3. spc' \in {"recv", "release"} /\ spc = "greet" /\ UNCHANGED <<cur, pos, clients>>
    BY <1>14 DEF Greet
  <2> QED
    BY <2>1, <2>2, <2>3, SendFrame, TokenTypes DEF IInv, Shape, Serving
<1>15. CASE ReleaseClient
  BY <1>4, <1>15 DEF ReleaseClient, Serving
<1>16. CASE Exit
  <2>1. link' \in [Client -> LinkStates]
        /\ \A c \in Client : link[c] = "none" => link'[c] = "none"
    <3>1. \A c \in Client : c \in ToSet(queue) => link[c] # "none"
      BY DEF ToSet, IInv, Shape, Placed
    <3> QED
      BY <1>16, <3>1 DEF Exit, IInv, Shape, LinkStates
  <2>2. cur' = NoOne /\ queue' = <<>> /\ spc' = "off"
    BY <1>16 DEF Exit, IInv, Served, Serving
  <2>3. Shape' /\ Served' /\ DeniedGetNothing'
    BY <1>16, <2>1, <2>2 DEF Exit, IInv, Shape, Served, Serving, DeniedGetNothing, ServerSteps
  <2>4. Placed'
    BY <1>16, <2>1, <2>2 DEF Exit, IInv, Shape, Placed
  <2> QED
    BY <2>3, <2>4 DEF IInv
<1> QED
  BY <1>1, <1>2, <1>3, <1>5, <1>6, <1>7, <1>8, <1>9, <1>10, <1>11, <1>12,
     <1>13, <1>14, <1>15, <1>16 DEF ServerStep

\* A client closes its socket: the frame holds.
LEMMA CloseFrame ==
  ASSUME IInv, NEW c \in Client, Close(c), UNCHANGED <<server, queue, got>>
  PROVE  IInv'
<1>1. /\ cpc' \in [Client -> ClientSteps] /\ cpc' = [cpc EXCEPT ![c] = "done"]
      /\ link' \in [Client -> LinkStates]
      /\ link'[c] \in Over <=> link[c] \in Over
      /\ link'[c] # "none"
      /\ s2c' \in [Client -> Seq(Tokens)] /\ s2c' = [s2c EXCEPT ![c] = <<>>]
      /\ \A d \in Client \ {c} : link'[d] = link[d]
  BY CloseStep DEF IInv
<1>2. \A d \in Client : link[d] \notin Over \cup {"none"} => link'[d] \notin Over \cup {"none"}
  BY <1>1
<1>3. \A d \in Client : cpc'[d] = "start" => cpc[d] = "start" /\ link'[d] = link[d]
  BY <1>1 DEF IInv, Shape
<1>4. \A d \in Client \ Allowed : s2c'[d] = <<>> /\ got'[d] = <<>>
  BY <1>1 DEF IInv, Shape, DeniedGetNothing
<1>5. spc' \in Serving \ {"check"} => cur \in Allowed
  BY DEF IInv, Served, server
<1> QED
  BY <1>1, <1>2, <1>3, <1>4, <1>5, Frame DEF IInv, Shape, server

LEMMA ClientInv ==
  ASSUME IInv, NEW c \in Client, ClientStep(c)
  PROVE  IInv'
<1> USE DEF server, network, clients
<1>0. spc \in Serving \ {"check"} => cur \in Allowed
  BY DEF IInv, Served
<1>1. CASE Connect(c)
  <2>1. CASE spc = "off"
    <3>1. cpc' = [cpc EXCEPT ![c] = "done"] /\ UNCHANGED <<server, link, s2c, queue, got>>
      BY <1>1, <2>1 DEF Connect
    <3>2. cpc' \in [Client -> ClientSteps]
          /\ \A d \in Client : cpc'[d] = "start" => cpc[d] = "start"
      BY <3>1 DEF IInv, Shape, ClientSteps
    <3> QED
      BY <1>0, <3>1, <3>2, Frame DEF IInv, Shape, DeniedGetNothing
  <2>2. CASE spc # "off"
    <3>1. queue' = Append(queue, c) /\ link' = [link EXCEPT ![c] = "live"]
          /\ cpc' = [cpc EXCEPT ![c] = "prompt"] /\ UNCHANGED <<server, s2c, got>>
      BY <1>1, <2>2 DEF Connect, SetLink
    <3>2. /\ queue' \in Seq(Client) /\ Len(queue') = Len(queue) + 1
          /\ \A i \in 1..Len(queue) : queue'[i] = queue[i]
          /\ queue'[Len(queue) + 1] = c
      BY <3>1 DEF IInv, Shape
    <3>3. c # cur /\ \A i \in 1..Len(queue) : queue[i] # c
      BY <1>1, BoundAssumption DEF Connect, IInv, Placed
    <3>4. /\ link' \in [Client -> LinkStates] /\ cpc' \in [Client -> ClientSteps]
          /\ link'[c] = "live" /\ cpc'[c] = "prompt"
          /\ \A d \in Client \ {c} : link'[d] = link[d] /\ cpc'[d] = cpc[d]
      BY <3>1 DEF IInv, Shape, LinkStates, ClientSteps
    <3>5. Shape' /\ Served' /\ DeniedGetNothing'
      BY <3>1, <3>2, <3>4 DEF IInv, Shape, Served, DeniedGetNothing
    <3>6. Placed'
      <4>1. \A i \in 1..Len(queue) : queue[i] \in Client \ {c}
        BY <3>3 DEF IInv, Shape
      <4>2. cur # NoOne => cur \in Client \ {c}
        BY <3>3 DEF IInv, Shape
      <4>3. \A i, j \in 1..Len(queue') : queue'[i] = queue'[j] => i = j
        <5>1. Len(queue) \in Nat
          BY DEF IInv, Shape
        <5>2. ASSUME NEW i \in 1..Len(queue')
              PROVE  i \in 1..Len(queue) \/ i = Len(queue) + 1
          BY <3>2, <5>1
        <5>3. \A i, j \in 1..Len(queue) : queue[i] = queue[j] => i = j
          BY DEF IInv, Placed
        <5> QED
          BY <3>2, <3>3, <5>2, <5>3
      <4>4. \A i \in 1..Len(queue') :
              queue'[i] # cur' /\ link'[queue'[i]] \notin Over \cup {"none"}
        <5> SUFFICES ASSUME NEW i \in 1..Len(queue')
                     PROVE  queue'[i] # cur /\ link'[queue'[i]] \notin Over \cup {"none"}
          BY <3>1
        <5>1. CASE i \in 1..Len(queue)
          <6>1. queue[i] # cur /\ link[queue[i]] \notin Over \cup {"none"}
            BY <5>1 DEF IInv, Placed
          <6> QED
            BY <3>2, <3>4, <4>1, <5>1, <6>1
        <5>2. CASE i = Len(queue) + 1
          BY <3>2, <3>3, <3>4, <5>2 DEF Over
        <5>3. Len(queue) \in Nat
          BY DEF IInv, Shape
        <5> QED
          BY <3>2, <5>1, <5>2, <5>3
      <4>5. cur' # NoOne => link'[cur'] \notin Over \cup {"none"}
        BY <3>1, <3>4, <4>2 DEF IInv, Placed
      <4>6. \A d \in Client : cpc'[d] = "start" => link'[d] = "none"
        BY <3>4 DEF IInv, Placed
      <4> QED
        BY <2>2, <3>1, <4>3, <4>4, <4>5, <4>6 DEF Placed
    <3> QED
      BY <3>5, <3>6 DEF IInv
  <2> QED
    BY <2>1, <2>2
<1>2. CASE TypeLine(c)
  <2>1. CASE Close(c) /\ UNCHANGED got
    BY <1>2, <2>1, CloseFrame DEF TypeLine
  <2>2. CASE UNCHANGED <<link, s2c>> /\ got' \in {got, [got EXCEPT ![c] = <<>>]}
             /\ cpc' \in {cpc, [cpc EXCEPT ![c] = "recvfile"], [cpc EXCEPT ![c] = "recvmsg"]}
    <3>1. cpc' \in [Client -> ClientSteps] /\ got' \in [Client -> Seq(Tokens)]
          /\ (\A d \in Client : got'[d] = got[d] \/ got'[d] = <<>>)
          /\ (\A d \in Client : cpc'[d] = "start" => cpc[d] = "start")
      <4>1. <<>> \in Seq(Tokens)
        OBVIOUS
      <4>2. got' \in [Client -> Seq(Tokens)]
            /\ (\A d \in Client : got'[d] = got[d] \/ got'[d] = <<>>)
        BY <2>2, <4>1 DEF IInv, Shape
      <4>3. cpc' \in [Client -> ClientSteps]
            /\ (\A d \in Client : cpc'[d] = "start" => cpc[d] = "start")
        BY <2>2 DEF IInv, Shape, ClientSteps
      <4> QED
        BY <4>2, <4>3
    <3> QED
      BY <1>0, <1>2, <2>2, <3>1, Frame DEF TypeLine, IInv, Shape, DeniedGetNothing
  <2> QED
    BY <1>2, <2>1, <2>2 DEF TypeLine
<1>3. CASE Quit(c)
  BY <1>3, CloseFrame DEF Quit
<1>4. CASE ReceiveMessage(c)
  <2>1. cpc' = [cpc EXCEPT ![c] = "prompt"] /\ UNCHANGED <<server, queue, link, got>>
    BY <1>4 DEF ReceiveMessage
  <2>2. cpc' \in [Client -> ClientSteps]
        /\ \A d \in Client : cpc'[d] = "start" => cpc[d] = "start"
    BY <2>1 DEF IInv, Shape, ClientSteps
  <2>3. s2c' \in [Client -> Seq(Tokens)] /\ \A d \in Client : s2c[d] = <<>> => s2c'[d] = <<>>
    <3>1. s2c[c] \in Seq(Tokens)
      BY DEF IInv, Shape
    <3>2. CASE UNCHANGED s2c
      BY <3>2 DEF IInv, Shape
    <3>3. ASSUME NEW n \in 1..Len(s2c[c]), s2c' = [s2c EXCEPT ![c] = SubSeq(@, n + 1, Len(@))]
          PROVE  s2c' \in [Client -> Seq(Tokens)]
                 /\ \A d \in Client : s2c[d] = <<>> => s2c'[d] = <<>>
      <4>1. SubSeq(s2c[c], n + 1, Len(s2c[c])) \in Seq(Tokens) /\ s2c[c] # <<>>
        BY <3>1, <3>3
      <4> QED
        BY <3>3, <4>1 DEF IInv, Shape
    <3> QED
      BY <1>4, <3>2, <3>3 DEF ReceiveMessage
  <2> QED
    BY <1>0, <2>1, <2>2, <2>3, Frame DEF IInv, Shape, DeniedGetNothing
<1>5. CASE ReceiveFile(c)
  <2>1. UNCHANGED <<server, queue, link>>
    BY <1>5 DEF ReceiveFile
  <2>2. CASE s2c[c] # <<>> /\ got' = [got EXCEPT ![c] = Append(@, Head(s2c[c]))]
             /\ s2c' = [s2c EXCEPT ![c] = Tail(@)] /\ UNCHANGED cpc
    <3>1. c \in Allowed
      BY <2>2 DEF IInv, DeniedGetNothing
    <3>2. Append(got[c], Head(s2c[c])) \in Seq(Tokens) /\ Tail(s2c[c]) \in Seq(Tokens)
      <4>1. got[c] \in Seq(Tokens) /\ s2c[c] \in Seq(Tokens)
        BY DEF IInv, Shape
      <4>2. Head(s2c[c]) \in Tokens
        BY <2>2, <4>1
      <4> QED
        BY <2>2, <4>1, <4>2
    <3>3. got' \in [Client -> Seq(Tokens)] /\ s2c' \in [Client -> Seq(Tokens)]
          /\ \A d \in Client \ {c} : got'[d] = got[d] /\ s2c'[d] = s2c[d]
      BY <2>2, <3>2 DEF IInv, Shape
    <3> QED
      BY <1>0, <2>1, <2>2, <3>1, <3>3, Frame DEF IInv, Shape, DeniedGetNothing
  <2>3. CASE cpc' = [cpc EXCEPT ![c] = "prompt"] /\ UNCHANGED <<got, s2c>>
    <3>1. cpc' \in [Client -> ClientSteps]
          /\ \A d \in Client : cpc'[d] = "start" => cpc[d] = "start"
      BY <2>3 DEF IInv, Shape, ClientSteps
    <3> QED
      BY <1>0, <2>1, <2>3, <3>1, Frame DEF IInv, Shape, DeniedGetNothing
  <2> QED
    BY <1>5, <2>2, <2>3 DEF ReceiveFile
<1>6. CASE Kill(c)
  BY <1>6, CloseFrame DEF Kill
<1> QED
  BY <1>1, <1>2, <1>3, <1>4, <1>5, <1>6 DEF ClientStep

LEMMA InvStep ==
  ASSUME IInv, [Next]_vars
  PROVE  IInv'
<1> USE DEF IInv, Shape, Served, Placed, DeniedGetNothing, server, network, clients
<1>1. CASE UNCHANGED vars
  BY <1>1 DEF vars
<1>2. CASE Interrupt
  BY <1>2 DEF Interrupt
<1>3. ASSUME NEW c \in Client, RstArrives(c)
      PROVE  IInv'
  BY <1>3 DEF RstArrives, SetLink, LinkStates, Over
<1> QED
  BY <1>1, <1>2, <1>3, ServerInv, ClientInv DEF Next, Finished

\* IInv is invariant.
THEOREM Invariance == Spec => []IInv
BY InvInit, InvStep, PTL DEF Spec

\* DeniedGetNothing: whatever the clients, lines, files and sizes, a client whose
\* address is not the allowed one is sent nothing from connect to close.
THEOREM DeniedNothing == Spec => []DeniedGetNothing
BY Invariance, PTL DEF IInv

-----------------------------------------------------------------------------
(* The server takes turns as TurnServer says *)

Gone == {c \in Client : link[c] \in Over}

\* A step that leaves the queue, who is served and who is gone is no turn step.
LEMMA NoTurn ==
  ASSUME queue' = queue, cur' = cur, spc' = "off" <=> spc = "off",
         \A c \in Client : link'[c] \in Over <=> link[c] \in Over
  PROVE  UNCHANGED Turns!vars
<1>1. Gone' = Gone
  BY DEF Gone
<1>2. (spc # "off")' = (spc # "off")
  OBVIOUS
<1> QED
  BY <1>1, <1>2 DEF Turns!vars, Gone, Over

\* Every send leaves the connection in service open.
LEMMA SendNoTurn ==
  ASSUME IInv, NEW token \in Tokens, spc \in Serving \ {"check"}, spc' \in Serving,
         Sends(token) \/ SendFails, UNCHANGED cur
  PROVE  UNCHANGED Turns!vars
<1>1. cur \in Allowed /\ cur \in Client /\ cur # NoOne
  BY BoundAssumption DEF IInv, Served
<1>2. link'[cur] \notin Over /\ link[cur] \notin Over
  BY <1>1, SendStep DEF IInv, Placed
<1>3. queue' = queue /\ \A c \in Client \ {cur} : link'[c] = link[c]
  BY <1>1, SendStep
<1> QED
  BY <1>2, <1>3, NoTurn DEF Serving

LEMMA ReleaseTurn ==
  ASSUME IInv, spc \in Serving, spc' = "accept", cur' = NoOne, ReleaseLink(cur),
         UNCHANGED queue
  PROVE  Turns!Finish
<1>1. cur \in Client /\ cur # NoOne
  BY BoundAssumption DEF IInv, Served, Shape
<1>2. link'[cur] \in Over /\ \A c \in Client \ {cur} : link'[c] = link[c]
  BY <1>1, ReleaseStep DEF IInv
<1>3. Gone' = Gone \cup {cur}
  BY <1>1, <1>2 DEF Gone
<1>4. (spc # "off")' = (spc # "off")
  BY DEF Serving
<1> QED
  BY <1>1, <1>3, <1>4 DEF Turns!Finish, Gone, Over

LEMMA ServerTurn ==
  ASSUME IInv, ServerStep
  PROVE  [Turns!Next]_Turns!vars
<1> USE DEF server, network, clients
<1>1. CASE Accept
  <2>1. /\ spc # "off" /\ spc' # "off" /\ cur = NoOne /\ queue # <<>>
        /\ cur' = Head(queue) /\ queue' = Tail(queue) /\ Gone' = Gone
    BY <1>1 DEF Accept, IInv, Served, Serving, Gone
  <2>2. Turns!Start
    BY <2>1 DEF Turns!Start, Gone, Over
  <2> QED
    BY <2>2 DEF Turns!Next
<1>2. CASE AcceptInterrupted \/ Admit \/ Receive \/ ReceiveEnd \/ Copy \/ OpenFile \/ FileEnds
  BY <1>2, NoTurn DEF AcceptInterrupted, Admit, Receive, ReceiveEnd, Copy, OpenFile, FileEnds
<1>3. CASE Refuse \/ ReleaseClient
  BY <1>3, ReleaseTurn DEF Refuse, ReleaseClient, Serving, Turns!Next
<1>4. CASE ReceiveFails
  <2>1. cur \in Client
    BY <1>4 DEF ReceiveFails, IInv, Shape, Served, Serving
  <2>2. link' = link \/ (link' = [link EXCEPT ![cur] = "dead"] /\ link[cur] = "reset")
    BY <1>4 DEF ReceiveFails, SetLink
  <2>3. \A c \in Client : link'[c] \in Over <=> link[c] \in Over
    BY <2>1, <2>2 DEF IInv, Shape, Over
  <2> QED
    BY <1>4, <2>3, NoTurn DEF ReceiveFails
<1>5. CASE Reply
  BY <1>5, SendNoTurn, TokenTypes DEF Reply, Serving
<1>6. CASE SendPart
  <2>1. PartToken(filename, pos) \in Tokens
    BY <1>6, TokenTypes DEF SendPart, IInv, Shape
  <2> QED
    BY <1>6, <2>1, SendNoTurn DEF SendPart, Serving
<1>7. CASE Greet
  BY <1>7, SendNoTurn, TokenTypes DEF Greet, Serving
<1>8. CASE Exit
  <2>1. spc = "exit" /\ spc' = "off" /\ cur = NoOne /\ cur' = cur /\ queue' = <<>>
    BY <1>8 DEF Exit, IInv, Served, Serving
  <2>2. ToSet(queue) \subseteq Client
    BY DEF ToSet, IInv, Shape
  <2>3. \A c \in Client : link'[c] \in Over <=> link[c] \in Over \/ c \in ToSet(queue)
    BY <1>8 DEF Exit, Over
  <2>4. Gone' = Gone \cup ToSet(queue)
    BY <2>2, <2>3 DEF Gone
  <2>5. Turns!Close
    BY <2>1, <2>4 DEF Turns!Close, Turns!ToSet, ToSet, Gone, Over
  <2> QED
    BY <2>5 DEF Turns!Next
<1> QED
  BY <1>1, <1>2, <1>3, <1>4, <1>5, <1>6, <1>7, <1>8 DEF ServerStep

LEMMA ClientTurn ==
  ASSUME IInv, NEW c \in Client, ClientStep(c)
  PROVE  [Turns!Next]_Turns!vars
<1> USE DEF server, network, clients
<1>1. CASE Connect(c)
  <2>1. CASE spc = "off"
    BY <1>1, <2>1, NoTurn DEF Connect
  <2>2. CASE spc # "off"
    <3>1. queue' = Append(queue, c) /\ link' = [link EXCEPT ![c] = "live"]
          /\ UNCHANGED <<spc, cur>> /\ link[c] = "none"
      BY <1>1, <2>2 DEF Connect, SetLink, IInv, Placed
    <3>2. c # cur /\ c \notin ToSet(queue) /\ c \notin Gone
      <4>1. c # cur
        BY <3>1, BoundAssumption DEF IInv, Placed
      <4>2. \A i \in 1..Len(queue) : queue[i] # c
        BY <3>1 DEF IInv, Placed
      <4>3. DOMAIN queue = 1..Len(queue)
        BY DEF IInv, Shape
      <4> QED
        BY <3>1, <4>1, <4>2, <4>3 DEF ToSet, Gone, Over
    <3>3. Gone' = Gone
      BY <3>1 DEF Gone, Over, IInv, Shape
    <3>4. Turns!Arrive(c)
      BY <2>2, <3>1, <3>2, <3>3 DEF Turns!Arrive, Turns!ToSet, ToSet, Gone, Over
    <3> QED
      BY <3>4 DEF Turns!Next
  <2> QED
    BY <2>1, <2>2
<1>2. ASSUME Close(c), UNCHANGED <<server, queue>>
      PROVE  UNCHANGED Turns!vars
  BY <1>2, CloseStep, NoTurn DEF IInv
<1>3. CASE TypeLine(c)
  <2>1. CASE Close(c)
    BY <1>2, <1>3, <2>1 DEF TypeLine
  <2>2. CASE UNCHANGED link
    BY <1>3, <2>2, NoTurn DEF TypeLine
  <2> QED
    BY <1>3, <2>1, <2>2 DEF TypeLine
<1>4. CASE Quit(c) \/ Kill(c)
  BY <1>2, <1>4 DEF Quit, Kill
<1>5. CASE ReceiveMessage(c) \/ ReceiveFile(c)
  BY <1>5, NoTurn DEF ReceiveMessage, ReceiveFile
<1> QED
  BY <1>1, <1>3, <1>4, <1>5 DEF ClientStep

LEMMA TurnInit == Init => Turns!Init
BY DEF Init, Turns!Init

LEMMA TurnStep ==
  ASSUME IInv, [Next]_vars
  PROVE  [Turns!Next]_Turns!vars
<1> USE DEF server, network, clients
<1>1. CASE UNCHANGED vars
  BY <1>1, NoTurn DEF vars
<1>2. CASE Interrupt
  BY <1>2, NoTurn DEF Interrupt
<1>3. ASSUME NEW c \in Client, RstArrives(c)
      PROVE  UNCHANGED Turns!vars
  <2>1. \A d \in Client : link'[d] \in Over <=> link[d] \in Over
    BY <1>3 DEF RstArrives, SetLink, Over, IInv, Shape
  <2> QED
    BY <1>3, <2>1, NoTurn DEF RstArrives
<1> QED
  BY <1>1, <1>2, <1>3, ServerTurn, ClientTurn DEF Next, Finished

\* The safety part of TakesTurns: clients are served one at a time in the order
\* in which they came, each once, and when the listener closes those still in
\* the queue, and only they, are turned away, whatever fails or is interrupted.
THEOREM TurnOrder == Spec => Turns!Init /\ [][Turns!Next]_Turns!vars
BY TurnInit, TurnStep, Invariance, PTL DEF Spec

-----------------------------------------------------------------------------
(* Why the server stops accepting *)

\* The ends that TCP reports come from clients that have left, and a signal is an interrupt
\* or comes from sending to such a client.
Leavers ==
  /\ signal \in {"none", "int", "pipe"}
  /\ spc \in {"exit", "off"} => signal # "none"
  /\ \A c \in Client : link[c] \in {"fin", "doomed", "reset", "dead"} => cpc[c] = "done"
  /\ signal = "pipe" => \E c \in Allowed : cpc[c] = "done"

\* A step that ends no connection and raises no signal.
LEMMA LeaversFrame ==
  ASSUME Leavers, signal' = signal, spc' \in {"exit", "off"} => signal # "none",
         \A c \in Client : cpc[c] = "done" => cpc'[c] = "done",
         \A c \in Client : link'[c] \in {"fin", "doomed", "reset", "dead"} =>
           cpc'[c] = "done" \/ link[c] \in {"fin", "doomed", "reset", "dead"}
  PROVE  Leavers'
<1>1. \A c \in Allowed : c \in Client
  BY BoundAssumption
<1> QED
  BY <1>1 DEF Leavers

\* The signal of a failed send comes from a client that was served and has left.
LEMMA SendLeavers ==
  ASSUME IInv, Leavers, NEW token, Sends(token) \/ SendFails, cur \in Allowed,
         spc' \notin {"exit", "off"}, cpc' = cpc
  PROVE  Leavers'
<1>1. cur \in Client
  BY BoundAssumption
<1>2. \A c \in Client : link'[c] \in {"fin", "doomed", "reset", "dead"} =>
        link[c] \in {"fin", "doomed", "reset", "dead"}
  BY <1>1 DEF Sends, SendFails, SetLink, IInv, Shape
<1>3. CASE signal' = signal
  BY <1>2, <1>3, LeaversFrame
<1>4. CASE signal' # signal
  <2>1. signal' = "pipe" /\ link[cur] = "dead" /\ cpc[cur] = "done"
    BY <1>1, <1>4 DEF Sends, SendFails, Leavers
  <2> QED
    BY <1>2, <2>1 DEF Leavers
<1> QED
  BY <1>3, <1>4

LEMMA LeaversServer ==
  ASSUME IInv, Leavers, ServerStep
  PROVE  Leavers'
<1> USE DEF server, network, clients
<1>1. spc \in Serving => cur \in Client
  BY DEF IInv, Shape, Served
<1>2. spc \in Serving \ {"check"} => cur \in Allowed
  BY DEF IInv, Served
<1>3. CASE \/ Accept \/ AcceptInterrupted \/ Admit \/ Receive \/ ReceiveEnd \/ Copy
           \/ OpenFile \/ FileEnds
  BY <1>3, LeaversFrame DEF Accept, AcceptInterrupted, Admit, Receive, ReceiveEnd, Copy,
     OpenFile, FileEnds
<1>4. CASE Refuse \/ ReleaseClient
  <2>1. /\ cur \in Client /\ ReleaseLink(cur) /\ spc' = "accept" /\ signal' = signal
        /\ cpc' = cpc
    BY <1>1, <1>4 DEF Refuse, ReleaseClient, Serving
  <2>2. link'[cur] \in Over /\ \A c \in Client \ {cur} : link'[c] = link[c]
    BY <2>1, ReleaseStep DEF IInv
  <2> QED
    BY <2>1, <2>2, LeaversFrame DEF Over
<1>5. CASE ReceiveFails
  <2>1. \A c \in Client : link'[c] = link[c] \/ link[c] = "reset"
    BY <1>1, <1>5 DEF ReceiveFails, SetLink, IInv, Shape, Serving
  <2> QED
    BY <1>5, <2>1, LeaversFrame DEF ReceiveFails
<1>6. CASE Reply \/ SendPart \/ Greet
  <2>1. cur \in Allowed /\ spc' \notin {"exit", "off"} /\ cpc' = cpc
    BY <1>2, <1>6 DEF Reply, SendPart, Greet, Serving
  <2>2. \E token : Sends(token) \/ SendFails
    BY <1>6 DEF Reply, SendPart, Greet
  <2> QED
    BY <2>1, <2>2, SendLeavers
<1>7. CASE Exit
  <2>1. /\ signal' = signal /\ cpc' = cpc /\ signal # "none"
        /\ \A c \in Client : link'[c] \in {link[c], "aborted", "closed"}
    BY <1>7 DEF Exit, Leavers
  <2> QED
    BY <2>1, LeaversFrame
<1> QED
  BY <1>3, <1>4, <1>5, <1>6, <1>7 DEF ServerStep

LEMMA LeaversClient ==
  ASSUME IInv, Leavers, NEW c \in Client, RstArrives(c) \/ ClientStep(c)
  PROVE  Leavers'
<1> USE DEF server, network, clients
<1>1. UNCHANGED <<spc, signal>> /\ (spc' \in {"exit", "off"} => signal # "none")
  BY DEF RstArrives, ClientStep, Connect, TypeLine, Quit, Kill, ReceiveMessage, ReceiveFile,
     Leavers
<1>2. CASE Close(c)
  <2>1. /\ cpc' = [cpc EXCEPT ![c] = "done"]
        /\ \A d \in Client \ {c} : link'[d] = link[d]
    BY <1>2, CloseStep DEF IInv
  <2>2. cpc'[c] = "done" /\ \A d \in Client \ {c} : cpc'[d] = cpc[d]
    BY <2>1 DEF IInv, Shape
  <2> QED
    BY <1>1, <2>1, <2>2, LeaversFrame
<1>3. CASE RstArrives(c)
  BY <1>1, <1>3, LeaversFrame DEF RstArrives, SetLink, IInv, Shape
<1>4. CASE Connect(c)
  <2>1. link'[c] \in {link[c], "live"} /\ \A d \in Client \ {c} : link'[d] = link[d]
    BY <1>4 DEF Connect, SetLink, IInv, Shape
  <2>2. cpc[c] # "done" /\ \A d \in Client \ {c} : cpc'[d] = cpc[d]
    BY <1>4 DEF Connect, IInv, Shape
  <2>3. link[c] = "none"
    BY <1>4 DEF Connect, IInv, Placed
  <2> QED
    BY <1>1, <2>1, <2>2, <2>3, LeaversFrame
<1>5. CASE link' = link /\ cpc[c] # "done" /\ \A d \in Client \ {c} : cpc'[d] = cpc[d]
  BY <1>1, <1>5, LeaversFrame
<1>6. CASE TypeLine(c) \/ ReceiveMessage(c) \/ ReceiveFile(c)
  <2>1. cpc[c] # "done" /\ (Close(c) \/ link' = link)
    BY <1>6 DEF TypeLine, ReceiveMessage, ReceiveFile
  <2>2. Close(c) \/ \A d \in Client \ {c} : cpc'[d] = cpc[d]
    BY <1>6 DEF TypeLine, ReceiveMessage, ReceiveFile, IInv, Shape
  <2> QED
    BY <1>2, <1>5, <2>1, <2>2
<1> QED
  BY <1>2, <1>3, <1>4, <1>6 DEF ClientStep, Quit, Kill

\* Until a user interrupts it, the server goes on accepting as long as no client that it
\* serves has left: no line, request, file, refused client, full queue or error of a call
\* ends the loop (readme.md:258, chatserver.c:189-:196).
THEOREM AcceptsUntilLeft == Spec => []EndsForCause
<1>1. Init => Leavers
  BY DEF Init, Leavers
<1>2. ASSUME IInv, Leavers, [Next]_vars PROVE Leavers'
  <2>1. CASE UNCHANGED vars
    BY <1>2, <2>1, LeaversFrame DEF vars, Leavers
  <2>2. CASE Interrupt
    BY <1>2, <2>2 DEF Interrupt, server, network, clients, Leavers
  <2> QED
    BY <1>2, <2>1, <2>2, LeaversServer, LeaversClient DEF Next, Finished
<1>3. Leavers => EndsForCause
  BY DEF Leavers, EndsForCause
<1> QED
  BY <1>1, <1>2, <1>3, Invariance, PTL DEF Spec
=============================================================================
