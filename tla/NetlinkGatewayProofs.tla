------------------------ MODULE NetlinkGatewayProofs -------------------------
(***************************************************************************)
(* Proofs for NetlinkGateway, for any clients, names, addresses and number *)
(* of datagrams, whether or not send may fail: the exchange with the       *)
(* kernel module stays in step, and the gateway implements Registry.       *)
(***************************************************************************)
EXTENDS NetlinkGateway, TLAPS

\* What the kernel module sends in answer to a request r.
AnswerTo(r) == [type |-> r.type,
                code |-> IF Applies(r) THEN "success" ELSE "failed",
                addr |-> table[r.name]]

LEMMA UsableIsRequest ==
  \A content \in Content : Usable(content) => content \in Request
BY DEF Content, Unusable, Usable

\* Who is being served: a request is only taken on from a datagram.
Serving == pc # "receive" => client_addr \in Client

\* The module is only asked, and the client only answered, about requests.
Busy ==
  /\ pc \in {"wait", "reply"} => Usable(buff_rcv)
  /\ pc = "reply" => result \in Results

IInv == TypeOK /\ Busy /\ Serving /\ InStep

LEMMA InvInit == Init => IInv
<1> SUFFICES ASSUME Init PROVE IInv
  OBVIOUS
<1>1. buff_rcv \in Content
  BY DEF Init, Content
<1>2. answers \in Seq(Message)
  BY DEF Init
<1>3. table \in [Name -> Addr \cup {NoAddr}]
  BY DEF Init
<1> QED
  BY <1>1, <1>2, <1>3 DEF Init, IInv, TypeOK, Busy, Serving, InStep

LEMMA InvStep ==
  ASSUME IInv, [Next]_vars
  PROVE  IInv'
<1> USE DEF IInv, TypeOK, Busy, Serving, InStep, gateway, kernel, Usable
<1>1. CASE UNCHANGED vars
  BY <1>1 DEF vars
<1>2. ASSUME NEW c \in Client, NEW content \in Content, SendDatagram(c, content)
      PROVE  IInv'
  BY <1>2 DEF SendDatagram
<1>4. CASE Receive
  <2>1. buff_rcv' \in Content
    BY <1>4 DEF Receive, Read
  <2> QED
    BY <1>4, <2>1 DEF Receive
<1>5. CASE BadChecksum
  BY <1>5 DEF BadChecksum
<1>9. CASE Suspicious
  BY <1>9 DEF Suspicious
<1>6. CASE Forward
  <2>1. buff_rcv \in Request
    BY <1>6, UsableIsRequest DEF Forward
  <2>2. CASE UNCHANGED kernel
    BY <1>6, <2>2 DEF Forward
  <2>3. CASE Handle(buff_rcv)
    <3>1. table' \in [Name -> Addr \cup {NoAddr}]
      BY <2>1, <2>3 DEF Handle, Request
    <3>2. CASE overrun' = TRUE /\ UNCHANGED answers
      BY <1>6, <3>1, <3>2 DEF Forward
    <3>3. CASE UNCHANGED overrun /\ answers' = Append(answers, AnswerTo(buff_rcv))
      <4>1. AnswerTo(buff_rcv) \in Message
        BY <2>1 DEF AnswerTo, Request, Message
      <4>2. answers = <<>>
        BY <1>6 DEF Forward
      <4>3. answers' = <<AnswerTo(buff_rcv)>>
        BY <3>3, <4>2
      <4>4. answers' \in Seq(Message) /\ Len(answers') = 1
            /\ Head(answers').type = buff_rcv.type
        BY <4>1, <4>3 DEF AnswerTo
      <4> QED
        BY <1>6, <3>1, <3>3, <4>4 DEF Forward
    <3> QED
      BY <2>3, <3>2, <3>3 DEF Handle, AnswerTo
  <2> QED
    BY <1>6, <2>2, <2>3 DEF Forward
<1>7. CASE Collect
  <2>3. result' \in Results
    <3>1. CASE overrun
      BY <1>7, <3>1 DEF Collect, Unknown, Results, Codes
    <3>2. CASE ~overrun /\ answers # <<>>
      <4>1. Head(answers) \in Message /\ buff_rcv \in Request
        BY <1>7, <3>2, UsableIsRequest DEF Collect
      <4>2. Outcome(buff_rcv, Head(answers)) \in Results
        BY <4>1 DEF Outcome, Failed, Unknown, Results, Codes, Message, Request
      <4> QED
        BY <1>7, <3>2, <4>2 DEF Collect
    <3> QED
      BY <1>7, <3>1, <3>2 DEF Collect
  <2>1. CASE overrun
    BY <1>7, <2>1, <2>3 DEF Collect
  <2>2. CASE ~overrun /\ answers # <<>>
    <3>1. Tail(answers) \in Seq(Message) /\ Len(Tail(answers)) = Len(answers) - 1
      BY <2>2
    <3>2. Tail(answers) = <<>>
      BY <1>7, <2>2, <3>1 DEF Collect
    <3> QED
      BY <1>7, <2>2, <2>3, <3>1, <3>2 DEF Collect
  <2> QED
    BY <1>7, <2>1, <2>2 DEF Collect
<1>8. CASE Reply
  <2>1. client_addr \in Client /\ buff_rcv \in Request /\ result \in Results
    BY <1>8, UsableIsRequest DEF Reply
  <2>2. buff_rcv.type \in {"register", "deregister", "get"}
    BY <1>8 DEF Reply
  <2> QED
    BY <1>8, <2>1, <2>2 DEF Reply
<1> QED
  BY <1>1, <1>2, <1>4, <1>5, <1>6, <1>7, <1>8, <1>9 DEF Next, Process

\* IInv is invariant.
THEOREM Invariance == Spec => []IInv
BY InvInit, InvStep, PTL DEF Spec

\* TypeOK, for any constants.
THEOREM TypeCorrect == Spec => []TypeOK
BY Invariance, PTL DEF IInv

\* InStep, for any number of clients and datagrams: the answers of the kernel
\* module are never taken for answers to another request.
THEOREM AlwaysInStep == Spec => []InStep
BY Invariance, PTL DEF IInv

-----------------------------------------------------------------------------
(* What the answers rest on *)

\* The same of the table and of every stage of a request.
Grounds ==
  /\ Whole => \A n \in Name : table[n] # NoAddr => Registered(n, table[n])
  /\ pc # "receive" /\ Usable(buff_rcv) => AskedBy(client_addr, buff_rcv)
  /\ Whole /\ pc = "wait" /\ answers # <<>> => FoundTrue(buff_rcv, Head(answers))
  /\ Whole /\ pc = "reply" => FoundTrue(buff_rcv, result)
  /\ AnswersGrounded

\* Nothing that was sent is taken back.
LEMMA SentGrows ==
  ASSUME sent \subseteq sent'
  PROVE  /\ \A n, a : Registered(n, a) => Registered(n, a)'
         /\ \A r, found : FoundTrue(r, found) => FoundTrue(r, found)'
         /\ \A c, r : AskedBy(c, r) => AskedBy(c, r)'
         /\ Whole' => Whole
BY DEF Registered, FoundTrue, AskedBy, Whole

LEMMA GroundsStep ==
  ASSUME IInv, Grounds, [Next]_vars
  PROVE  Grounds'
<1> USE DEF gateway, kernel
<1>1. sent \subseteq sent'
  BY DEF Next, Process, vars, SendDatagram,
         Receive, BadChecksum, Suspicious, Forward, Collect, Reply
<1>2. /\ \A n, a : Registered(n, a) => Registered(n, a)'
      /\ \A r, found : FoundTrue(r, found) => FoundTrue(r, found)'
      /\ \A c, r : AskedBy(c, r) => AskedBy(c, r)'
      /\ Whole' => Whole
  BY <1>1, SentGrows
<1>3. CASE UNCHANGED <<pc, buff_rcv, client_addr, result, answer, table, answers>>
  BY <1>2, <1>3 DEF Grounds, AnswersGrounded, Usable
<1>4. CASE Receive
  <2>1. PICK d \in sent :
          /\ buff_rcv' \in Read(d.content)
          /\ client_addr' = d.from
    BY <1>4 DEF Receive
  <2>2. d \in sent /\ sent' = sent
    BY <1>4, <2>1 DEF Receive
  <2>3. Usable(buff_rcv)' => AskedBy(client_addr, buff_rcv)'
    BY <2>1, <2>2 DEF AskedBy, Read
  <2> QED
    BY <1>2, <1>4, <2>3 DEF Receive, Grounds, AnswersGrounded
<1>5. CASE BadChecksum \/ Suspicious
  BY <1>2, <1>5 DEF BadChecksum, Suspicious, Grounds, AnswersGrounded
<1>6. CASE Forward
  <2>1. /\ buff_rcv \in Request /\ pc = "parse" /\ Usable(buff_rcv)
        /\ UNCHANGED <<buff_rcv, client_addr, result, answer, sent>> /\ pc' = "wait"
    BY <1>6, UsableIsRequest DEF Forward, IInv, TypeOK
  <2>2. AskedBy(client_addr, buff_rcv)' /\ AnswersGrounded'
    BY <1>2, <2>1 DEF Grounds, AnswersGrounded
  <2>3. answers = <<>>
    BY <2>1 DEF IInv, InStep
  <2>4. CASE UNCHANGED kernel
    BY <1>2, <2>1, <2>2, <2>3, <2>4 DEF Grounds
  <2>5. CASE Handle(buff_rcv)
    <3>1. ASSUME Whole, NEW n \in Name, table'[n] # NoAddr PROVE Registered(n, table'[n])
      <4>1. CASE table'[n] = table[n]
        BY <3>1, <4>1 DEF Grounds
      <4>2. CASE table'[n] # table[n]
        <5>1. /\ buff_rcv.type = "register" /\ n = buff_rcv.name
              /\ table'[n] = buff_rcv.addr /\ buff_rcv.addr \in Addr
          BY <2>1, <2>5, <3>1, <4>2 DEF Handle, IInv, TypeOK, Request
        <5>2. buff_rcv = [type |-> "register", name |-> n, addr |-> table'[n]]
          BY <2>1, <5>1 DEF Request
        <5>3. \E d \in sent : d.content = buff_rcv
          BY <2>1, <3>1 DEF Grounds, AskedBy, Whole
        <5> QED
          BY <5>2, <5>3 DEF Registered
      <4> QED
        BY <4>1, <4>2
    <3>2. Whole /\ answers' # <<>> => FoundTrue(buff_rcv, Head(answers'))
      <4>1. CASE UNCHANGED answers
        BY <2>3, <4>1
      <4>2. CASE answers' = Append(answers, AnswerTo(buff_rcv))
        <5>1. Head(answers') = AnswerTo(buff_rcv)
          BY <2>3, <4>2
        <5>2. ASSUME Whole, buff_rcv.type = "get", Applies(buff_rcv)
              PROVE  Registered(buff_rcv.name, table[buff_rcv.name])
          <6>1. buff_rcv.name \in Name /\ table[buff_rcv.name] # NoAddr
            BY <2>1, <5>2 DEF Applies, Request
          <6> QED
            BY <5>2, <6>1 DEF Grounds
        <5> QED
          BY <5>1, <5>2 DEF FoundTrue, AnswerTo
      <4> QED
        BY <2>5, <4>1, <4>2 DEF Handle, AnswerTo
    <3> QED
      BY <1>2, <2>1, <2>2, <3>1, <3>2 DEF Grounds
  <2> QED
    BY <1>6, <2>4, <2>5 DEF Forward
<1>7. CASE Collect
  <2>1. /\ pc = "wait" /\ pc' = "reply" /\ Usable(buff_rcv)
        /\ UNCHANGED <<buff_rcv, client_addr, answer, table, sent>>
    BY <1>7 DEF Collect, IInv, Busy
  <2>2. Whole => FoundTrue(buff_rcv, result')
    <3>1. CASE result' = Unknown
      BY <3>1 DEF FoundTrue, Unknown
    <3>2. CASE answers # <<>> /\ result' = Outcome(buff_rcv, Head(answers))
      <4>1. Whole => FoundTrue(buff_rcv, Head(answers))
        BY <2>1, <3>2 DEF Grounds
      <4> QED
        BY <3>2, <4>1 DEF Outcome, Unknown, Failed, FoundTrue
    <3> QED
      BY <1>7, <3>1, <3>2 DEF Collect
  <2> QED
    BY <1>2, <2>1, <2>2 DEF Grounds, AnswersGrounded
<1>8. CASE Reply
  <2>1. /\ pc = "reply" /\ pc' = "receive" /\ Usable(buff_rcv) /\ UNCHANGED <<table, sent>>
        /\ answer' = [to |-> client_addr, req |-> buff_rcv, result |-> result]
    BY <1>8 DEF Reply, IInv, Busy
  <2>2. AskedBy(client_addr, buff_rcv) /\ (Whole => FoundTrue(buff_rcv, result))
    BY <2>1 DEF Grounds
  <2>3. AnswersGrounded'
    BY <1>2, <2>1, <2>2 DEF AnswersGrounded
  <2> QED
    BY <1>2, <2>1, <2>3 DEF Grounds
<1> QED
  BY <1>3, <1>4, <1>5, <1>6, <1>7, <1>8
  DEF Next, Process, vars, SendDatagram

\* An answer goes to a client that asked for it, and an address it names was registered for
\* that name by somebody: client_addr, buff_rcv and what the module has queued still belong
\* together when the answer is sent (server2.c:192, :222, :252).  Once somebody has sent a
\* short datagram, only the first half remains, and for its sender not even that: a short
\* datagram may be read as any request (:139, :598).
THEOREM AnswersBacked == Spec => []AnswersGrounded
<1>1. Init => Grounds
  BY DEF Init, Grounds, AnswersGrounded
<1>2. IInv /\ Grounds /\ [Next]_vars => Grounds'
  BY GroundsStep
<1>3. Grounds => AnswersGrounded
  BY DEF Grounds
<1> QED
  BY Invariance, <1>1, <1>2, <1>3, PTL DEF Spec

-----------------------------------------------------------------------------
(* The gateway implements Registry *)

LEMMA SameRules ==
  \A r \in Request : Jobs!Applies(r) <=> Applies(r)
BY DEF Jobs!Applies, Applies

\* What the module does to the table is what Registry says.
LEMMA HandleTable ==
  ASSUME NEW r \in Request, Handle(r)
  PROVE  table' = Jobs!TableAfter(r)
BY SameRules DEF Handle, Jobs!TableAfter

\* What the gateway makes of the module's answer is what Registry says.
LEMMA AnswerOutcome ==
  ASSUME NEW r \in Request
  PROVE  Outcome(r, AnswerTo(r)) = Jobs!Result(r)
BY SameRules DEF Outcome, AnswerTo, Jobs!Result, Applies, Request, Failed, Unknown

LEMMA RefineInit == Init => Jobs!Init
BY DEF Init, Jobs!Init, JobNow

LEMMA RefineStep ==
  ASSUME IInv, IInv', [Next]_vars
  PROVE  [Jobs!Next]_Jobs!vars
<1> USE DEF gateway, kernel, Jobs!vars
<1>1. CASE UNCHANGED vars
  BY <1>1 DEF vars, JobNow, JobResult
<1>2. ASSUME NEW c \in Client, NEW content \in Content, SendDatagram(c, content)
      PROVE  UNCHANGED Jobs!vars
  BY <1>2 DEF SendDatagram, JobNow, JobResult
<1>4. CASE Receive
  <2>1. JobNow = NoJob /\ UNCHANGED <<table, answer>> /\ pc' = "parse"
    BY <1>4 DEF Receive, JobNow
  <2>2. CASE ~Usable(buff_rcv')
    BY <2>1, <2>2 DEF JobNow, Usable
  <2>3. CASE Usable(buff_rcv')
    <3>1. client_addr' \in Client /\ buff_rcv' \in Request
      BY <2>1, <2>3, UsableIsRequest DEF IInv, TypeOK, Busy, Serving
    <3>2. JobNow' = [to |-> client_addr', req |-> buff_rcv', result |-> Jobs!Pending]
      BY <2>1, <2>3 DEF JobNow, JobResult, Usable, Jobs!Pending
    <3> QED
      BY <2>1, <3>1, <3>2 DEF Jobs!Next, Jobs!Take, Jobs!Request, Request
  <2> QED
    BY <2>2, <2>3
<1>5. CASE BadChecksum
  BY <1>5 DEF BadChecksum, JobNow, Usable
<1>9. CASE Suspicious
  BY <1>9 DEF Suspicious, JobNow, Usable
<1>6. CASE Forward
  <2>1. buff_rcv \in Request /\ client_addr \in Client /\ pc = "parse" /\ pc' = "wait"
        /\ UNCHANGED <<buff_rcv, client_addr, answer>>
    BY <1>6, UsableIsRequest DEF Forward, IInv, TypeOK, Busy, Serving
  <2>2. answers = <<>> /\ ~overrun
    BY <2>1 DEF IInv, InStep
  <2> DEFINE job(r) == [to |-> client_addr, req |-> buff_rcv, result |-> r]
  <2>3. JobNow = job(Jobs!Pending)
    BY <2>1, <1>6 DEF Forward, JobNow, JobResult, Jobs!Pending
  <2>4. JobNow # NoJob
    BY <2>1, <2>3, NoJobAssumption DEF Job, Jobs!Pending
  <2>5. CASE UNCHANGED kernel
    BY <2>1, <2>2, <2>3, <2>5, <1>6 DEF Forward, JobNow, JobResult, Usable, Jobs!Pending
  <2>6. CASE Handle(buff_rcv) /\ overrun'
    <3>1. JobNow' = job(Jobs!Unknown)
      BY <1>6, <2>1, <2>6 DEF Forward, JobNow, JobResult, Usable, Unknown, Jobs!Unknown
    <3>2. table' = Jobs!TableAfter(buff_rcv)
      BY <2>1, <2>6, HandleTable
    <3> QED
      BY <2>1, <2>3, <2>4, <3>1, <3>2 DEF Jobs!Next, Jobs!Lose
  <2>7. CASE Handle(buff_rcv) /\ ~overrun'
    <3>1. answers' = <<AnswerTo(buff_rcv)>>
      BY <2>2, <2>7 DEF Handle, AnswerTo
    <3>2. JobNow' = job(Jobs!Result(buff_rcv))
      <4>1. answers' # <<>> /\ Head(answers') = AnswerTo(buff_rcv)
        BY <3>1
      <4>2. JobResult' = Outcome(buff_rcv, AnswerTo(buff_rcv))
        BY <2>1, <2>7, <4>1 DEF JobResult, Outcome
      <4> QED
        BY <1>6, <2>1, <4>2, AnswerOutcome DEF Forward, JobNow, Usable
    <3>3. table' = Jobs!TableAfter(buff_rcv)
      BY <2>1, <2>7, HandleTable
    <3> QED
      BY <2>1, <2>3, <2>4, <3>2, <3>3 DEF Jobs!Next, Jobs!Perform
  <2> QED
    BY <1>6, <2>5, <2>6, <2>7 DEF Forward
<1>7. CASE Collect
  <2>1. pc = "wait" /\ pc' = "reply" /\ UNCHANGED <<buff_rcv, client_addr, answer, table>>
    BY <1>7 DEF Collect
  <2>2. JobResult = result'
    BY <1>7 DEF Collect, JobResult
  <2>3. JobResult' = result'
    BY <2>1 DEF JobResult
  <2> QED
    BY <2>1, <2>2, <2>3 DEF JobNow, Usable
<1>8. CASE Reply
  <2>1. pc = "reply" /\ pc' = "receive" /\ UNCHANGED table
        /\ answer' = [to |-> client_addr, req |-> buff_rcv, result |-> result]
    BY <1>8 DEF Reply
  <2>2. client_addr \in Client /\ buff_rcv \in Request /\ result \in Results
        /\ Usable(buff_rcv)
    BY <2>1, UsableIsRequest DEF IInv, TypeOK, Busy, Serving
  <2>3. JobNow = answer'
    BY <2>1, <2>2 DEF JobNow, JobResult
  <2>4. JobNow' = NoJob
    BY <2>1 DEF JobNow
  <2>5. JobNow # NoJob /\ JobNow.result # Jobs!Pending
    BY <2>1, <2>2, <2>3, NoJobAssumption DEF Job, Results, Codes, Jobs!Pending
  <2> QED
    BY <2>1, <2>3, <2>4, <2>5 DEF Jobs!Next, Jobs!Answer
<1> QED
  BY <1>1, <1>2, <1>4, <1>5, <1>6, <1>7, <1>8, <1>9 DEF Next, Process

\* ImplementsRegistry: every client is told what came of its own request, and a
\* request is carried out at most once, whatever the network does and whether or
\* not send to the module fails.
THEOREM Refinement == Spec => ImplementsRegistry
<1>1. IInv /\ IInv' /\ [Next]_vars => [Jobs!Next]_Jobs!vars
  BY RefineStep
<1> QED
  BY RefineInit, Invariance, <1>1, PTL DEF Spec, ImplementsRegistry, Jobs!Spec
=============================================================================
