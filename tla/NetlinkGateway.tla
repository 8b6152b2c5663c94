--------------------------- MODULE NetlinkGateway ----------------------------
(***************************************************************************)
(* The gateway of src/netlink/server2.c: it receives requests in UDP       *)
(* datagrams, passes each over a netlink socket to a kernel module that    *)
(* keeps a table of names and IPv4 addresses, waits for the module's       *)
(* answer, and sends an answer to the client.                              *)
(*                                                                         *)
(* The kernel module and the clients are not in the repository.  The       *)
(* module is modelled from the messages server2.c exchanges with it: it    *)
(* handles a request inside the gateway's send and queues one answer on    *)
(* the gateway's socket.  When that answer cannot be queued, netlink drops *)
(* it and reports the loss as an error of the next recv.  The clients send *)
(* any datagrams; the network loses, duplicates, reorders and corrupts     *)
(* them: a datagram that was sent may arrive at any time, any number of    *)
(* times, or never.                                                        *)
(*                                                                         *)
(* A datagram's content is a request, or one the gateway cannot use:       *)
(*   badsum   the checksum does not match                                  *)
(*   other    the type is none of the three                                *)
(*   short    no data, or fewer bytes than a request has; the program then *)
(*            reads these bytes and, behind them, those of earlier datagrams *)
(***************************************************************************)
EXTENDS Naturals, Sequences, FiniteSets

CONSTANTS
  Client,      \* senders of datagrams
  Name, Addr,
  NoAddr,      \* no address
  NoJob,       \* nothing
  NoClient,    \* client_addr before the first datagram
  MaxSent,     \* bound: different datagrams the clients send
  SendMayFail  \* send to the module may fail: it is not loaded, no memory

ASSUME GatewayAssumption ==
  /\ NoAddr \notin Addr
  /\ NoClient \notin Client
  /\ MaxSent \in Nat
  /\ SendMayFail \in BOOLEAN

Request == [type : {"register", "deregister"}, name : Name, addr : Addr]
             \cup [type : {"get"}, name : Name, addr : {NoAddr}]
Unusable == {[type |-> t, name |-> NoJob, addr |-> NoAddr] :
               t \in {"badsum", "other", "short"}}
Content == Request \cup Unusable
\* Every request in progress, with what may have come of it.
Job == [to : Client, req : Request,
        result : [code : {"pending", "success", "failed", "unknown"},
                  addr : Addr \cup {NoAddr}]]
ASSUME NoJobAssumption == NoJob \notin Job

Usable(content) == content.type \in {"register", "deregister", "get"}

VARIABLES
  \* the gateway
  pc,          \* "receive", "parse", "wait" for the module, "reply"
  buff_rcv,    \* what the program reads in its datagram buffer
  client_addr, \* the sender of the last datagram
  result,      \* what send_add, send_del or send_get_message made of it
  answer,      \* the last answer to a request: to whom, to what, its result
  \* the kernel
  table,       \* the module's table
  answers,     \* answers queued on the netlink socket
  overrun,     \* an answer was dropped; recv will report it
  sent         \* every datagram sent

gateway == <<pc, buff_rcv, client_addr, result, answer>>
kernel == <<table, answers, overrun>>
vars == <<pc, buff_rcv, client_addr, result, answer, table, answers, overrun, sent>>

\* The buffer is not initialised; what it holds is taken to be no request.
Init ==
  /\ pc = "receive"
  /\ buff_rcv \in {c \in Unusable : c.type # "short"}
  /\ client_addr = NoClient
  /\ result = NoJob
  /\ answer = NoJob
  /\ table = [n \in Name |-> NoAddr]
  /\ answers = <<>>
  /\ overrun = FALSE
  /\ sent = {}

-----------------------------------------------------------------------------
(* The clients *)

SendDatagram(c, content) ==
  LET d == [from |-> c, content |-> content]
  IN  /\ Cardinality(sent \cup {d}) <= MaxSent
      /\ sent' = sent \cup {d}
      /\ UNCHANGED <<gateway, kernel>>

-----------------------------------------------------------------------------
(* The kernel module *)

Applies(r) ==
  CASE r.type = "register"   -> table[r.name] = NoAddr
    [] r.type = "deregister" -> table[r.name] = r.addr
    [] r.type = "get"        -> table[r.name] # NoAddr

\* The module carries out r, and its answer is queued or dropped.
Handle(r) ==
  /\ table' = IF ~Applies(r) \/ r.type = "get" THEN table
              ELSE [table EXCEPT ![r.name] =
                      IF r.type = "register" THEN r.addr ELSE NoAddr]
  /\ \/ /\ answers' = Append(answers,
             [type |-> r.type,
              code |-> IF Applies(r) THEN "success" ELSE "failed",
              addr |-> table[r.name]])
        /\ UNCHANGED overrun
     \/ overrun' = TRUE /\ UNCHANGED answers

-----------------------------------------------------------------------------
(* The gateway *)

Unknown == [code |-> "unknown", addr |-> NoAddr]   \* MSG_KERNEL_NETERR
Failed == [code |-> "failed", addr |-> NoAddr]     \* MSG_FAILED

\* What is read after a datagram: behind a short one, the buffer is as it was.  The whole
\* is the request before, or another that nobody sent and whose 8-bit checksum matches,
\* or nothing that can be used.
Read(content) == IF content.type = "short" THEN {c \in Content : c.type # "short"}
                 ELSE {content}

\* Mutant of Receive: only the first sender is stored.
ReceiveKeepsSender ==
  /\ pc = "receive"
  /\ \E d \in sent :
       /\ buff_rcv' \in Read(d.content)
       /\ client_addr' = IF client_addr = NoClient THEN d.from ELSE client_addr
  /\ pc' = "parse"
  /\ UNCHANGED <<result, answer, kernel, sent>>

\* recvfrom.  When it fails, an error goes to the sender of the datagram before.
Receive ==
  /\ pc = "receive"
  /\ \E d \in sent :
       /\ buff_rcv' \in Read(d.content)
       /\ client_addr' = d.from
  /\ pc' = "parse"
  /\ UNCHANGED <<result, answer, kernel, sent>>

\* Mutant of BadChecksum: no `continue' after the error is sent.
ChecksumFallsThrough ==
  /\ pc = "parse"
  /\ buff_rcv.type = "badsum"
  /\ result' = Unknown
  /\ pc' = "reply"
  /\ UNCHANGED <<buff_rcv, client_addr, answer, kernel, sent>>

\* checksum_verify fails: the client is sent one byte, net_error[0].
BadChecksum ==
  /\ pc = "parse"
  /\ buff_rcv.type = "badsum"
  /\ pc' = "receive"
  /\ UNCHANGED <<buff_rcv, client_addr, result, answer, kernel, sent>>

\* The type is none of the three: the client is sent MSG_TYPE_NETERR.
Suspicious ==
  /\ pc = "parse"
  /\ buff_rcv.type = "other"
  /\ pc' = "receive"
  /\ UNCHANGED <<buff_rcv, client_addr, result, answer, kernel, sent>>

\* send to the module, whose result is not looked at
Forward ==
  /\ pc = "parse"
  /\ Usable(buff_rcv)
  /\ \/ Handle(buff_rcv)
     \/ SendMayFail /\ UNCHANGED kernel
  /\ pc' = "wait"
  /\ UNCHANGED <<buff_rcv, client_addr, result, answer, sent>>

\* Mutant of Outcome: the address is taken from the request for every type.
OutcomeEchoes(r, msg) ==
  IF msg.type # r.type THEN Unknown
  ELSE IF msg.code # "success" THEN Failed
  ELSE [code |-> "success", addr |-> r.addr]

\* What the gateway makes of a message from the module.
Outcome(r, msg) ==
  IF msg.type # r.type THEN Unknown
  ELSE IF msg.code # "success" THEN Failed
  ELSE [code |-> "success", addr |-> IF r.type = "get" THEN msg.addr ELSE r.addr]

\* Mutant of Collect: the function returns MSG_KERNEL_NETERR before recv.
CollectEarly ==
  /\ pc = "wait"
  /\ result' = Unknown
  /\ pc' = "reply"
  /\ UNCHANGED <<buff_rcv, client_addr, answer, kernel, sent>>

\* Mutant of Collect: an error of recv makes the program wait again.
CollectRetries ==
  /\ pc = "wait"
  /\ \/ overrun /\ overrun' = FALSE /\ UNCHANGED <<answers, result, pc>>
     \/ /\ ~overrun
        /\ answers # <<>>
        /\ answers' = Tail(answers)
        /\ result' = Outcome(buff_rcv, Head(answers))
        /\ pc' = "reply"
        /\ UNCHANGED overrun
  /\ UNCHANGED <<buff_rcv, client_addr, answer, table, sent>>

\* recv from the module.  When it fails, the buffer still holds the request,
\* whose type is not that of an answer: the gateway takes it for an error of
\* the kernel.
Collect ==
  /\ pc = "wait"
  /\ \/ /\ overrun
        /\ overrun' = FALSE
        /\ result' = Unknown
        /\ UNCHANGED answers
     \/ /\ ~overrun
        /\ answers # <<>>
        /\ answers' = Tail(answers)
        /\ result' = Outcome(buff_rcv, Head(answers))
        /\ UNCHANGED overrun
  /\ pc' = "reply"
  /\ UNCHANGED <<buff_rcv, client_addr, answer, table, sent>>

\* sendto the client: the answer, kernel_failure or, with the type of the answer,
\* net_error.
Reply ==
  /\ pc = "reply"
  /\ answer' = [to |-> client_addr, req |-> buff_rcv, result |-> result]
  /\ result' = NoJob
  /\ pc' = "receive"
  /\ UNCHANGED <<buff_rcv, client_addr, kernel, sent>>

\* What the gateway does about a datagram, once it has one.
Process == BadChecksum \/ Suspicious \/ Forward \/ Collect \/ Reply

Next ==
  \/ \E c \in Client, content \in Content : SendDatagram(c, content)
  \/ Receive
  \/ Process

Spec == Init /\ [][Next]_vars /\ WF_vars(Process)

-----------------------------------------------------------------------------
(* Properties *)

Codes == {"success", "failed", "unknown"}
Results == [code : Codes, addr : Addr \cup {NoAddr}]

Message == [type : {"register", "deregister", "get"},
            code : {"success", "failed"}, addr : Addr \cup {NoAddr}]

\* Domains.
TypeOK ==
  /\ pc \in {"receive", "parse", "wait", "reply"}
  /\ buff_rcv \in Content
  /\ client_addr \in Client \cup {NoClient}
  /\ result \in Results \cup {NoJob}
  /\ answer \in [to : Client, req : Request, result : Results] \cup {NoJob}
  /\ table \in [Name -> Addr \cup {NoAddr}]
  /\ answers \in Seq(Message)
  /\ overrun \in BOOLEAN
  /\ sent \subseteq [from : Client, content : Content]

\* The exchange with the module stays in step: between requests nothing is
\* queued on the netlink socket, and while the gateway waits there is at most one
\* answer, or one error, and it is for the request being served.  Otherwise
\* every later client would get the answer of the request before its own
\* (server2.c:320-324).
InStep ==
  /\ pc # "wait" => answers = <<>> /\ ~overrun
  /\ pc = "wait" =>
       /\ Len(answers) <= 1
       /\ overrun => answers = <<>>
       /\ answers # <<>> => Head(answers).type = buff_rcv.type

\* c sent this request, or a short datagram that was read as it.
AskedBy(c, r) ==
  \E d \in sent : d.from = c /\ (d.content = r \/ d.content.type = "short")

Registered(n, a) ==
  \E d \in sent : d.content = [type |-> "register", name |-> n, addr |-> a]

\* The address that is found for a name was registered for it by somebody.
FoundTrue(r, found) ==
  r.type = "get" /\ found.code = "success" => Registered(r.name, found.addr)

\* Nobody has sent a short datagram.
Whole == \A d \in sent : d.content.type # "short"

\* client_addr, buff_rcv, the table and the module's answer still belong together when the
\* client is answered (server2.c:192, :222, :252).  An answer goes to a client that
\* asked for it, and an address it names was registered for that name by somebody: this
\* is so only while no datagram was short, as a short one may be read, and carried out,
\* as a request that nobody sent (:139, :598).
AnswersGrounded ==
  answer # NoJob =>
    /\ AskedBy(answer.to, answer.req)
    /\ Whole => FoundTrue(answer.req, answer.result)

\* A request that has reached the module gets its answer, also when the module's own was
\* dropped, and the gateway returns to receive further ones.  When send failed there is
\* nothing to wait for, and it waits for ever (server2.c:320-324).
Serves == pc = "wait" /\ (answers # <<>> \/ overrun) ~> pc = "receive"

\* The gateway implements Registry: a request is carried out when the module
\* handles it, and what the client is told is what came of it.
JobResult ==
  IF pc = "reply" THEN result
  ELSE IF pc = "wait" /\ overrun THEN Unknown
  ELSE IF pc = "wait" /\ answers # <<>> THEN Outcome(buff_rcv, Head(answers))
  ELSE [code |-> "pending", addr |-> NoAddr]
JobNow ==
  IF pc = "receive" \/ ~Usable(buff_rcv) THEN NoJob
  ELSE [to |-> client_addr, req |-> buff_rcv, result |-> JobResult]
Jobs == INSTANCE Registry WITH job <- JobNow
ImplementsRegistry == Jobs!Spec

=============================================================================
