--------------------------- MODULE ChatStreamProofs ---------------------------
(***************************************************************************)
(* What ChatSession puts on its streams, for any clients, lines, files and *)
(* sizes: the types of all of its state, that a client waiting for an      *)
(* answer is owed one, that a file arrives in order, and when it is the    *)
(* file that was asked for.                                                *)
(***************************************************************************)
EXTENDS ChatSessionProofs, SequenceTheorems, FiniteSetTheorems

-----------------------------------------------------------------------------
(* A client that waits for the answer to a line *)

\* Something is under way between the client and the server, or the server is about
\* to send or to end the connection.
Owed(c) ==
  \/ c2s[c] # <<>>
  \/ s2c[c] # <<>>
  \/ cur = c /\ spc \in {"copy", "reply", "release"}
AnswersOwed ==
  \A c \in Client : cpc[c] = "recvmsg" /\ link[c] = "live" => Owed(c)

Streams == c2s \in [Client -> Seq(Cell \ {NUL})]

\* A send fills the stream of a client that has not closed, or finds it full.
LEMMA SendOwed ==
  ASSUME IInv, cur \in Client, NEW token \in Tokens, Sends(token) \/ SendFails
  PROVE  /\ link'[cur] = "live" => s2c'[cur] # <<>>
         /\ \A c \in Client \ {cur} : link'[c] = link[c] /\ s2c'[c] = s2c[c]
         /\ c2s' = c2s
<1> USE BoundAssumption DEF IInv, Shape, SetLink
<1>1. CASE Sends(token)
  <2>1. CASE link[cur] = "live" /\ s2c' = [s2c EXCEPT ![cur] = Append(@, token)]
             /\ link' = link
    <3>1. s2c'[cur] = Append(s2c[cur], token) /\ s2c[cur] \in Seq(Tokens)
      BY <2>1
    <3>2. Len(s2c'[cur]) = Len(s2c[cur]) + 1 /\ Len(s2c[cur]) \in Nat
      BY <3>1, LenProperties, AppendProperties
    <3>3. s2c'[cur] # <<>>
      BY <3>2
    <3> QED
      BY <1>1, <2>1, <3>3 DEF Sends
  <2>2. CASE link' = [link EXCEPT ![cur] = "doomed"] /\ s2c' = s2c
    BY <1>1, <2>2 DEF Sends
  <2> QED
    BY <1>1, <2>1, <2>2 DEF Sends
<1>2. CASE SendFails
  <2>1. link'[cur] = "live" => Len(s2c[cur]) >= SndCap
    BY <1>2 DEF SendFails
  <2>2. link'[cur] = "live" => s2c[cur] # <<>>
    BY <2>1
  <2>3. s2c' = s2c /\ c2s' = c2s /\ \A c \in Client \ {cur} : link'[c] = link[c]
    BY <1>2 DEF SendFails
  <2> QED
    BY <2>2, <2>3
<1> QED
  BY <1>1, <1>2

\* A step that sends does what is owed.
LEMMA SendKeepsOwed ==
  ASSUME IInv, AnswersOwed, cur \in Client, NEW token \in Tokens,
         Sends(token) \/ SendFails, UNCHANGED <<cur, clients>>
  PROVE  AnswersOwed'
BY SendOwed DEF AnswersOwed, Owed, clients

LEMMA ServerOwed ==
  ASSUME IInv, Streams, AnswersOwed, ServerStep
  PROVE  AnswersOwed' /\ Streams'
<1> USE BoundAssumption DEF network, clients
<1>1. spc \in Serving => cur \in Client
  BY DEF IInv, Shape, Served
<1>2. CASE Accept \/ AcceptInterrupted \/ Admit
  BY <1>2 DEF Accept, AcceptInterrupted, Admit, AnswersOwed, Owed, Streams
<1>3. ASSUME spc \in Serving, ReleaseLink(cur), UNCHANGED <<s2c, clients>>
      PROVE  AnswersOwed' /\ Streams'
  <2>1. /\ c2s' = [c2s EXCEPT ![cur] = <<>>] /\ link'[cur] # "live"
        /\ \A c \in Client \ {cur} : link'[c] = link[c]
    BY <1>1, <1>3 DEF ReleaseLink, SetLink, IInv, Shape
  <2>2. Streams'
    BY <1>1, <1>3, <2>1 DEF Streams
  <2>3. AnswersOwed'
    BY <1>1, <1>3, <2>1 DEF AnswersOwed, Owed, Streams
  <2> QED
    BY <2>2, <2>3
<1>4. CASE Refuse \/ ReleaseClient
  BY <1>3, <1>4 DEF Refuse, ReleaseClient, Serving
<1>5. CASE Receive
  <2>1. PICK n \in 1..Len(c2s[cur]) :
          c2s' = [c2s EXCEPT ![cur] = SubSeq(@, n + 1, Len(@))]
    BY <1>5 DEF Receive
  <2>2. cur \in Client /\ c2s[cur] \in Seq(Cell \ {NUL})
    BY <1>1, <1>5 DEF Receive, Serving, Streams
  <2>3. SubSeq(c2s[cur], n + 1, Len(c2s[cur])) \in Seq(Cell \ {NUL})
    BY <2>2
  <2>4. Streams'
    BY <2>1, <2>2, <2>3 DEF Streams
  <2>5. \A c \in Client \ {cur} : c2s'[c] = c2s[c]
    BY <2>1 DEF Streams
  <2>6. AnswersOwed'
    BY <1>5, <2>5 DEF Receive, AnswersOwed, Owed
  <2> QED
    BY <2>4, <2>6
<1>6. CASE ReceiveEnd \/ Copy
  BY <1>6 DEF ReceiveEnd, Copy, AnswersOwed, Owed, Streams
<1>7. CASE ReceiveFails
  <2>1. \A c \in Client : link'[c] = "live" => link[c] = "live"
    BY <1>1, <1>7 DEF ReceiveFails, SetLink, IInv, Shape, Serving
  <2> QED
    BY <1>7, <2>1 DEF ReceiveFails, AnswersOwed, Owed, Streams
<1>8. CASE Reply
  <2>1. cur \in Client /\ (Sends(MsgToken) \/ SendFails) /\ UNCHANGED <<cur, clients>>
    BY <1>1, <1>8 DEF Reply, Serving
  <2> QED
    BY <2>1, TokenTypes, SendKeepsOwed, SendOwed DEF Streams
<1>9. CASE OpenFile \/ FileEnds
  BY <1>9 DEF OpenFile, FileEnds, AnswersOwed, Owed, Streams
<1>10. CASE SendPart
  <2>1. cur \in Client /\ UNCHANGED <<cur, clients>>
        /\ (Sends(PartToken(filename, pos)) \/ SendFails)
    BY <1>1, <1>10 DEF SendPart, Serving
  <2>2. PartToken(filename, pos) \in Tokens
    BY <1>10, TokenTypes DEF SendPart, IInv, Shape
  <2> QED
    BY <2>1, <2>2, SendKeepsOwed, SendOwed DEF Streams
<1>11. CASE Greet
  <2>1. cur \in Client /\ (Sends(HelloToken) \/ SendFails) /\ UNCHANGED <<cur, clients>>
    BY <1>1, <1>11 DEF Greet, Serving
  <2> QED
    BY <2>1, TokenTypes, SendKeepsOwed, SendOwed DEF Streams
<1>12. CASE Exit
  BY <1>12 DEF Exit, AnswersOwed, Owed, Streams
<1> QED
  BY <1>2, <1>4, <1>5, <1>6, <1>7, <1>8, <1>9, <1>10, <1>11, <1>12 DEF ServerStep
LEMMA ClientOwed ==
  ASSUME IInv, Streams, AnswersOwed, <<>> \notin Lines,
         NEW c \in Client, RstArrives(c) \/ ClientStep(c)
  PROVE  AnswersOwed' /\ Streams'
<1> USE BoundAssumption DEF server, IInv, Shape
<1>1. ASSUME Close(c), UNCHANGED <<server, c2s>>
      PROVE  AnswersOwed' /\ Streams'
  <2>1. /\ cpc' = [cpc EXCEPT ![c] = "done"]
        /\ \A d \in Client \ {c} : link'[d] = link[d]
        /\ s2c' = [s2c EXCEPT ![c] = <<>>]
    BY <1>1, CloseStep
  <2> QED
    BY <1>1, <2>1 DEF AnswersOwed, Owed, Streams
<1>2. CASE RstArrives(c)
  BY <1>2 DEF RstArrives, SetLink, AnswersOwed, Owed, Streams, clients
<1>3. CASE Connect(c)
  <2>1. cpc'[c] # "recvmsg" /\ \A d \in Client \ {c} : cpc'[d] = cpc[d] /\ link'[d] = link[d]
    BY <1>3 DEF Connect, SetLink
  <2> QED
    BY <1>3, <2>1 DEF Connect, AnswersOwed, Owed, Streams
<1>4. CASE TypeLine(c)
  <2>1. CASE Close(c) /\ UNCHANGED <<c2s, got>>
    BY <1>1, <1>4, <2>1 DEF TypeLine
  <2>2. ASSUME NEW line \in Lines, UNCHANGED <<link, s2c>>,
               cpc' \in {cpc, [cpc EXCEPT ![c] = "recvfile"], [cpc EXCEPT ![c] = "recvmsg"]},
               \/ c2s' = [c2s EXCEPT ![c] = @ \o line]
               \/ link[c] # "live" /\ c2s' = c2s
        PROVE  AnswersOwed' /\ Streams'
    <3>1. line \in Seq(Cell \ {NUL}) /\ line # <<>> /\ c2s[c] \in Seq(Cell \ {NUL})
      BY <2>2, DataAssumption DEF Streams
    <3>2. /\ c2s[c] \o line \in Seq(Cell \ {NUL})
          /\ Len(c2s[c] \o line) = Len(c2s[c]) + Len(line)
          /\ Len(c2s[c]) \in Nat /\ Len(line) \in Nat /\ Len(line) # 0
      BY <3>1, ConcatProperties, LenProperties, EmptySeq
    <3>3. c2s[c] \o line # <<>>
      BY <3>2, EmptySeq
    <3>4. Streams'
      BY <2>2, <3>2 DEF Streams
    <3>5. link[c] = "live" => c2s'[c] # <<>>
      BY <2>2, <3>3 DEF Streams
    <3>6. \A d \in Client \ {c} : c2s'[d] = c2s[d] /\ cpc'[d] = cpc[d]
      BY <2>2 DEF Streams
    <3>7. AnswersOwed'
      BY <1>4, <2>2, <3>5, <3>6 DEF TypeLine, AnswersOwed, Owed
    <3> QED
      BY <3>4, <3>7
  <2> QED
    BY <1>4, <2>1, <2>2 DEF TypeLine
<1>5. CASE Quit(c) \/ Kill(c)
  BY <1>1, <1>5 DEF Quit, Kill
<1>6. CASE ReceiveMessage(c)
  <2>1. cpc' = [cpc EXCEPT ![c] = "prompt"] /\ \A d \in Client \ {c} : s2c'[d] = s2c[d]
    BY <1>6 DEF ReceiveMessage
  <2> QED
    BY <1>6, <2>1 DEF ReceiveMessage, AnswersOwed, Owed, Streams
<1>7. CASE ReceiveFile(c)
  <2>1. cpc'[c] # "recvmsg"
        /\ \A d \in Client \ {c} : s2c'[d] = s2c[d] /\ cpc'[d] = cpc[d]
    BY <1>7 DEF ReceiveFile
  <2> QED
    BY <1>7, <2>1 DEF ReceiveFile, AnswersOwed, Owed, Streams
<1> QED
  BY <1>2, <1>3, <1>4, <1>5, <1>6, <1>7 DEF ClientStep

LEMMA OwedStep ==
  ASSUME IInv, Streams, AnswersOwed, <<>> \notin Lines, [Next]_vars
  PROVE  AnswersOwed' /\ Streams'
<1>1. CASE UNCHANGED vars
  BY <1>1 DEF vars, AnswersOwed, Owed, Streams
<1>2. CASE Interrupt
  BY <1>2 DEF Interrupt, server, network, clients, AnswersOwed, Owed, Streams
<1> QED
  BY <1>1, <1>2, ServerOwed, ClientOwed DEF Next, Finished

\* NoMessageDeadlock: unless users send empty lines, a client that waits for the answer to
\* a line and the server never wait for each other, however lines are cut and merged.
THEOREM NoDeadlockOnLines ==
  ASSUME <<>> \notin Lines
  PROVE  Spec => []NoMessageDeadlock
<1>1. Init => Streams /\ AnswersOwed
  BY DEF Init, Streams, AnswersOwed
<1>2. IInv /\ (Streams /\ AnswersOwed) /\ [Next]_vars => (Streams /\ AnswersOwed)'
  BY OwedStep
<1>3. AnswersOwed => NoMessageDeadlock
  BY DEF AnswersOwed, Owed, NoMessageDeadlock, MutualWait
<1> QED
  BY <1>1, <1>2, <1>3, Invariance, PTL DEF Spec

-----------------------------------------------------------------------------
(* A file arrives in order *)

\* t may come directly after s: a part after the part before it, and the first part after
\* the message, unless a signal has kept that from being sent.
Follows(s, t, sig) ==
  t.kind = "part" =>
    IF t.part > 0 THEN s = PartToken(t.name, t.part - 1)
    ELSE s = MsgToken \/ sig # "none"
Linked(q, sig) == \A i \in 2..Len(q) : Follows(q[i - 1], q[i], sig)

\* What a client that receives a file has of the stream, and still gets of it.
Rest(c) == IF cpc[c] = "recvfile" THEN got[c] \o s2c[c] ELSE s2c[c]

\* What the server sends next may come after s.
Expect(s, step, name, k, sig) ==
  /\ step = "open" => s = MsgToken \/ sig # "none"
  /\ step = "part" => Follows(s, PartToken(name, k), sig)

Ordered ==
  \A c \in Client : Linked(got[c], signal) /\ Linked(Rest(c), signal)
Continues ==
  \A c \in Client :
    (c = cur /\ link[c] = "live" /\ Rest(c) # <<>>)
      => Expect(Rest(c)[Len(Rest(c))], spc, filename, pos, signal)

LEMMA LinkedEmpty == \A sig : Linked(<<>>, sig)
BY DEF Linked

\* A signal that has come stays pending.
LEMMA LinkedMono ==
  ASSUME NEW q \in Seq(Tokens), NEW sig, NEW sig2, Linked(q, sig),
         sig # "none" => sig2 # "none"
  PROVE  Linked(q, sig2)
BY DEF Linked, Follows

LEMMA LinkedAppend ==
  ASSUME NEW q \in Seq(Tokens), NEW t \in Tokens, NEW sig, Linked(q, sig),
         q # <<>> => Follows(q[Len(q)], t, sig)
  PROVE  /\ Linked(Append(q, t), sig)
         /\ Append(q, t) \in Seq(Tokens)
         /\ Append(q, t)[Len(Append(q, t))] = t
<1> DEFINE r == Append(q, t)
<1>1. /\ Len(r) = Len(q) + 1 /\ Len(q) \in Nat /\ r \in Seq(Tokens)
      /\ \A i \in 1..Len(q) : r[i] = q[i]
      /\ r[Len(q) + 1] = t
  BY AppendProperties, LenProperties
<1> HIDE DEF r
<1>2. ASSUME NEW i \in 2..Len(r)
      PROVE  Follows(r[i - 1], r[i], sig)
  <2>1. CASE i = Len(q) + 1
    <3>1. Len(q) \in 1..Len(q) /\ i - 1 = Len(q) /\ q # <<>>
      BY <1>1, <2>1, EmptySeq
    <3>2. r[i - 1] = q[Len(q)] /\ r[i] = t
      BY <1>1, <2>1, <3>1
    <3> QED
      BY <3>1, <3>2
  <2>2. CASE i # Len(q) + 1
    <3>1. i \in 2..Len(q) /\ i \in 1..Len(q) /\ i - 1 \in 1..Len(q)
      BY <1>1, <2>2
    <3>2. r[i - 1] = q[i - 1] /\ r[i] = q[i]
      BY <1>1, <3>1
    <3> QED
      BY <3>1, <3>2 DEF Linked
  <2> QED
    BY <2>1, <2>2
<1>3. Linked(r, sig) /\ r[Len(r)] = t
  BY <1>1, <1>2 DEF Linked
<1> QED
  BY <1>1, <1>3 DEF r

\* What is left of a stream when its first n tokens are taken.
LEMMA LinkedSuffix ==
  ASSUME NEW q \in Seq(Tokens), NEW n \in 0..Len(q), NEW sig, Linked(q, sig)
  PROVE  /\ Linked(SubSeq(q, n + 1, Len(q)), sig)
         /\ SubSeq(q, n + 1, Len(q)) # <<>> =>
              SubSeq(q, n + 1, Len(q))[Len(SubSeq(q, n + 1, Len(q)))] = q[Len(q)]
<1> DEFINE r == SubSeq(q, n + 1, Len(q))
<1>1. /\ Len(q) \in Nat /\ n \in Nat /\ Len(r) = Len(q) - n
      /\ \A i \in 1..Len(r) : r[i] = q[n + i]
      /\ r \in Seq(Tokens)
  OBVIOUS
<1> HIDE DEF r
<1>2. ASSUME NEW i \in 2..Len(r)
      PROVE  Follows(r[i - 1], r[i], sig)
  <2>1. /\ i \in 1..Len(r) /\ i - 1 \in 1..Len(r)
        /\ n + i \in 2..Len(q) /\ n + (i - 1) = (n + i) - 1
    BY <1>1
  <2>2. r[i] = q[n + i] /\ r[i - 1] = q[(n + i) - 1]
    BY <1>1, <2>1
  <2> QED
    BY <2>1, <2>2 DEF Linked
<1>3. r # <<>> => r[Len(r)] = q[Len(q)]
  <2>1. r # <<>> => Len(r) \in 1..Len(r) /\ n + Len(r) = Len(q)
    BY <1>1, EmptySeq
  <2> QED
    BY <1>1, <2>1
<1> QED
  BY <1>2, <1>3 DEF Linked, r

LEMMA LinkedPrefix ==
  ASSUME NEW p \in Seq(Tokens), NEW q \in Seq(Tokens), NEW sig, Linked(p \o q, sig)
  PROVE  Linked(p, sig)
<1> DEFINE r == p \o q
<1>1. /\ Len(p) \in Nat /\ Len(q) \in Nat /\ Len(r) = Len(p) + Len(q)
      /\ \A i \in 1..Len(p) : r[i] = p[i]
  OBVIOUS
<1> HIDE DEF r
<1>2. ASSUME NEW i \in 2..Len(p)
      PROVE  Follows(p[i - 1], p[i], sig)
  <2>1. i \in 2..Len(r) /\ i \in 1..Len(p) /\ i - 1 \in 1..Len(p)
    BY <1>1
  <2>2. Linked(r, sig)
    BY DEF r
  <2>3. Follows(r[i - 1], r[i], sig)
    BY <2>1, <2>2 DEF Linked
  <2> QED
    BY <1>1, <2>1, <2>3
<1> QED
  BY <1>2 DEF Linked

LEMMA RestType == IInv => \A c \in Client : Rest(c) \in Seq(Tokens)
BY DEF IInv, Shape, Rest

LEMMA ConcatAppend ==
  ASSUME NEW p \in Seq(Tokens), NEW q \in Seq(Tokens), NEW t \in Tokens
  PROVE  p \o Append(q, t) = Append(p \o q, t)
<1> DEFINE a == p \o Append(q, t)
           b == Append(p \o q, t)
<1>1. /\ a \in Seq(Tokens) /\ b \in Seq(Tokens)
      /\ Len(a) = Len(p) + Len(q) + 1 /\ Len(b) = Len(a)
  OBVIOUS
<1>2. \A i \in 1..Len(a) : a[i] = b[i]
  OBVIOUS
<1> QED
  BY <1>1, <1>2, SeqEqual

\* A step of the server that sends nothing.
LEMMA QuietOrder ==
  ASSUME IInv, Ordered, Continues, UNCHANGED <<s2c, clients>>, signal' = signal,
         \A c \in Client : link'[c] = "live" => link[c] = "live",
         \/ spc' \notin {"open", "part"}
         \/ /\ cur' = cur
            /\ \A s \in Tokens : Expect(s, spc, filename, pos, signal)
                                   => Expect(s, spc', filename', pos', signal)
  PROVE  Ordered' /\ Continues'
<1>1. \A c \in Client : Rest(c)' = Rest(c)
  BY DEF Rest, clients
<1>2. Ordered'
  BY <1>1 DEF Ordered, clients
<1>3. ASSUME NEW c \in Client, c = cur', link'[c] = "live", Rest(c) # <<>>
      PROVE  Expect(Rest(c)[Len(Rest(c))], spc', filename', pos', signal')
  <2>1. CASE spc' \notin {"open", "part"}
    BY <2>1 DEF Expect
  <2>2. CASE cur' = cur /\ \A s \in Tokens :
               Expect(s, spc, filename, pos, signal) => Expect(s, spc', filename', pos', signal)
    <3>1. Rest(c) \in Seq(Tokens)
      BY RestType
    <3>2. Len(Rest(c)) \in 1..Len(Rest(c))
      BY <1>3, <3>1, EmptySeq
    <3>3. Rest(c)[Len(Rest(c))] \in Tokens
      BY <3>1, <3>2, LenProperties
    <3> QED
      BY <1>3, <2>2, <3>3 DEF Continues
  <2> QED
    BY <2>1, <2>2
<1>4. Continues'
  BY <1>1, <1>3 DEF Continues
<1> QED
  BY <1>2, <1>4

\* A send to the client in service, of something that may come next.
LEMMA SendOrder ==
  ASSUME IInv, Ordered, Continues, cur \in Client, NEW t \in Tokens,
         Sends(t) \/ SendFails, UNCHANGED <<cur, clients>>,
         (link[cur] = "live" /\ Rest(cur) # <<>>)
           => Follows(Rest(cur)[Len(Rest(cur))], t, signal),
         Sends(t) => Expect(t, spc', filename', pos', signal),
         SendFails => spc' # "part"
  PROVE  Ordered' /\ Continues'
<1>1. signal # "none" => signal' # "none"
  BY DEF Sends, SendFails
<1>2. \A c \in Client : /\ got[c] \in Seq(Tokens) /\ s2c[c] \in Seq(Tokens)
                        /\ Rest(c) \in Seq(Tokens)
  BY RestType DEF IInv, Shape
<1>3. CASE Sends(t) /\ link[cur] = "live" /\ s2c' = [s2c EXCEPT ![cur] = Append(@, t)]
           /\ signal' = signal /\ link' = link
  <2>1. s2c'[cur] = Append(s2c[cur], t) /\ \A c \in Client \ {cur} : s2c'[c] = s2c[c]
    BY <1>3 DEF IInv, Shape
  <2>2. Rest(cur)' = Append(Rest(cur), t)
    BY <1>2, <2>1, ConcatAppend DEF Rest, clients
  <2>3. \A c \in Client \ {cur} : Rest(c)' = Rest(c)
    BY <2>1 DEF Rest, clients
  <2>4. /\ Linked(Append(Rest(cur), t), signal)
        /\ Append(Rest(cur), t)[Len(Append(Rest(cur), t))] = t
    BY <1>2, <1>3, LinkedAppend DEF Ordered
  <2>5. Ordered'
    BY <1>3, <2>2, <2>3, <2>4 DEF Ordered, clients
  <2>6. Continues'
    BY <1>3, <2>2, <2>4 DEF Continues
  <2> QED
    BY <2>5, <2>6
<1>4. CASE s2c' = s2c /\ (link'[cur] = "live" => signal # "none" /\ SendFails)
  <2>1. \A c \in Client : Rest(c)' = Rest(c)
    BY <1>4 DEF Rest, clients
  <2>2. Ordered'
    BY <1>1, <1>2, <2>1, LinkedMono DEF Ordered, clients
  <2>3. Continues'
    BY <1>1, <1>4, <2>1 DEF Continues, Expect
  <2> QED
    BY <2>2, <2>3
<1> QED
  <2>1. CASE Sends(t)
    BY <1>3, <1>4, <2>1 DEF Sends, SetLink, IInv, Shape
  <2>2. CASE SendFails
    BY <1>4, <2>2 DEF SendFails, SetLink, IInv, Shape
  <2> QED
    BY <2>1, <2>2

LEMMA TokenKinds ==
  /\ MsgToken.kind = "msg" /\ HelloToken.kind = "hello"
  /\ \A n, k : /\ PartToken(n, k).kind = "part"
               /\ PartToken(n, k).name = n /\ PartToken(n, k).part = k
BY DEF MsgToken, HelloToken, PartToken

LEMMA ServerOrder ==
  ASSUME IInv, Ordered, Continues, ServerStep
  PROVE  Ordered' /\ Continues'
<1> USE DEF network
<1>1. spc \in Serving => cur \in Client
  BY BoundAssumption DEF IInv, Shape, Served
<1>2. CASE Accept \/ AcceptInterrupted \/ Admit
  BY <1>2, QuietOrder DEF Accept, AcceptInterrupted, Admit
<1>3. ASSUME spc \in Serving, ReleaseLink(cur)
      PROVE  \A c \in Client : link'[c] = "live" => link[c] = "live"
  BY <1>1, <1>3 DEF ReleaseLink, SetLink, IInv, Shape
<1>4. CASE Refuse \/ ReleaseClient
  BY <1>3, <1>4, QuietOrder DEF Refuse, ReleaseClient, Serving
<1>5. CASE Receive \/ ReceiveEnd \/ Copy
  BY <1>5, QuietOrder DEF Receive, ReceiveEnd, Copy
<1>6. CASE ReceiveFails
  <2>1. \A c \in Client : link'[c] = "live" => link[c] = "live"
    BY <1>1, <1>6 DEF ReceiveFails, SetLink, IInv, Shape, Serving
  <2> QED
    BY <1>6, <2>1, QuietOrder DEF ReceiveFails
<1>7. CASE Reply
  <2>1. /\ cur \in Client /\ (Sends(MsgToken) \/ SendFails) /\ UNCHANGED <<cur, clients>>
        /\ spc' # "part"
    BY <1>1, <1>7 DEF Reply, Serving
  <2>2. Expect(MsgToken, spc', filename', pos', signal)
    BY <2>1 DEF Expect
  <2>3. \A s : Follows(s, MsgToken, signal)
    BY TokenKinds DEF Follows
  <2> QED
    BY <2>1, <2>2, <2>3, TokenTypes, SendOrder
<1>8. CASE OpenFile
  <2>1. \A s \in Tokens : Expect(s, spc, filename, pos, signal)
                            => Expect(s, spc', filename', pos', signal)
    BY <1>8, TokenKinds DEF OpenFile, Expect, Follows
  <2> QED
    BY <1>8, <2>1, QuietOrder DEF OpenFile
<1>9. CASE SendPart
  <2> DEFINE t == PartToken(filename, pos)
  <2>1. /\ cur \in Client /\ UNCHANGED <<cur, filename, clients>> /\ pos \in Nat
        /\ (Sends(t) \/ SendFails) /\ spc = "part"
    BY <1>1, <1>9 DEF SendPart, Serving, IInv, Shape
  <2>2. t \in Tokens
    BY <1>9, TokenTypes DEF SendPart, IInv, Shape
  <2>3. (link[cur] = "live" /\ Rest(cur) # <<>>)
          => Follows(Rest(cur)[Len(Rest(cur))], t, signal)
    BY <2>1 DEF Continues, Expect
  <2>4. ~(Sends(t) /\ SendFails)
    <3>1. Len(s2c[cur]) \in Nat /\ SndCap \in Nat
      BY <2>1, BoundAssumption DEF IInv, Shape
    <3> QED
      BY <3>1 DEF Sends, SendFails
  <2>5. Sends(t) => spc' = "part" /\ pos' = pos + 1
    BY <1>9, <2>4 DEF SendPart
  <2>6. SendFails => spc' # "part"
    BY <1>9, <2>4 DEF SendPart
  <2>7. Sends(t) => Expect(t, spc', filename', pos', signal)
    <3>1. Follows(t, PartToken(filename, pos + 1), signal)
      BY <2>1, TokenKinds DEF Follows
    <3> QED
      BY <2>1, <2>5, <3>1 DEF Expect
  <2> HIDE DEF t
  <2> QED
    BY <2>1, <2>2, <2>3, <2>6, <2>7, SendOrder
<1>10. CASE FileEnds
  BY <1>10, QuietOrder DEF FileEnds
<1>11. CASE Greet
  <2>1. /\ cur \in Client /\ (Sends(HelloToken) \/ SendFails) /\ UNCHANGED <<cur, clients>>
        /\ spc' \in {"recv", "release"}
    BY <1>1, <1>11 DEF Greet, Serving
  <2>2. Expect(HelloToken, spc', filename', pos', signal)
    BY <2>1 DEF Expect
  <2>3. \A s : Follows(s, HelloToken, signal)
    BY TokenKinds DEF Follows
  <2> QED
    BY <2>1, <2>2, <2>3, TokenTypes, SendOrder
<1>12. CASE Exit
  BY <1>12, QuietOrder DEF Exit
<1> QED
  BY <1>2, <1>4, <1>5, <1>6, <1>7, <1>8, <1>9, <1>10, <1>11, <1>12 DEF ServerStep

LEMMA MoveHead ==
  ASSUME NEW p \in Seq(Tokens), NEW q \in Seq(Tokens), q # <<>>
  PROVE  Append(p, Head(q)) \o Tail(q) = p \o q
<1> DEFINE a == Append(p, Head(q)) \o Tail(q)
           b == p \o q
<1>1. Head(q) \in Tokens /\ Tail(q) \in Seq(Tokens) /\ Len(Tail(q)) = Len(q) - 1
      /\ Len(q) \in Nat \ {0} /\ Len(p) \in Nat
  BY EmptySeq
<1>2. /\ a \in Seq(Tokens) /\ b \in Seq(Tokens)
      /\ Len(a) = Len(p) + Len(q) /\ Len(b) = Len(a)
  BY <1>1
<1>3. \A i \in 1..Len(a) : a[i] = b[i]
  BY <1>1
<1> QED
  BY <1>2, <1>3, SeqEqual

LEMMA DropFirst ==
  ASSUME NEW p \in Seq(Tokens), NEW q \in Seq(Tokens)
  PROVE  /\ Len(p) \in 0..Len(p \o q)
         /\ SubSeq(p \o q, Len(p) + 1, Len(p \o q)) = q
<1> DEFINE a == SubSeq(p \o q, Len(p) + 1, Len(p \o q))
<1>1. /\ p \o q \in Seq(Tokens) /\ Len(p \o q) = Len(p) + Len(q)
      /\ Len(q) \in Nat /\ Len(p) \in Nat
  OBVIOUS
<1>2. a \in Seq(Tokens) /\ Len(a) = Len(q)
  BY <1>1
<1>3. \A i \in 1..Len(a) : a[i] = q[i]
  BY <1>1, <1>2
<1> QED
  BY <1>1, <1>2, <1>3, SeqEqual

\* A step of client c, or of the network for it, that takes from its stream at most what
\* was first in it.
LEMMA TakeOrder ==
  ASSUME IInv, Ordered, Continues, NEW c \in Client, UNCHANGED <<server, signal>>,
         \A d \in Client \ {c} : /\ link'[d] = link[d] /\ s2c'[d] = s2c[d]
                                 /\ cpc'[d] = cpc[d] /\ got'[d] = got[d],
         Linked(got'[c], signal),
         NEW n \in 0..Len(Rest(c)),
         Rest(c)' = SubSeq(Rest(c), n + 1, Len(Rest(c))),
         link'[c] = "live" => link[c] = "live"
  PROVE  Ordered' /\ Continues'
<1> DEFINE r == Rest(c)'
<1>1. \A d \in Client \ {c} : Rest(d)' = Rest(d)
  BY DEF Rest
<1>2. Rest(c) \in Seq(Tokens) /\ Linked(Rest(c), signal)
  BY RestType DEF Ordered
<1>3. /\ Linked(r, signal)
      /\ r # <<>> => r[Len(r)] = Rest(c)[Len(Rest(c))]
  BY <1>2, LinkedSuffix
<1>4. r # <<>> => Rest(c) # <<>>
  BY <1>2
<1> HIDE DEF r
<1>5. signal' = signal /\ cur' = cur /\ spc' = spc /\ filename' = filename /\ pos' = pos
  BY DEF server
<1>6. Ordered'
  <2>1. ASSUME NEW d \in Client PROVE Linked(got'[d], signal) /\ Linked(Rest(d)', signal)
    <3>1. CASE d = c
      BY <1>3, <3>1 DEF r
    <3>2. CASE d # c
      BY <1>1, <3>2 DEF Ordered
    <3> QED
      BY <3>1, <3>2
  <2> QED
    BY <1>5, <2>1 DEF Ordered
<1>7. Continues'
  <2>1. ASSUME NEW d \in Client, d = cur, link'[d] = "live", Rest(d)' # <<>>
        PROVE  Expect(Rest(d)'[Len(Rest(d)')], spc, filename, pos, signal)
    <3>1. CASE d = c
      BY <1>3, <1>4, <2>1, <3>1 DEF r, Continues
    <3>2. CASE d # c
      BY <1>1, <2>1, <3>2 DEF Continues
    <3> QED
      BY <3>1, <3>2
  <2> QED
    BY <1>5, <2>1 DEF Continues
<1> QED
  BY <1>6, <1>7

\* A step of client c after which nothing of its stream is left.
LEMMA CloseOrder ==
  ASSUME IInv, Ordered, Continues, NEW c \in Client, Close(c),
         UNCHANGED <<server, signal, got>>
  PROVE  Ordered' /\ Continues'
<1>1. /\ cpc' = [cpc EXCEPT ![c] = "done"] /\ s2c' = [s2c EXCEPT ![c] = <<>>]
      /\ \A d \in Client \ {c} : link'[d] = link[d]
  BY CloseStep DEF IInv
<1>2. Rest(c)' = <<>> /\ link'[c] # "live"
  BY <1>1 DEF Rest, IInv, Shape, Close, SetLink
<1>3. \A d \in Client \ {c} : Rest(d)' = Rest(d)
  BY <1>1 DEF Rest, IInv, Shape
<1>4. Ordered'
  BY <1>2, <1>3, LinkedEmpty DEF Ordered
<1>5. Continues'
  BY <1>1, <1>2, <1>3 DEF Continues, server
<1> QED
  BY <1>4, <1>5

\* A step of client c that leaves what is left of its stream as it was.
LEMMA SameOrder ==
  ASSUME IInv, Ordered, Continues, NEW c \in Client, UNCHANGED <<server, signal>>,
         \A d \in Client \ {c} : /\ link'[d] = link[d] /\ s2c'[d] = s2c[d]
                                 /\ cpc'[d] = cpc[d] /\ got'[d] = got[d],
         Linked(got'[c], signal), Rest(c)' = Rest(c),
         link'[c] = "live" => link[c] = "live"
  PROVE  Ordered' /\ Continues'
<1>1. Rest(c) \in Seq(Tokens)
  BY RestType
<1>2. Rest(c) = SubSeq(Rest(c), 0 + 1, Len(Rest(c))) /\ 0 \in 0..Len(Rest(c))
  BY <1>1
<1> QED
  BY <1>2, TakeOrder

LEMMA ClientOrder ==
  ASSUME IInv, Ordered, Continues, NEW c \in Client, RstArrives(c) \/ ClientStep(c)
  PROVE  Ordered' /\ Continues'
<1>1. /\ link \in [Client -> LinkStates] /\ cpc \in [Client -> ClientSteps]
      /\ s2c \in [Client -> Seq(Tokens)] /\ got \in [Client -> Seq(Tokens)]
  BY DEF IInv, Shape
<1>2. s2c[c] \in Seq(Tokens) /\ got[c] \in Seq(Tokens) /\ Linked(got[c], signal)
  BY <1>1 DEF Ordered
<1>3. CASE RstArrives(c)
  <2>1. Rest(c)' = Rest(c)
    BY <1>3 DEF RstArrives, Rest, clients
  <2> QED
    BY <1>1, <1>2, <1>3, <2>1, SameOrder DEF RstArrives, SetLink, clients
<1>4. CASE Connect(c)
  <2>1. c # cur
    BY <1>4, BoundAssumption DEF Connect, IInv, Placed
  <2>2. \A d \in Client : Rest(d)' = Rest(d)
    BY <1>1, <1>4 DEF Connect, Rest
  <2>3. Ordered'
    BY <1>4, <2>2 DEF Connect, Ordered
  <2>4. \A d \in Client \ {c} : link'[d] = link[d]
    BY <1>1, <1>4 DEF Connect, SetLink
  <2>5. Continues'
    BY <1>4, <2>1, <2>2, <2>4 DEF Connect, Continues, server
  <2> QED
    BY <2>3, <2>5
<1>5. CASE TypeLine(c)
  <2>1. CASE Close(c) /\ UNCHANGED <<c2s, got>>
    BY <1>5, <2>1, CloseOrder DEF TypeLine
  <2>2. CASE /\ UNCHANGED <<link, s2c>>
             /\ \/ cpc' = [cpc EXCEPT ![c] = "recvfile"] /\ got' = [got EXCEPT ![c] = <<>>]
                \/ cpc' \in {cpc, [cpc EXCEPT ![c] = "recvmsg"]} /\ got' = got
    <3>1. cpc[c] # "recvfile"
      BY <1>5 DEF TypeLine
    <3>2. <<>> \o s2c[c] = s2c[c]
      BY <1>2
    <3>3. Rest(c)' = Rest(c)
      BY <1>1, <2>2, <3>1, <3>2 DEF Rest
    <3>4. Linked(got'[c], signal)
      BY <1>1, <1>2, <2>2, LinkedEmpty
    <3> QED
      BY <1>1, <1>5, <2>2, <3>3, <3>4, SameOrder DEF TypeLine
  <2> QED
    BY <1>1, <1>5, <2>1, <2>2 DEF TypeLine
<1>6. CASE Quit(c) \/ Kill(c)
  BY <1>6, CloseOrder DEF Quit, Kill
<1>7. CASE ReceiveMessage(c)
  <2>1. Rest(c) = s2c[c] /\ Rest(c)' = s2c'[c]
    BY <1>1, <1>7 DEF ReceiveMessage, Rest
  <2>2. CASE UNCHANGED s2c
    BY <1>1, <1>2, <1>7, <2>1, <2>2, SameOrder DEF ReceiveMessage
  <2>3. ASSUME NEW n \in 1..Len(s2c[c]),
               s2c' = [s2c EXCEPT ![c] = SubSeq(@, n + 1, Len(@))]
        PROVE  Ordered' /\ Continues'
    <3>1. n \in 0..Len(Rest(c)) /\ Rest(c)' = SubSeq(Rest(c), n + 1, Len(Rest(c)))
      BY <1>1, <1>2, <2>1, <2>3
    <3> QED
      BY <1>1, <1>2, <1>7, <2>3, <3>1, TakeOrder DEF ReceiveMessage
  <2> QED
    BY <1>7, <2>2, <2>3 DEF ReceiveMessage
<1>8. CASE ReceiveFile(c)
  <2>1. Rest(c) = got[c] \o s2c[c] /\ cpc[c] = "recvfile"
    BY <1>8 DEF ReceiveFile, Rest
  <2>2. CASE /\ s2c[c] # <<>> /\ UNCHANGED cpc
             /\ got' = [got EXCEPT ![c] = Append(@, Head(s2c[c]))]
             /\ s2c' = [s2c EXCEPT ![c] = Tail(@)]
    <3>1. Append(got[c], Head(s2c[c])) \o Tail(s2c[c]) = got[c] \o s2c[c]
      BY <1>2, <2>2, MoveHead
    <3>2. got'[c] = Append(got[c], Head(s2c[c])) /\ s2c'[c] = Tail(s2c[c])
      BY <1>1, <2>2
    <3>3. Rest(c)' = Rest(c)
      BY <2>1, <2>2, <3>1, <3>2 DEF Rest
    <3>4. got'[c] \in Seq(Tokens) /\ s2c'[c] \in Seq(Tokens)
      BY <1>2, <2>2, <3>2
    <3>5. Linked(got'[c] \o s2c'[c], signal)
      BY <2>1, <3>1, <3>2 DEF Ordered
    <3>6. Linked(got'[c], signal)
      BY <3>4, <3>5, LinkedPrefix
    <3> QED
      BY <1>1, <1>8, <2>2, <3>3, <3>6, SameOrder DEF ReceiveFile
  <2>3. CASE AtEnd(c) /\ cpc' = [cpc EXCEPT ![c] = "prompt"] /\ UNCHANGED <<got, s2c>>
    <3> DEFINE n == Len(got[c])
    <3>1. n \in 0..Len(Rest(c)) /\ SubSeq(Rest(c), n + 1, Len(Rest(c))) = s2c[c]
      BY <1>2, <2>1, DropFirst
    <3>2. Rest(c)' = s2c[c]
      BY <1>1, <2>3 DEF Rest
    <3> HIDE DEF n
    <3> QED
      BY <1>1, <1>2, <1>8, <2>3, <3>1, <3>2, TakeOrder DEF ReceiveFile
  <2> QED
    BY <1>8, <2>2, <2>3 DEF ReceiveFile
<1> QED
  BY <1>3, <1>4, <1>5, <1>6, <1>7, <1>8 DEF ClientStep

LEMMA OrderStep ==
  ASSUME IInv, Ordered, Continues, [Next]_vars
  PROVE  Ordered' /\ Continues'
<1>1. CASE UNCHANGED vars
  BY <1>1 DEF vars, Ordered, Continues, Rest
<1>2. CASE Interrupt
  <2>1. \A c \in Client : Rest(c)' = Rest(c)
    BY <1>2 DEF Interrupt, network, clients, Rest
  <2>2. signal = "none" /\ signal' = "int"
    BY <1>2 DEF Interrupt
  <2>3. \A c \in Client : got[c] \in Seq(Tokens) /\ Rest(c) \in Seq(Tokens)
    BY RestType DEF IInv, Shape
  <2>4. Ordered'
    BY <1>2, <2>1, <2>2, <2>3, LinkedMono DEF Interrupt, clients, Ordered
  <2>5. Continues'
    BY <1>2, <2>1, <2>2 DEF Interrupt, server, network, Continues, Expect, Follows
  <2> QED
    BY <2>4, <2>5
<1> QED
  BY <1>1, <1>2, ServerOrder, ClientOrder DEF Next, Finished

\* CopyInOrder: the parts of a file reach the client that stores them in order, each once
\* and without a gap, the message first (receive_file, cl2.c, and send_file, chatserver.c).
THEOREM FileInOrder == Spec => []CopyInOrder
<1>1. Init => Ordered /\ Continues
  <2>1. Init => \A c \in Client : got[c] = <<>> /\ Rest(c) = <<>>
    BY DEF Init, Rest
  <2> QED
    BY <2>1, LinkedEmpty DEF Ordered, Continues
<1>2. IInv /\ (Ordered /\ Continues) /\ [Next]_vars => (Ordered /\ Continues)'
  BY OrderStep
<1>3. Ordered => CopyInOrder
  BY DEF Ordered, CopyInOrder, Linked, Follows
<1> QED
  BY <1>1, <1>2, <1>3, Invariance, PTL DEF Spec

-----------------------------------------------------------------------------
(* The types of all of the state *)

LEMMA BoundedSeqDef ==
  ASSUME NEW S, NEW n \in Nat, NEW q
  PROVE  q \in BoundedSeq(S, n) <=> q \in Seq(S) /\ Len(q) <= n
<1>1. ASSUME q \in BoundedSeq(S, n) PROVE q \in Seq(S) /\ Len(q) <= n
  <2>1. PICK m \in 0..n : q \in [1..m -> S]
    BY <1>1 DEF BoundedSeq, SeqOf
  <2> QED
    BY <2>1
<1>2. ASSUME q \in Seq(S), Len(q) <= n PROVE q \in BoundedSeq(S, n)
  <2>1. Len(q) \in 0..n /\ q \in [1..Len(q) -> S]
    BY <1>2
  <2> QED
    BY <2>1 DEF BoundedSeq, SeqOf
<1> QED
  BY <1>1, <1>2

LEMMA EmptyBounded ==
  ASSUME NEW S, NEW n \in Nat
  PROVE  <<>> \in BoundedSeq(S, n)
<1>1. <<>> \in [1..0 -> S] /\ 0 \in 0..n
  OBVIOUS
<1> QED
  BY <1>1 DEF BoundedSeq, SeqOf

LEMMA FunctionIsSeq ==
  ASSUME NEW S, NEW n \in Nat, NEW f \in [1..n -> S]
  PROVE  f \in Seq(S) /\ Len(f) = n
OBVIOUS

LEMMA Retype ==
  ASSUME NEW S, NEW T, NEW q \in Seq(S), \A i \in 1..Len(q) : q[i] \in T
  PROVE  q \in Seq(T)
<1>1. Len(q) \in Nat /\ q \in [1..Len(q) -> S]
  BY LenProperties
<1>2. q \in [1..Len(q) -> T]
  BY <1>1
<1> QED
  BY <1>1, <1>2, SeqDef

\* A nonempty set of numbers has a least one: among the intervals 1..n for n in the
\* set, one has none of the others strictly inside it.
LEMMA Least ==
  ASSUME NEW S \in SUBSET Nat, S # {}
  PROVE  \E x \in S : \A y \in S : x <= y
<1> DEFINE Upto(n) == 1..n
           T == {Upto(n) : n \in S}
<1>1. T \subseteq FiniteSubsetsOf(Nat)
  <2>1. \A n \in S : IsFiniteSet(1..n)
    BY FS_Interval
  <2>2. \A n \in S : 1..n \in SUBSET Nat
    OBVIOUS
  <2> QED
    BY <2>1, <2>2 DEF FiniteSubsetsOf
<1>2. T # {}
  OBVIOUS
<1> HIDE DEF T
<1>3. PICK t \in T : \A u \in T : ~(<<u, t>> \in StrictSubsetOrdering(Nat))
  BY <1>1, <1>2, FS_StrictSubsetOrderingWellFounded, WFMin
<1>4. PICK x \in S : t = Upto(x)
  BY <1>3 DEF T
<1>5. ASSUME NEW y \in S, y < x
      PROVE  FALSE
  <2>1. Upto(y) \in T
    BY DEF T
  <2>2. x \in 1..x /\ x \notin 1..y
    BY <1>5
  <2>3. Upto(y) # t /\ Upto(y) \subseteq t
    BY <1>4, <1>5, <2>2
  <2>4. t \in SUBSET Nat /\ Upto(y) \in SUBSET Nat
    BY <1>4
  <2> HIDE DEF Upto
  <2>5. <<Upto(y), t>> \in StrictSubsetOrdering(Nat)
    BY <2>3, <2>4 DEF StrictSubsetOrdering
  <2> QED
    BY <1>3, <2>1, <2>5
<1> QED
  BY <1>5

\* strncpy copies up to the first '\0' or to the end of the room.
LEMMA NameEnds ==
  ASSUME NEW buf \in [1..BufLen -> Cell]
  PROVE  /\ NameIn(buf) \in Seq(Cell \ {NUL}) /\ Len(NameIn(buf)) \in 0..NameLen
         /\ \A i \in 1..Len(NameIn(buf)) : NameIn(buf)[i] = buf[Len(Tag) + i]
         /\ Len(NameIn(buf)) < NameLen => buf[Len(Tag) + Len(NameIn(buf)) + 1] = NUL
<1> USE DataAssumption
<1> DEFINE rest == SubSeq(buf, Len(Tag) + 1, Len(Tag) + NameLen)
           Fits(n) == /\ \A i \in 1..n : rest[i] # NUL
                      /\ n < Len(rest) => rest[n + 1] = NUL
           size == CHOOSE n \in 0..Len(rest) : Fits(n)
           Ends == {n \in 0..Len(rest) : n < Len(rest) => rest[n + 1] = NUL}
<1>1. Len(Tag) \in Nat /\ Len(Tag) + NameLen \in Nat /\ NameLen \in Nat
  OBVIOUS
<1>2. buf \in Seq(Cell) /\ Len(buf) = BufLen
  OBVIOUS
<1>3. rest \in Seq(Cell) /\ Len(rest) = NameLen
  BY <1>1, <1>2
<1>11. \A i \in 1..NameLen : rest[i] = buf[Len(Tag) + i]
  BY <1>1, <1>2
<1> HIDE DEF rest
<1>4. Len(rest) \in Ends /\ Ends \in SUBSET Nat
  BY <1>3
<1>5. PICK n \in Ends : \A m \in Ends : n <= m
  <2> HIDE DEF Ends
  <2> QED
    BY <1>4, Least
<1>6. n \in 0..Len(rest) /\ Fits(n)
  <2>1. ASSUME NEW i \in 1..n, rest[i] = NUL
        PROVE  FALSE
    <3>1. i - 1 \in Ends /\ i - 1 < n
      BY <1>3, <2>1
    <3> QED
      BY <1>3, <1>5, <3>1
  <2> QED
    BY <2>1
<1>7. size \in 0..Len(rest) /\ Fits(size)
  <2> HIDE DEF Fits
  <2> QED
    BY <1>6
<1> HIDE DEF size
<1> DEFINE name == SubSeq(rest, 1, size)
<1>8. /\ name \in Seq(Cell) /\ Len(name) = size
      /\ \A i \in 1..size : name[i] = rest[i]
  BY <1>3, <1>7
<1>9. name \in Seq(Cell \ {NUL})
  <2> HIDE DEF name
  <2>1. \A i \in 1..Len(name) : name[i] \in Cell
    BY <1>8, ElementOfSeq
  <2>2. \A i \in 1..Len(name) : name[i] \in Cell \ {NUL}
    BY <1>7, <1>8, <2>1
  <2> QED
    BY <1>8, <2>2, Retype, Zenon
<1>10. NameIn(buf) = name
  BY DEF NameIn, size, rest
<1> HIDE DEF name
<1>12. \A i \in 1..size : i \in 1..NameLen
  BY <1>1, <1>3, <1>7
<1>13. \A i \in 1..Len(name) : name[i] = buf[Len(Tag) + i]
  BY <1>8, <1>11, <1>12
<1>14. Len(name) < NameLen => buf[Len(Tag) + Len(name) + 1] = NUL
  <2> SUFFICES ASSUME size < NameLen PROVE buf[Len(Tag) + size + 1] = NUL
    BY <1>8
  <2> DEFINE tag == Len(Tag)
  <2>3. size \in Nat /\ tag \in Nat
    BY <1>1, <1>3, <1>7
  <2> HIDE DEF tag
  <2>1. size + 1 \in 1..NameLen /\ tag + (size + 1) = tag + size + 1
    BY <1>1, <2>3
  <2>2. rest[size + 1] = NUL
    BY <1>3, <1>7
  <2> QED
    BY <1>11, <2>1, <2>2 DEF tag
<1> QED
  BY <1>3, <1>7, <1>8, <1>9, <1>10, <1>13, <1>14

\* What is copied is a name.
LEMMA NameType ==
  ASSUME NEW buf \in [1..BufLen -> Cell]
  PROVE  NameIn(buf) \in BoundedSeq(Cell \ {NUL}, NameLen)
<1> DEFINE name == NameIn(buf)
<1>1. NameLen \in Nat
  BY DataAssumption
<1>2. name \in Seq(Cell \ {NUL}) /\ Len(name) \in 0..NameLen
  BY NameEnds
<1> HIDE DEF name
<1>3. Len(name) <= NameLen
  BY <1>1, <1>2
<1>4. name \in BoundedSeq(Cell \ {NUL}, NameLen)
  BY <1>1, <1>2, <1>3, BoundedSeqDef, Zenon
<1> QED
  BY <1>4 DEF name

\* What TypeOK says beyond Shape, with the sizes apart from the elements.
Types ==
  /\ buffer \in [1..BufLen -> Cell]
  /\ is_file_request \in BOOLEAN
  /\ filename \in BoundedSeq(Cell \ {NUL}, NameLen)
  /\ signal \in {"none", "int", "pipe"}
  /\ Len(queue) <= Backlog + 1
  /\ Streams
  /\ \A c \in Client : Len(s2c[c]) <= SndCap
  /\ typed \in [Client -> 0..MaxLines]

LEMMA TypesInit == Init => Types
<1> USE DataAssumption, BoundAssumption
<1>1. <<>> \in BoundedSeq(Cell \ {NUL}, NameLen)
  BY EmptyBounded
<1>2. <<>> \in Seq(Cell \ {NUL}) /\ Len(<<>>) = 0
  BY EmptySeq
<1>3. Init => Streams
  BY <1>2 DEF Init, Streams
<1>4. Init => filename \in BoundedSeq(Cell \ {NUL}, NameLen)
  BY <1>1 DEF Init
<1>5. Init => Len(queue) <= Backlog + 1 /\ \A c \in Client : Len(s2c[c]) <= SndCap
  BY <1>2 DEF Init
<1>6. Init => buffer \in [1..BufLen -> Cell] /\ typed \in [Client -> 0..MaxLines]
  BY DEF Init
<1>7. Init => is_file_request \in BOOLEAN /\ signal \in {"none", "int", "pipe"}
  BY DEF Init
<1> QED
  BY <1>3, <1>4, <1>5, <1>6, <1>7 DEF Types

\* A send leaves the streams within bounds.
LEMMA SendTypes ==
  ASSUME IInv, Types, cur \in Client, NEW token \in Tokens, Sends(token) \/ SendFails
  PROVE  /\ \A c \in Client : Len(s2c'[c]) <= SndCap
         /\ signal' \in {"none", "int", "pipe"}
         /\ queue' = queue /\ c2s' = c2s
<1>1. \A c \in Client : s2c[c] \in Seq(Tokens) /\ Len(s2c[c]) \in Nat
  BY DEF IInv, Shape
<1>2. CASE s2c' = [s2c EXCEPT ![cur] = Append(@, token)] /\ Len(s2c[cur]) < SndCap
  <2>1. Len(Append(s2c[cur], token)) = Len(s2c[cur]) + 1
    BY <1>1
  <2>2. s2c'[cur] = Append(s2c[cur], token) /\ \A c \in Client \ {cur} : s2c'[c] = s2c[c]
    BY <1>2 DEF IInv, Shape
  <2>3. \A c \in Client : Len(s2c'[c]) <= SndCap
    BY <1>1, <1>2, <2>1, <2>2, BoundAssumption DEF Types
  <2> QED
    BY <2>3 DEF Sends, SendFails, Types
<1>3. CASE s2c' = s2c
  BY <1>3 DEF Sends, SendFails, Types
<1> QED
  BY <1>2, <1>3 DEF Sends, SendFails

LEMMA ServerTypes ==
  ASSUME IInv, Types, ServerStep
  PROVE  Types'
<1> USE DEF network, clients
<1>1. spc \in Serving => cur \in Client
  BY BoundAssumption DEF IInv, Shape, Served
<1>2. CASE Accept
  <2>1. queue \in Seq(Client) /\ queue # <<>>
    BY <1>2 DEF Accept, IInv, Shape
  <2>2. Len(Tail(queue)) = Len(queue) - 1 /\ Len(queue) \in Nat
    BY <2>1, EmptySeq
  <2>3. Len(queue') <= Backlog + 1
    BY <1>2, <2>2, BoundAssumption DEF Accept, Types
  <2> QED
    BY <1>2, <2>3 DEF Accept, Types, Streams
<1>3. CASE AcceptInterrupted \/ Admit \/ ReceiveEnd \/ ReceiveFails \/ Copy \/ OpenFile \/ FileEnds
  BY <1>3 DEF AcceptInterrupted, Admit, ReceiveEnd, ReceiveFails, Copy, OpenFile, FileEnds,
     Types, Streams
<1>4. CASE Refuse \/ ReleaseClient
  <2>1. c2s' = [c2s EXCEPT ![cur] = <<>>] /\ <<>> \in Seq(Cell \ {NUL})
    BY <1>4 DEF Refuse, ReleaseClient, ReleaseLink
  <2>2. Streams'
    BY <2>1 DEF Types, Streams
  <2> QED
    BY <1>4, <2>2 DEF Refuse, ReleaseClient, Types
<1>5. CASE Receive
  <2>1. PICK n \in 1..Len(c2s[cur]) :
          /\ n <= BufLen
          /\ buffer' = Overwrite(buffer, SubSeq(c2s[cur], 1, n))
          /\ c2s' = [c2s EXCEPT ![cur] = SubSeq(@, n + 1, Len(@))]
    BY <1>5 DEF Receive
  <2>2. cur \in Client /\ c2s[cur] \in Seq(Cell \ {NUL})
    BY <1>1, <1>5 DEF Receive, Serving, Types, Streams
  <2>3. SubSeq(c2s[cur], n + 1, Len(c2s[cur])) \in Seq(Cell \ {NUL})
    BY <2>2
  <2>4. Streams'
    BY <2>1, <2>3 DEF Types, Streams
  <2> DEFINE data == SubSeq(c2s[cur], 1, n)
  <2>5. Len(data) = n /\ \A i \in 1..n : data[i] \in Cell
    BY <2>2
  <2> HIDE DEF data
  <2>6. \A i \in 1..BufLen : (IF i <= Len(data) THEN data[i] ELSE buffer[i]) \in Cell
    BY <2>5, DataAssumption DEF Types
  <2>7. buffer' \in [1..BufLen -> Cell]
    BY <2>1, <2>6 DEF Overwrite, data
  <2> QED
    BY <1>5, <2>4, <2>7 DEF Receive, Types
<1>6. CASE Reply
  <2>1. cur \in Client /\ (Sends(MsgToken) \/ SendFails)
    BY <1>1, <1>6 DEF Reply, Serving
  <2>2. filename' \in BoundedSeq(Cell \ {NUL}, NameLen)
    BY <1>6, NameType DEF Reply, Types
  <2> QED
    BY <1>6, <2>1, <2>2, TokenTypes, SendTypes DEF Reply, Types, Streams
<1>7. CASE SendPart
  <2>1. PartToken(filename, pos) \in Tokens
    BY <1>7, TokenTypes DEF SendPart, IInv, Shape
  <2>2. cur \in Client /\ (Sends(PartToken(filename, pos)) \/ SendFails)
    BY <1>1, <1>7 DEF SendPart, Serving
  <2> QED
    BY <1>7, <2>1, <2>2, SendTypes DEF SendPart, Types, Streams
<1>8. CASE Greet
  <2>1. cur \in Client /\ (Sends(HelloToken) \/ SendFails)
    BY <1>1, <1>8 DEF Greet, Serving
  <2> QED
    BY <1>8, <2>1, TokenTypes, SendTypes DEF Greet, Types, Streams
<1>9. CASE Exit
  <2>1. Len(queue') = 0
    BY <1>9 DEF Exit
  <2> QED
    BY <1>9, <2>1, BoundAssumption DEF Exit, Types, Streams
<1> QED
  BY <1>2, <1>3, <1>4, <1>5, <1>6, <1>7, <1>8, <1>9 DEF ServerStep

LEMMA ClientTypes ==
  ASSUME IInv, Types, NEW c \in Client, RstArrives(c) \/ ClientStep(c)
  PROVE  Types'
<1> USE DEF server, clients
<1>1. /\ \A d \in Client : s2c[d] \in Seq(Tokens) /\ Len(s2c[d]) \in Nat
      /\ DOMAIN s2c = Client
  BY DEF IInv, Shape
<1>2. CASE RstArrives(c)
  BY <1>2 DEF RstArrives, Types, Streams
<1>3. CASE Connect(c)
  <2>1. queue \in Seq(Client)
    BY DEF IInv, Shape
  <2>2. Len(Append(queue, c)) = Len(queue) + 1 /\ Len(queue) \in Nat
    BY <2>1
  <2>3. Len(queue') <= Backlog + 1
    BY <1>3, <2>2, BoundAssumption DEF Connect, Types
  <2> QED
    BY <1>3, <2>3 DEF Connect, Types, Streams
<1>4. ASSUME s2c' = [s2c EXCEPT ![c] = <<>>]
      PROVE  \A d \in Client : Len(s2c'[d]) <= SndCap
  BY <1>1, <1>4, BoundAssumption DEF Types
<1>5. CASE TypeLine(c)
  <2>1. \A d \in Client : Len(s2c'[d]) <= SndCap
    BY <1>4, <1>5 DEF TypeLine, Close, Types
  <2>2. typed' \in [Client -> 0..MaxLines]
    BY <1>5, BoundAssumption DEF TypeLine, Types
  <2>3. Streams'
    <3>1. CASE c2s' = c2s
      BY <3>1 DEF Types, Streams
    <3>2. ASSUME NEW line \in Lines, c2s' = [c2s EXCEPT ![c] = @ \o line]
          PROVE  Streams'
      <4>1. c2s[c] \in Seq(Cell \ {NUL}) /\ line \in Seq(Cell \ {NUL})
        BY DataAssumption DEF Types, Streams
      <4>2. c2s[c] \o line \in Seq(Cell \ {NUL})
        BY <4>1
      <4> QED
        BY <3>2, <4>2 DEF Types, Streams
    <3> QED
      BY <1>5, <3>1, <3>2 DEF TypeLine
  <2> QED
    BY <1>5, <2>1, <2>2, <2>3 DEF TypeLine, Types
<1>6. CASE Quit(c) \/ Kill(c)
  BY <1>4, <1>6 DEF Quit, Kill, Close, Types, Streams
<1>7. CASE ReceiveMessage(c)
  <2>1. ASSUME NEW n \in 1..Len(s2c[c]),
               s2c' = [s2c EXCEPT ![c] = SubSeq(@, n + 1, Len(@))]
        PROVE  \A d \in Client : Len(s2c'[d]) <= SndCap
    <3>1. Len(SubSeq(s2c[c], n + 1, Len(s2c[c]))) <= Len(s2c[c])
      BY <1>1
    <3>2. Len(SubSeq(s2c[c], n + 1, Len(s2c[c]))) \in Nat
      BY <1>1
    <3> QED
      BY <1>1, <2>1, <3>1, <3>2, BoundAssumption DEF Types
  <2>2. \A d \in Client : Len(s2c'[d]) <= SndCap
    BY <1>7, <2>1 DEF ReceiveMessage, Types
  <2> QED
    BY <1>7, <2>2 DEF ReceiveMessage, Types, Streams
<1>8. CASE ReceiveFile(c)
  <2>1. ASSUME s2c[c] # <<>>, s2c' = [s2c EXCEPT ![c] = Tail(@)]
        PROVE  \A d \in Client : Len(s2c'[d]) <= SndCap
    <3>1. Len(Tail(s2c[c])) = Len(s2c[c]) - 1
      BY <1>1, <2>1, EmptySeq
    <3> QED
      BY <1>1, <2>1, <3>1, BoundAssumption DEF Types
  <2>2. \A d \in Client : Len(s2c'[d]) <= SndCap
    BY <1>8, <2>1 DEF ReceiveFile, Types
  <2> QED
    BY <1>8, <2>2 DEF ReceiveFile, Types, Streams
<1> QED
  BY <1>2, <1>3, <1>5, <1>6, <1>7, <1>8 DEF ClientStep

LEMMA TypesStep ==
  ASSUME IInv, Types, [Next]_vars
  PROVE  Types'
<1>1. CASE UNCHANGED vars
  BY <1>1 DEF vars, Types, Streams
<1>2. CASE Interrupt
  BY <1>2 DEF Interrupt, server, network, clients, Types, Streams
<1> QED
  BY <1>1, <1>2, ServerTypes, ClientTypes DEF Next, Finished

LEMMA TypesImply == IInv /\ Types => TypeOK
<1> SUFFICES ASSUME IInv, Types PROVE TypeOK
  OBVIOUS
<1>1. queue \in BoundedSeq(Client, Backlog + 1)
  BY BoundedSeqDef, BoundAssumption DEF IInv, Shape, Types
<1>2. s2c \in [Client -> BoundedSeq(Tokens, SndCap)]
  <2>1. \A c \in Client : s2c[c] \in BoundedSeq(Tokens, SndCap)
    BY BoundedSeqDef, BoundAssumption DEF IInv, Shape, Types
  <2> QED
    BY <2>1 DEF IInv, Shape
<1> QED
  BY <1>1, <1>2 DEF TypeOK, IInv, Shape, Types, Streams

\* TypeOK: the state of the server, the connections and the clients keeps its domains, the
\* name of a file at most NameLen characters without '\0' (chatserver.c:232).
THEOREM TypeCorrect == Spec => []TypeOK
<1>1. Init => Types
  BY TypesInit
<1>2. IInv /\ Types /\ [Next]_vars => Types'
  BY TypesStep
<1>3. IInv /\ Types => TypeOK
  BY TypesImply
<1> QED
  BY <1>1, <1>2, <1>3, Invariance, PTL DEF Spec

-----------------------------------------------------------------------------
(* When a file request names the file that was asked for *)

\* FileAsAsked fails because the name is continued by what was in the buffer before.  Exactly
\* when does it hold?  If a request line is received whole, the server opens the file that was
\* asked for if and only if the one cell behind the line is '\0', or the name fills the room
\* for it: whatever else is in the buffer does not matter (chatserver.c:230-:232).
THEOREM NameAsTyped ==
  ASSUME NEW buf \in [1..BufLen -> Cell],
         NEW name \in Seq(Cell \ {NUL}), Len(name) <= NameLen
  PROVE  LET received == Overwrite(buf, Tag \o name)
         IN  /\ IsRequest(received)
             /\ NameIn(received) = name
                  <=> (Len(name) < NameLen => buf[Len(Tag) + Len(name) + 1] = NUL)
<1> USE DataAssumption
<1> DEFINE line == Tag \o name
           received == Overwrite(buf, line)
           found == NameIn(received)
           tag == Len(Tag)
           size == Len(name)
<1>1. tag \in Nat /\ size \in Nat /\ NameLen \in Nat /\ BufLen \in Nat /\ tag + NameLen <= BufLen
      /\ size <= NameLen
  OBVIOUS
<1>2. /\ line \in Seq(Cell \ {NUL}) /\ Len(line) = tag + size
      /\ \A i \in 1..tag : line[i] = Tag[i]
      /\ \A i \in 1..size : line[tag + i] = name[i]
  OBVIOUS
<1> HIDE DEF tag, size, line
<1>3. \A i \in 1..tag + size : line[i] \in Cell \ {NUL}
  BY <1>2, ElementOfSeq
<1>4. /\ received \in [1..BufLen -> Cell]
      /\ \A i \in 1..tag + size : i \in 1..BufLen /\ received[i] = line[i]
      /\ size < NameLen => received[tag + size + 1] = buf[tag + size + 1]
  <2>1. \A i \in 1..BufLen : (IF i <= Len(line) THEN line[i] ELSE buf[i]) \in Cell
    BY <1>1, <1>2, <1>3
  <2>2. received \in [1..BufLen -> Cell]
    BY <2>1 DEF Overwrite
  <2>3. \A i \in 1..BufLen : received[i] = IF i <= tag + size THEN line[i] ELSE buf[i]
    BY <1>2 DEF Overwrite
  <2> HIDE DEF received
  <2>4. \A i \in 1..tag + size : i \in 1..BufLen /\ i <= tag + size
    BY <1>1
  <2>5. size < NameLen => tag + size + 1 \in 1..BufLen /\ ~(tag + size + 1 <= tag + size)
    BY <1>1
  <2> QED
    BY <2>2, <2>3, <2>4, <2>5
<1> HIDE DEF received
<1>5. IsRequest(received)
  <2>1. received \in Seq(Cell) /\ Len(received) = BufLen
    BY <1>1, <1>4, FunctionIsSeq, Zenon
  <2>2. SubSeq(received, 1, tag) = Tag
    <3>1. Tag \in Seq(Cell)
      BY Retype, ElementOfSeq
    <3> DEFINE start == SubSeq(received, 1, tag)
    <3>2. start \in Seq(Cell) /\ Len(start) = tag /\ \A i \in 1..tag : start[i] = received[i]
      BY <1>1, <2>1
    <3> HIDE DEF start
    <3>3. \A i \in 1..tag : i \in 1..tag + size
      BY <1>1
    <3>4. \A i \in 1..tag : start[i] = Tag[i]
      BY <1>2, <1>4, <3>2, <3>3
    <3>5. Len(Tag) = tag
      BY DEF tag
    <3>6. start = Tag
      BY <3>1, <3>2, <3>4, <3>5, SeqEqual
    <3> QED
      BY <3>6 DEF start
  <2> QED
    BY <1>1, <2>1, <2>2 DEF IsRequest, IsPrefix, tag
<1>6. /\ found \in Seq(Cell \ {NUL}) /\ Len(found) \in 0..NameLen
      /\ \A i \in 1..Len(found) : found[i] = received[tag + i]
      /\ Len(found) < NameLen => received[tag + Len(found) + 1] = NUL
  BY <1>4, NameEnds DEF tag
<1> HIDE DEF found
<1> DEFINE n == Len(found)
<1>7. n \in Nat /\ n <= NameLen
  BY <1>1, <1>6
<1>8. \A i \in 1..size : tag + i \in 1..tag + size /\ received[tag + i] = name[i]
  <2>1. \A i \in 1..size : tag + i \in 1..tag + size
    BY <1>1
  <2> QED
    BY <1>2, <1>4, <2>1
<1>9. n >= size
  <2> SUFFICES ASSUME n < size PROVE FALSE
    BY <1>1, <1>7
  <2>1. n < NameLen /\ n + 1 \in 1..size /\ tag + (n + 1) = tag + n + 1
    BY <1>1, <1>7
  <2>2. received[tag + n + 1] = NUL
    BY <1>6, <2>1
  <2>3. received[tag + n + 1] # NUL
    BY <1>3, <1>4, <1>8, <2>1
  <2> QED
    BY <2>2, <2>3
<1>10. ASSUME size < NameLen, n > size PROVE buf[tag + size + 1] # NUL
  <2>1. size + 1 \in 1..n /\ tag + (size + 1) = tag + size + 1
    BY <1>1, <1>7, <1>10
  <2>2. found[size + 1] \in Cell \ {NUL} /\ found[size + 1] = received[tag + size + 1]
    BY <1>6, <2>1, ElementOfSeq
  <2> QED
    BY <1>4, <1>10, <2>2
<1>11. n = size => found = name
  BY <1>6, <1>8, SeqEqual DEF size
<1>12. found = name => n = size
  BY DEF size
<1>13. ASSUME size < NameLen, found = name PROVE buf[tag + size + 1] = NUL
  BY <1>4, <1>6, <1>12, <1>13
<1>14. ASSUME size < NameLen => buf[tag + size + 1] = NUL PROVE found = name
  <2>1. n = size
    BY <1>1, <1>7, <1>9, <1>10, <1>14
  <2> QED
    BY <1>11, <2>1
<1> QED
  BY <1>5, <1>13, <1>14 DEF found, received, line, tag, size

===============================================================================
