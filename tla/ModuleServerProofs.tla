------------------------- MODULE ModuleServerProofs --------------------------
(***************************************************************************)
(* Proofs for ModuleServer, for any clients, lines, files and sizes:       *)
(* types; the greeting goes only to a client that a file was sent to on    *)
(* the same connection; nothing is open once the module is unloaded; the   *)
(* clients are served in turn, as TurnServer says; what is echoed to a     *)
(* client is made of what it sent itself.                                  *)
(***************************************************************************)
EXTENDS ModuleServer, ChatStreamProofs

InSession == {"recv", "open", "part", "greet", "echo"}

ModShape ==
  /\ cur \in Client \cup {NoOne}
  /\ spc \in InSession \cup {"release"} => cur \in Client
  /\ pos \in Nat
  /\ spc = "part" => filename \in DOMAIN FileParts
  /\ queue \in Seq(Client)
  /\ s2c \in [Client -> Seq(ModTokens)]
  /\ got \in [Client -> Seq(ModTokens)]

\* In a session the flag says that a file was sent to this client: Accept clears what
\* the session before has left.
Flag ==
  /\ spc \in InSession /\ is_file_request => cur \in served
  /\ spc = "greet" => is_file_request

ModInv == ModShape /\ Flag /\ GreetsServed

-----------------------------------------------------------------------------
(* Sequences and tokens *)

LEMMA ToSetAppend ==
  ASSUME NEW S, NEW s \in Seq(S), NEW t \in S
  PROVE  Append(s, t) \in Seq(S) /\ ToSet(Append(s, t)) = ToSet(s) \cup {t}
<1>1. Append(s, t) \in Seq(S) /\ Len(Append(s, t)) = Len(s) + 1
  OBVIOUS
<1>2. \A i \in 1..Len(s) : Append(s, t)[i] = s[i]
  OBVIOUS
<1>3. Append(s, t)[Len(s) + 1] = t
  OBVIOUS
<1>4. DOMAIN s = 1..Len(s) /\ DOMAIN Append(s, t) = 1..Len(s) + 1
  BY <1>1
<1> QED
  BY <1>1, <1>2, <1>3, <1>4 DEF ToSet

LEMMA ToSetSubSeq ==
  ASSUME NEW S, NEW s \in Seq(S), NEW n \in 0..Len(s)
  PROVE  /\ SubSeq(s, n + 1, Len(s)) \in Seq(S)
         /\ ToSet(SubSeq(s, n + 1, Len(s))) \subseteq ToSet(s)
<1> DEFINE r == SubSeq(s, n + 1, Len(s))
<1>1. r \in Seq(S) /\ Len(r) = Len(s) - n
  OBVIOUS
<1>2. \A i \in 1..Len(r) : r[i] = s[i + n]
  OBVIOUS
<1>3. \A i \in 1..Len(r) : i + n \in 1..Len(s)
  BY <1>1
<1>4. DOMAIN r = 1..Len(r) /\ DOMAIN s = 1..Len(s)
  BY <1>1
<1> HIDE DEF r
<1>5. ToSet(r) \subseteq ToSet(s)
  BY <1>1, <1>2, <1>3, <1>4 DEF ToSet
<1> QED
  BY <1>1, <1>5 DEF r

LEMMA ToSetTail ==
  ASSUME NEW S, NEW s \in Seq(S), s # <<>>
  PROVE  /\ Tail(s) \in Seq(S) /\ Head(s) \in S /\ Head(s) \in ToSet(s)
         /\ ToSet(Tail(s)) \subseteq ToSet(s)
<1>1. Tail(s) \in Seq(S) /\ Len(Tail(s)) = Len(s) - 1 /\ Head(s) = s[1] /\ Len(s) > 0
  OBVIOUS
<1>2. \A i \in 1..Len(Tail(s)) : Tail(s)[i] = s[i + 1]
  OBVIOUS
<1>3. \A i \in 1..Len(Tail(s)) : i + 1 \in 1..Len(s)
  BY <1>1
<1>4. DOMAIN Tail(s) = 1..Len(Tail(s)) /\ DOMAIN s = 1..Len(s)
  BY <1>1
<1>5. s[1] \in S
  BY <1>1
<1> QED
  BY <1>1, <1>2, <1>3, <1>4, <1>5 DEF ToSet

LEMMA ModTokenTypes ==
  /\ HelloToken \in ModTokens /\ EchoToken \in ModTokens
  /\ EchoToken # HelloToken
  /\ \A n \in DOMAIN FileParts, k \in Nat :
       k < FileParts[n] => PartToken(n, k) \in ModTokens /\ PartToken(n, k) # HelloToken
<1>1. \A n, k : PartToken(n, k).kind # HelloToken.kind
  BY DEF PartToken, HelloToken
<1>2. EchoToken.kind # HelloToken.kind
  BY DEF EchoToken, HelloToken
<1>3. \A n \in DOMAIN FileParts, k \in Nat : k < FileParts[n] => PartToken(n, k) \in Tokens
  BY DataAssumption DEF Tokens
<1> QED
  BY <1>1, <1>2, <1>3 DEF ModTokens, Tokens

-----------------------------------------------------------------------------
(* The invariant *)

\* A step after which every client has seen what it had seen, or less.
LEMMA GreetFrame ==
  ASSUME GreetsServed, served \subseteq served',
         \A c \in Client : ToSet(s2c'[c]) \cup ToSet(got'[c])
                             \subseteq ToSet(s2c[c]) \cup ToSet(got[c])
  PROVE  GreetsServed'
BY DEF GreetsServed

\* What one kernel_sendmsg of the session preserves.
LEMMA ModSendStep ==
  ASSUME ModInv, cur \in Client, NEW token \in ModTokens, Sends(token) \/ SendFails,
         token = HelloToken => cur \in served,
         UNCHANGED <<got>>, served' = served
  PROVE  /\ s2c' \in [Client -> Seq(ModTokens)]
         /\ queue' = queue
         /\ GreetsServed'
<1>1. queue' = queue
  BY DEF Sends, SendFails
<1>2. CASE s2c' = s2c
  BY <1>1, <1>2, GreetFrame DEF ModInv, ModShape
<1>3. CASE s2c' = [s2c EXCEPT ![cur] = Append(@, token)]
  <2>1. /\ s2c[cur] \in Seq(ModTokens)
        /\ Append(s2c[cur], token) \in Seq(ModTokens)
        /\ ToSet(Append(s2c[cur], token)) = ToSet(s2c[cur]) \cup {token}
    BY ToSetAppend DEF ModInv, ModShape
  <2>2. s2c' \in [Client -> Seq(ModTokens)]
    BY <1>3, <2>1 DEF ModInv, ModShape
  <2>3. ASSUME NEW c \in Client, HelloToken \in ToSet(s2c'[c]) \cup ToSet(got'[c])
        PROVE  c \in served'
    <3>1. CASE c # cur
      <4>1. s2c'[c] = s2c[c]
        BY <1>3, <3>1 DEF ModInv, ModShape
      <4> QED
        BY <2>3, <4>1 DEF ModInv, GreetsServed
    <3>2. CASE c = cur
      <4>1. ToSet(s2c'[c]) = ToSet(s2c[c]) \cup {token}
        BY <1>3, <2>1, <3>2 DEF ModInv, ModShape
      <4> QED
        BY <2>3, <3>2, <4>1 DEF ModInv, GreetsServed
    <3> QED
      BY <3>1, <3>2
  <2> QED
    BY <1>1, <2>2, <2>3 DEF GreetsServed
<1> QED
  BY <1>2, <1>3 DEF Sends, SendFails

LEMMA ModInvInit == ModInit => ModInv
BY BoundAssumption
   DEF ModInit, Init, ModInv, ModShape, Flag, GreetsServed, InSession, ToSet

LEMMA InitInv ==
  ASSUME ModInv, InitStep
  PROVE  ModInv'
<1> USE DEF server, network, clients, history
<1>0. UNCHANGED got
  BY DEF InitStep, ModAccept, AcceptBreaks, AcceptInterrupted, ModReceive, ModReceiveEnd,
         ModReceiveFails, ReceiveFails, ModOpenFile, OpenFile, ModSendPart, SendPart,
         ModFileEnds, FileEnds, ModGreet, Greet, Echo, ModRelease, ReleaseClient
<1>1. CASE ModAccept
  <2>1. Head(queue) \in Client /\ Tail(queue) \in Seq(Client)
    BY <1>1 DEF ModAccept, ModInv, ModShape
  <2>2. GreetsServed'
    BY <1>1, GreetFrame DEF ModAccept, ModInv
  <2> QED
    BY <1>1, <2>1, <2>2 DEF ModAccept, ModInv, ModShape, Flag, InSession
<1>2. CASE AcceptBreaks
  BY <1>2, GreetFrame DEF AcceptBreaks, AcceptInterrupted, ModInv, ModShape, Flag, InSession
<1>3. CASE ModReceive
  BY <1>3, GreetFrame DEF ModReceive, Dispatch, ModInv, ModShape, Flag, InSession
<1>4. CASE ModReceiveEnd
  BY <1>4, GreetFrame DEF ModReceiveEnd, Dispatch, ModInv, ModShape, Flag, InSession
<1>5. CASE ModReceiveFails
  BY <1>5, GreetFrame DEF ModReceiveFails, ReceiveFails, ModInv, ModShape, Flag, InSession
<1>6. CASE ModOpenFile
  BY <1>6, GreetFrame DEF ModOpenFile, OpenFile, ModInv, ModShape, Flag, InSession
<1>7. CASE ModSendPart
  <2>1. cur \in Client /\ filename \in DOMAIN FileParts /\ pos \in Nat /\ pos < FileParts[filename]
    BY <1>7 DEF ModSendPart, SendPart, ModInv, ModShape, InSession
  <2>2. PartToken(filename, pos) \in ModTokens /\ PartToken(filename, pos) # HelloToken
    BY <2>1, ModTokenTypes
  <2>3. s2c' \in [Client -> Seq(ModTokens)] /\ queue' = queue /\ GreetsServed'
    BY <1>0, <1>7, <2>1, <2>2, ModSendStep DEF ModSendPart, SendPart
  <2> QED
    BY <1>0, <1>7, <2>1, <2>3 DEF ModSendPart, SendPart, ModInv, ModShape, Flag, InSession
<1>8. CASE ModFileEnds
  <2>1. GreetsServed'
    BY <1>8, GreetFrame DEF ModFileEnds, FileEnds, ModInv
  <2> QED
    BY <1>8, <2>1 DEF ModFileEnds, FileEnds, ModInv, ModShape, Flag, InSession
<1>9. CASE ModGreet
  <2>1. cur \in Client /\ cur \in served
    BY <1>9 DEF ModGreet, Greet, ModInv, ModShape, Flag, InSession
  <2>2. s2c' \in [Client -> Seq(ModTokens)] /\ queue' = queue /\ GreetsServed'
    BY <1>0, <1>9, <2>1, ModTokenTypes, ModSendStep DEF ModGreet, Greet
  <2> QED
    BY <1>0, <1>9, <2>1, <2>2 DEF ModGreet, Greet, ModInv, ModShape, Flag, InSession
<1>10. CASE Echo
  <2>1. cur \in Client
    BY <1>10 DEF Echo, ModInv, ModShape, InSession
  <2>2. s2c' \in [Client -> Seq(ModTokens)] /\ queue' = queue /\ GreetsServed'
    BY <1>0, <1>10, <2>1, ModTokenTypes, ModSendStep DEF Echo
  <2> QED
    BY <1>0, <1>10, <2>1, <2>2 DEF Echo, ModInv, ModShape, Flag, InSession
<1>11. CASE ModRelease
  <2>1. GreetsServed'
    BY <1>11, GreetFrame DEF ModRelease, ReleaseClient, ModInv
  <2> QED
    BY <1>11, <2>1 DEF ModRelease, ReleaseClient, ModInv, ModShape, Flag, InSession
<1> QED
  BY <1>1, <1>2, <1>3, <1>4, <1>5, <1>6, <1>7, <1>8, <1>9, <1>10, <1>11 DEF InitStep

LEMMA ModClientInv ==
  ASSUME ModInv, NEW c \in Client, ModClientStep(c)
  PROVE  ModInv'
<1> USE DEF server, network, clients
<1>1. UNCHANGED <<server, served>>
  BY DEF ModClientStep, RstArrives, ClientStep, Connect, TypeLine, Quit, ReceiveMessage,
         ReceiveFile, Kill
<1>2. queue' \in Seq(Client)
  <2>1. queue' \in {queue, Append(queue, c)}
    BY DEF ModClientStep, RstArrives, ClientStep, Connect, TypeLine, Quit, ReceiveMessage,
           ReceiveFile, Kill
  <2>2. queue \in Seq(Client)
    BY DEF ModInv, ModShape
  <2>3. Append(queue, c) \in Seq(Client)
    BY <2>2
  <2> QED
    BY <2>1, <2>2, <2>3
<1>3. SUFFICES /\ s2c' \in [Client -> Seq(ModTokens)] /\ got' \in [Client -> Seq(ModTokens)]
               /\ \A d \in Client : ToSet(s2c'[d]) \cup ToSet(got'[d])
                                      \subseteq ToSet(s2c[d]) \cup ToSet(got[d])
  BY <1>1, <1>2, GreetFrame DEF ModInv, ModShape, Flag
<1> DEFINE Less == /\ s2c' \in [Client -> Seq(ModTokens)] /\ got' \in [Client -> Seq(ModTokens)]
                   /\ \A d \in Client : ToSet(s2c'[d]) \cup ToSet(got'[d])
                                          \subseteq ToSet(s2c[d]) \cup ToSet(got[d])
<1>4. s2c \in [Client -> Seq(ModTokens)] /\ got \in [Client -> Seq(ModTokens)]
  BY DEF ModInv, ModShape
<1>5. ToSet(<<>>) = {}
  BY DEF ToSet
<1>6. ASSUME s2c' \in {s2c, [s2c EXCEPT ![c] = <<>>]}, got' \in {got, [got EXCEPT ![c] = <<>>]}
      PROVE  Less
  <2>1. <<>> \in Seq(ModTokens)
    OBVIOUS
  <2>2. s2c' \in [Client -> Seq(ModTokens)]
    BY <1>4, <1>6, <2>1
  <2>3. got' \in [Client -> Seq(ModTokens)]
    BY <1>4, <1>6, <2>1
  <2>4. ASSUME NEW d \in Client
        PROVE  /\ s2c'[d] = s2c[d] \/ s2c'[d] = <<>>
               /\ got'[d] = got[d] \/ got'[d] = <<>>
    BY <1>4, <1>6
  <2>5. \A d \in Client : ToSet(s2c'[d]) \subseteq ToSet(s2c[d])
    BY <1>5, <2>4
  <2>6. \A d \in Client : ToSet(got'[d]) \subseteq ToSet(got[d])
    BY <1>5, <2>4
  <2> QED
    BY <2>2, <2>3, <2>5, <2>6
<1>7. CASE RstArrives(c) \/ Connect(c)
  BY <1>4, <1>7 DEF RstArrives, Connect
<1>8. CASE TypeLine(c)
  <2>1. s2c' \in {s2c, [s2c EXCEPT ![c] = <<>>]}
    BY <1>8 DEF TypeLine, Close
  <2>2. got' \in {got, [got EXCEPT ![c] = <<>>]}
    BY <1>8 DEF TypeLine, Close
  <2> QED
    BY <1>6, <2>1, <2>2
<1>9. CASE Quit(c) \/ Kill(c)
  <2>1. s2c' = [s2c EXCEPT ![c] = <<>>] /\ got' = got
    BY <1>9 DEF Quit, Kill, Close
  <2> QED
    BY <1>6, <2>1
<1>10. CASE ReceiveMessage(c)
  <2>1. CASE s2c' = s2c
    BY <1>4, <1>10, <2>1 DEF ReceiveMessage
  <2>2. ASSUME NEW n \in 1..Len(s2c[c]),
               s2c' = [s2c EXCEPT ![c] = SubSeq(@, n + 1, Len(@))]
        PROVE  Less
    <3>1. s2c[c] \in Seq(ModTokens) /\ n \in 0..Len(s2c[c])
      BY <1>4
    <3>2. /\ SubSeq(s2c[c], n + 1, Len(s2c[c])) \in Seq(ModTokens)
          /\ ToSet(SubSeq(s2c[c], n + 1, Len(s2c[c]))) \subseteq ToSet(s2c[c])
      BY <3>1, ToSetSubSeq
    <3> QED
      BY <1>4, <1>10, <2>2, <3>2 DEF ReceiveMessage
  <2> QED
    BY <1>10, <2>1, <2>2 DEF ReceiveMessage
<1>11. CASE ReceiveFile(c)
  <2>1. CASE s2c' = s2c /\ got' = got
    BY <1>4, <2>1
  <2>2. CASE /\ s2c[c] # <<>>
             /\ got' = [got EXCEPT ![c] = Append(@, Head(s2c[c]))]
             /\ s2c' = [s2c EXCEPT ![c] = Tail(@)]
    <3>1. s2c[c] \in Seq(ModTokens) /\ got[c] \in Seq(ModTokens)
      BY <1>4
    <3>2. /\ Tail(s2c[c]) \in Seq(ModTokens) /\ Head(s2c[c]) \in ModTokens
          /\ Head(s2c[c]) \in ToSet(s2c[c]) /\ ToSet(Tail(s2c[c])) \subseteq ToSet(s2c[c])
      BY <2>2, <3>1, ToSetTail
    <3>3. /\ Append(got[c], Head(s2c[c])) \in Seq(ModTokens)
          /\ ToSet(Append(got[c], Head(s2c[c]))) = ToSet(got[c]) \cup {Head(s2c[c])}
      BY <3>1, <3>2, ToSetAppend
    <3> QED
      BY <1>4, <2>2, <3>2, <3>3
  <2> QED
    BY <1>11, <2>1, <2>2 DEF ReceiveFile
<1> QED
  BY <1>7, <1>8, <1>9, <1>10, <1>11 DEF ModClientStep, ClientStep

LEMMA ModInvStep ==
  ASSUME ModInv, [ModNext]_modVars
  PROVE  ModInv'
<1> USE DEF server, network, clients, history
<1>1. CASE UNCHANGED modVars
  BY <1>1, GreetFrame DEF modVars, vars, ModInv, ModShape, Flag
<1>2. CASE Load
  BY <1>2, GreetFrame DEF Load, ModInv, ModShape, Flag, InSession
<1>3. CASE Unload
  BY <1>3, GreetFrame DEF Unload, Exit, ModInv, ModShape, Flag, InSession
<1>4. CASE ModInterrupt
  BY <1>4, GreetFrame DEF ModInterrupt, Interrupt, ModInv, ModShape, Flag
<1> QED
  BY <1>1, <1>2, <1>3, <1>4, InitInv, ModClientInv DEF ModNext

\* ModInv is invariant.
THEOREM ModInvariance == ModSpec => []ModInv
BY ModInvInit, ModInvStep, PTL DEF ModSpec

\* GreetsServed: is_file_request never outlives the connection on which a file was sent
\* (chat_server_module.c:172), for any clients, lines and files.
THEOREM GreetingOwn == ModSpec => []GreetsServed
BY ModInvariance, PTL DEF ModInv

-----------------------------------------------------------------------------
(* What is left when the module is unloaded *)

Shut == {"none", "released", "aborted", "closed"}

\* A connection the module has not closed is in the queue or in service, and nothing is
\* in service outside a session, in the queue once the module is unloaded.
Held ==
  /\ spc \in {"accept", "exit", "off"} => cur = NoOne
  /\ spc = "off" => queue = <<>>
  /\ link \in [Client -> LinkStates]
  /\ \A c \in Client : link[c] \notin Shut => c = cur \/ c \in ToSet(queue)

LEMMA ToSetQueue ==
  ASSUME NEW q \in Seq(Client), q # <<>>
  PROVE  ToSet(q) \subseteq {Head(q)} \cup ToSet(Tail(q))
<1>1. Len(q) \in Nat \ {0} /\ Len(Tail(q)) = Len(q) - 1 /\ Head(q) = q[1]
      /\ DOMAIN q = 1..Len(q) /\ DOMAIN Tail(q) = 1..Len(Tail(q))
  OBVIOUS
<1>2. \A i \in 1..Len(Tail(q)) : Tail(q)[i] = q[i + 1]
  OBVIOUS
<1>3. ASSUME NEW i \in 1..Len(q), i # 1
      PROVE  q[i] \in ToSet(Tail(q))
  <2>1. i - 1 \in 1..Len(Tail(q)) /\ Tail(q)[i - 1] = q[(i - 1) + 1] /\ (i - 1) + 1 = i
    BY <1>1, <1>2, <1>3
  <2> QED
    BY <1>1, <2>1 DEF ToSet
<1> QED
  BY <1>1, <1>3 DEF ToSet

\* A step of a session that leaves the queue and the other connections alone.
LEMMA HeldFrame ==
  ASSUME Held, queue' = queue, cur' = cur, spc' \notin {"accept", "exit", "off"},
         link' \in [Client -> LinkStates],
         \A c \in Client \ {cur} : link'[c] = link[c]
  PROVE  Held'
BY DEF Held

LEMMA HeldInit ==
  ASSUME ModInv, Held, InitStep
  PROVE  Held'
<1> USE DEF network, clients, history
<1>1. spc \in InSession \cup {"release"} => cur \in Client
  BY DEF ModInv, ModShape
<1>2. ASSUME NEW state \in LinkStates, NEW c \in Client, SetLink(c, state)
      PROVE  /\ link' \in [Client -> LinkStates] /\ link'[c] = state
             /\ \A d \in Client \ {c} : link'[d] = link[d]
  BY <1>2 DEF SetLink, Held
<1>3. ASSUME NEW token, Sends(token) \/ SendFails, cur \in Client
      PROVE  /\ link' \in [Client -> LinkStates] /\ queue' = queue
             /\ \A c \in Client \ {cur} : link'[c] = link[c]
  BY <1>2, <1>3 DEF Sends, SendFails, LinkStates, Held
<1>4. CASE ModAccept
  <2>1. queue \in Seq(Client) /\ queue # <<>>
    BY <1>4 DEF ModAccept, ModInv, ModShape
  <2>2. cur = NoOne
    BY <1>4 DEF ModAccept, Held
  <2>3. \A c \in Client : c # cur
    BY <2>2, BoundAssumption
  <2> QED
    BY <1>4, <2>1, <2>3, ToSetQueue DEF ModAccept, Held
<1>5. CASE AcceptBreaks
  BY <1>5 DEF AcceptBreaks, AcceptInterrupted, Held
<1>6. CASE ModReceive \/ ModReceiveEnd
  BY <1>6, HeldFrame DEF ModReceive, ModReceiveEnd, Dispatch, Held
<1>7. CASE ModReceiveFails
  <2>1. cur \in Client
    BY <1>1, <1>7 DEF ModReceiveFails, ReceiveFails, InSession
  <2>2. link' \in [Client -> LinkStates] /\ \A c \in Client \ {cur} : link'[c] = link[c]
    BY <1>2, <1>7, <2>1 DEF ModReceiveFails, ReceiveFails, LinkStates, Held
  <2> QED
    BY <1>7, <2>2, HeldFrame DEF ModReceiveFails, ReceiveFails
<1>8. CASE ModOpenFile \/ ModFileEnds
  BY <1>8, HeldFrame DEF ModOpenFile, OpenFile, ModFileEnds, FileEnds, Held
<1>9. CASE ModSendPart \/ ModGreet \/ Echo
  <2>1. cur \in Client /\ cur' = cur /\ spc' \notin {"accept", "exit", "off"}
    BY <1>1, <1>9 DEF ModSendPart, SendPart, ModGreet, Greet, Echo, InSession
  <2>2. \E token : Sends(token) \/ SendFails
    BY <1>9 DEF ModSendPart, SendPart, ModGreet, Greet, Echo
  <2> QED
    BY <1>3, <2>1, <2>2, HeldFrame
<1>10. CASE ModRelease
  <2>1. cur \in Client /\ cur' = NoOne /\ queue' = queue /\ spc' = "accept"
        /\ ReleaseLink(cur)
    BY <1>1, <1>10 DEF ModRelease, ReleaseClient
  <2>2. /\ link' \in [Client -> LinkStates] /\ link'[cur] \in Shut
        /\ \A c \in Client \ {cur} : link'[c] = link[c]
    BY <1>2, <2>1 DEF ReleaseLink, LinkStates, Shut
  <2> QED
    BY <2>1, <2>2 DEF Held
<1> QED
  BY <1>4, <1>5, <1>6, <1>7, <1>8, <1>9, <1>10 DEF InitStep

LEMMA HeldClient ==
  ASSUME ModInv, Held, NEW c \in Client, ModClientStep(c)
  PROVE  Held'
<1> USE DEF server, network, clients
<1>1. ASSUME Close(c), UNCHANGED <<spc, cur, queue>>
      PROVE  Held'
  <2>1. PICK state \in LinkStates :
          link' = [link EXCEPT ![c] = state] /\ (link[c] \in Shut => state \in Shut)
    BY <1>1 DEF Close, SetLink, LinkStates, Shut
  <2> QED
    BY <1>1, <2>1 DEF Held
<1>2. CASE RstArrives(c)
  BY <1>2 DEF RstArrives, SetLink, LinkStates, Held, Shut
<1>3. CASE Connect(c)
  <2>1. CASE queue' = Append(queue, c) /\ SetLink(c, "live") /\ spc # "off"
    <3>1. queue \in Seq(Client) /\ ToSet(queue') = ToSet(queue) \cup {c}
      BY <2>1, ToSetAppend DEF ModInv, ModShape
    <3> QED
      BY <1>3, <2>1, <3>1 DEF Connect, SetLink, LinkStates, Held
  <2>2. CASE UNCHANGED <<queue, link>>
    BY <1>3, <2>2 DEF Connect, Held
  <2> QED
    BY <1>3, <2>1, <2>2 DEF Connect
<1>4. CASE TypeLine(c)
  <2>1. UNCHANGED <<spc, cur, queue>> /\ (Close(c) \/ UNCHANGED link)
    BY <1>4 DEF TypeLine
  <2> QED
    BY <1>1, <2>1 DEF Held
<1>5. CASE Quit(c) \/ Kill(c)
  BY <1>1, <1>5 DEF Quit, Kill
<1>6. CASE ReceiveMessage(c) \/ ReceiveFile(c)
  BY <1>6 DEF ReceiveMessage, ReceiveFile, Held
<1> QED
  BY <1>2, <1>3, <1>4, <1>5, <1>6 DEF ModClientStep, ClientStep

LEMMA HeldStep ==
  ASSUME ModInv, Held, [ModNext]_modVars
  PROVE  Held'
<1> USE DEF server, network, clients, history
<1>1. CASE UNCHANGED modVars
  BY <1>1 DEF modVars, vars, Held
<1>2. CASE Load
  BY <1>2 DEF Load, Held
<1>3. CASE Unload
  <2>1. cur' = NoOne /\ queue' = <<>> /\ cur = NoOne /\ spc' = "off"
    BY <1>3 DEF Unload, Exit, Held
  <2>2. \A c \in Client : c # cur
    BY <2>1, BoundAssumption
  <2>3. link' \in [Client -> LinkStates]
    BY <1>3 DEF Unload, Exit, LinkStates, Held
  <2>4. \A c \in Client : link'[c] \in Shut
    BY <1>3, <2>2 DEF Unload, Exit, Held, Shut
  <2> QED
    BY <2>1, <2>3, <2>4 DEF Held
<1>4. CASE ModInterrupt
  BY <1>4 DEF ModInterrupt, Interrupt, Held
<1> QED
  BY <1>1, <1>2, <1>3, <1>4, HeldInit, HeldClient DEF ModNext

\* Held is invariant.
THEOREM HeldInvariance == ModSpec => []Held
<1>1. ModInit => Held
  BY DEF ModInit, Init, Held, LinkStates, Shut
<1>2. ModInv /\ Held /\ [ModNext]_modVars => Held'
  BY HeldStep
<1> QED
  BY <1>1, <1>2, ModInvariance, PTL DEF ModSpec

\* UnloadedClosed: once the module is unloaded no connection is open, whether it was served,
\* waited when init returned, or came after that (chat_server_module.c:167, :237).
THEOREM NothingOpen == ModSpec => []UnloadedClosed
<1>1. Held => UnloadedClosed
  <2> SUFFICES ASSUME Held, spc = "off" PROVE cur = NoOne /\ \A c \in Client : link[c] \in Shut
    BY DEF UnloadedClosed, Shut
  <2>1. \A c \in Client : c # cur /\ c \notin ToSet(queue)
    BY BoundAssumption DEF Held, ToSet
  <2> QED
    BY <2>1 DEF Held
<1> QED
  BY <1>1, HeldInvariance, PTL

-----------------------------------------------------------------------------
(* The types of all of the state *)

\* What ModTypeOK says beyond ModShape, with the sizes apart from the elements.
ModTypes ==
  /\ spc \in (ServerSteps \cup {"echo"}) \ {"check", "copy", "reply"}
  /\ buffer \in [1..BufLen -> Cell]
  /\ is_file_request \in BOOLEAN
  /\ filename \in BoundedSeq(Cell \ {NUL}, NameLen)
  /\ signal \in {"none", "int", "pipe"}
  /\ Len(queue) <= Backlog + 1
  /\ link \in [Client -> LinkStates]
  /\ Streams
  /\ \A c \in Client : Len(s2c[c]) <= SndCap
  /\ cpc \in [Client -> ClientSteps]
  /\ typed \in [Client -> 0..MaxLines]
  /\ bytes_received \in 0..BufLen
  /\ said \in [Client -> Seq(Cell \ {NUL})] /\ echoed \in [Client -> Seq(Cell)]
  /\ served \subseteq Client

LEMMA ModTypesInit == ModInit => ModTypes
<1> USE DataAssumption, BoundAssumption
<1>1. <<>> \in BoundedSeq(Cell \ {NUL}, NameLen)
  BY EmptyBounded
<1>2. <<>> \in Seq(Cell \ {NUL}) /\ <<>> \in Seq(Cell) /\ Len(<<>>) = 0
  BY EmptySeq
<1> SUFFICES ASSUME ModInit PROVE ModTypes
  OBVIOUS
<1>3. Streams /\ said \in [Client -> Seq(Cell \ {NUL})] /\ echoed \in [Client -> Seq(Cell)]
  BY <1>2 DEF ModInit, Init, Streams
<1>4. filename \in BoundedSeq(Cell \ {NUL}, NameLen)
  BY <1>1 DEF ModInit, Init
<1>5. Len(queue) <= Backlog + 1 /\ \A c \in Client : Len(s2c[c]) <= SndCap
  BY <1>2 DEF ModInit, Init
<1>6. /\ buffer \in [1..BufLen -> Cell] /\ typed \in [Client -> 0..MaxLines]
      /\ bytes_received \in 0..BufLen
  BY DEF ModInit, Init
<1>7. /\ spc \in (ServerSteps \cup {"echo"}) \ {"check", "copy", "reply"}
      /\ is_file_request \in BOOLEAN /\ signal \in {"none", "int", "pipe"}
      /\ link \in [Client -> LinkStates] /\ cpc \in [Client -> ClientSteps]
      /\ served \subseteq Client
  BY DEF ModInit, Init, ServerSteps, LinkStates, ClientSteps
<1> QED
  BY <1>3, <1>4, <1>5, <1>6, <1>7 DEF ModTypes

\* A send leaves the connections, the streams and their bounds as they should be.
LEMMA ModSendTypes ==
  ASSUME ModInv, ModTypes, cur \in Client, NEW token \in ModTokens,
         Sends(token) \/ SendFails
  PROVE  /\ \A c \in Client : Len(s2c'[c]) <= SndCap
         /\ signal' \in {"none", "int", "pipe"}
         /\ link' \in [Client -> LinkStates]
         /\ queue' = queue /\ c2s' = c2s
<1>1. \A c \in Client : s2c[c] \in Seq(ModTokens) /\ Len(s2c[c]) \in Nat
  BY DEF ModInv, ModShape
<1>2. link' \in [Client -> LinkStates]
  BY DEF Sends, SendFails, SetLink, LinkStates, ModTypes
<1>3. CASE s2c' = [s2c EXCEPT ![cur] = Append(@, token)] /\ Len(s2c[cur]) < SndCap
  <2>1. Len(Append(s2c[cur], token)) = Len(s2c[cur]) + 1
    BY <1>1
  <2>2. s2c'[cur] = Append(s2c[cur], token) /\ \A c \in Client \ {cur} : s2c'[c] = s2c[c]
    BY <1>3 DEF ModInv, ModShape
  <2>3. \A c \in Client : Len(s2c'[c]) <= SndCap
    BY <1>1, <1>3, <2>1, <2>2, BoundAssumption DEF ModTypes
  <2> QED
    BY <1>2, <2>3 DEF Sends, SendFails, ModTypes
<1>4. CASE s2c' = s2c
  BY <1>2, <1>4 DEF Sends, SendFails, ModTypes
<1> QED
  BY <1>3, <1>4 DEF Sends, SendFails

\* The buffer and the stream after n cells were received.
LEMMA ReceiveTypes ==
  ASSUME Streams, buffer \in [1..BufLen -> Cell], cur \in Client,
         NEW n \in 1..Len(c2s[cur]), n <= BufLen,
         buffer' = Overwrite(buffer, SubSeq(c2s[cur], 1, n)),
         c2s' = [c2s EXCEPT ![cur] = SubSeq(@, n + 1, Len(@))]
  PROVE  /\ Streams' /\ buffer' \in [1..BufLen -> Cell]
         /\ \A i \in 1..n : buffer'[i] = c2s[cur][i]
<1>1. c2s[cur] \in Seq(Cell \ {NUL})
  BY DEF Streams
<1>2. SubSeq(c2s[cur], n + 1, Len(c2s[cur])) \in Seq(Cell \ {NUL})
  BY <1>1
<1>3. Streams'
  BY <1>2 DEF Streams
<1> DEFINE data == SubSeq(c2s[cur], 1, n)
<1>4. Len(data) = n /\ \A i \in 1..n : data[i] \in Cell /\ data[i] = c2s[cur][i]
  BY <1>1
<1> HIDE DEF data
<1>5. \A i \in 1..BufLen : (IF i <= Len(data) THEN data[i] ELSE buffer[i]) \in Cell
  BY <1>4, DataAssumption
<1>6. buffer' \in [1..BufLen -> Cell]
  BY <1>5 DEF Overwrite, data
<1>7. \A i \in 1..n : i \in 1..BufLen
  BY DataAssumption
<1>8. \A i \in 1..n : buffer'[i] = data[i]
  BY <1>4, <1>7 DEF Overwrite, data
<1> QED
  BY <1>3, <1>4, <1>6, <1>8

LEMMA AppendedPart ==
  ASSUME NEW S, NEW p \in Seq(S), NEW q \in Seq(S)
  PROVE  SubSeq(p \o q, Len(p) + 1, Len(p \o q)) = q
<1> DEFINE r == SubSeq(p \o q, Len(p) + 1, Len(p \o q))
<1>1. r \in Seq(S) /\ Len(r) = Len(q)
  OBVIOUS
<1>2. \A i \in 1..Len(q) : r[i] = q[i]
  OBVIOUS
<1> HIDE DEF r
<1>3. r = q
  BY <1>1, <1>2, SeqEqual
<1> QED
  BY <1>3 DEF r

\* What an answer takes from the buffer: at most as many cells as were received.
LEMMA ModifiedType ==
  ASSUME NEW buf \in [1..BufLen -> Cell], NEW n \in 0..BufLen
  PROVE  /\ SubSeq(buf, 1, n) \in Seq(Cell) /\ Len(SubSeq(buf, 1, n)) = n
         /\ \A i \in 1..n : SubSeq(buf, 1, n)[i] = buf[i]
         /\ Modified(SubSeq(buf, 1, n)) \in Seq(Cell)
         /\ Len(Modified(SubSeq(buf, 1, n))) = n
         /\ (\A i \in 1..n : buf[i] # NUL)
              => \A i \in 1..n : Modified(SubSeq(buf, 1, n))[i] = buf[i]
<1> USE DataAssumption
<1> DEFINE data == SubSeq(buf, 1, n)
           copy == [i \in 1..n |-> IF \E j \in 1..i : data[j] = NUL THEN NUL ELSE data[i]]
<1>1. buf \in Seq(Cell) /\ Len(buf) = BufLen
  OBVIOUS
<1>2. data \in Seq(Cell) /\ Len(data) = n /\ \A i \in 1..n : data[i] = buf[i] /\ data[i] \in Cell
  BY <1>1
<1> HIDE DEF data
<1>3. Modified(data) = copy
  BY <1>2 DEF Modified
<1>4. copy \in [1..n -> Cell]
  BY <1>2
<1>6. (\A i \in 1..n : buf[i] # NUL) => \A i \in 1..n : copy[i] = buf[i]
  BY <1>2
<1> HIDE DEF copy
<1>5. n \in Nat
  OBVIOUS
<1>7. copy \in Seq(Cell) /\ Len(copy) = n
  BY <1>4, <1>5, FunctionIsSeq, Zenon
<1> QED
  BY <1>2, <1>3, <1>6, <1>7 DEF data

LEMMA ModInitTypes ==
  ASSUME ModInv, ModTypes, InitStep
  PROVE  ModTypes'
<1> USE DEF network, clients, history
<1>1. spc \in InSession \cup {"release"} => cur \in Client
  BY DEF ModInv, ModShape
<1>2. CASE ModAccept
  <2>1. queue \in Seq(Client) /\ queue # <<>>
    BY <1>2 DEF ModAccept, ModInv, ModShape
  <2>2. Len(Tail(queue)) = Len(queue) - 1 /\ Len(queue) \in Nat
    BY <2>1, EmptySeq
  <2>3. Len(queue') <= Backlog + 1
    BY <1>2, <2>2, BoundAssumption DEF ModAccept, ModTypes
  <2> QED
    BY <1>2, <2>3 DEF ModAccept, ModTypes, Streams, ServerSteps
<1>3. CASE AcceptBreaks
  BY <1>3 DEF AcceptBreaks, AcceptInterrupted, ModTypes, Streams, ServerSteps
<1>4. ASSUME NEW buf \in [1..BufLen -> Cell], NEW n \in 0..BufLen, Dispatch(buf, n)
      PROVE  /\ bytes_received' \in 0..BufLen
             /\ spc' \in (ServerSteps \cup {"echo"}) \ {"check", "copy", "reply"}
             /\ filename' \in BoundedSeq(Cell \ {NUL}, NameLen)
  <2>1. NameIn(buf) \in BoundedSeq(Cell \ {NUL}, NameLen)
    BY NameType
  <2> QED
    BY <1>4, <2>1 DEF Dispatch, ModTypes, ServerSteps
<1>5. CASE ModReceive
  <2>1. cur \in Client
    BY <1>1, <1>5 DEF ModReceive, InSession
  <2>2. PICK n \in 1..Len(c2s[cur]) :
          /\ n <= BufLen
          /\ buffer' = Overwrite(buffer, SubSeq(c2s[cur], 1, n))
          /\ c2s' = [c2s EXCEPT ![cur] = SubSeq(@, n + 1, Len(@))]
          /\ Dispatch(buffer', n)
    BY <1>5 DEF ModReceive
  <2>3. Streams' /\ buffer' \in [1..BufLen -> Cell]
    BY <2>1, <2>2, ReceiveTypes DEF ModTypes
  <2>4. n \in 0..BufLen
    BY <2>2, DataAssumption
  <2> QED
    BY <1>4, <1>5, <2>2, <2>3, <2>4 DEF ModReceive, ModTypes
<1>6. CASE ModReceiveEnd
  <2>1. 0 \in 0..BufLen
    BY DataAssumption
  <2> QED
    BY <1>4, <1>6, <2>1 DEF ModReceiveEnd, ModTypes, Streams
<1>7. CASE ModReceiveFails
  <2>1. link' \in [Client -> LinkStates]
    BY <1>7 DEF ModReceiveFails, ReceiveFails, SetLink, LinkStates, ModTypes
  <2> QED
    BY <1>7, <2>1 DEF ModReceiveFails, ReceiveFails, ModTypes, Streams, ServerSteps
<1>8. CASE ModOpenFile \/ ModFileEnds
  BY <1>1, <1>8 DEF ModOpenFile, OpenFile, ModFileEnds, FileEnds, ModTypes, Streams,
     ServerSteps, InSession
<1>9. CASE ModSendPart
  <2>1. PartToken(filename, pos) \in ModTokens
    BY <1>9, ModTokenTypes DEF ModSendPart, SendPart, ModInv, ModShape
  <2>2. cur \in Client /\ (Sends(PartToken(filename, pos)) \/ SendFails)
    BY <1>1, <1>9 DEF ModSendPart, SendPart, InSession
  <2> QED
    BY <1>9, <2>1, <2>2, ModSendTypes DEF ModSendPart, SendPart, ModTypes, Streams, ServerSteps
<1>10. CASE ModGreet
  <2>1. cur \in Client /\ (Sends(HelloToken) \/ SendFails)
    BY <1>1, <1>10 DEF ModGreet, Greet, InSession
  <2> QED
    BY <1>10, <2>1, ModTokenTypes, ModSendTypes
       DEF ModGreet, Greet, ModTypes, Streams, ServerSteps
<1>11. CASE Echo
  <2>1. cur \in Client /\ (Sends(EchoToken) \/ SendFails)
    BY <1>1, <1>11 DEF Echo, InSession
  <2>2. buffer' \in [1..BufLen -> Cell]
    BY <1>11, DataAssumption DEF Echo, Overrun, ModTypes
  <2>3. echoed' \in [Client -> Seq(Cell)]
    <3> DEFINE new == Modified(SubSeq(buffer, 1, bytes_received))
    <3>1. new \in Seq(Cell)
      BY ModifiedType DEF ModTypes
    <3> HIDE DEF new
    <3>2. echoed[cur] \o new \in Seq(Cell)
      BY <2>1, <3>1, ConcatProperties DEF ModTypes
    <3> QED
      BY <1>11, <3>2 DEF Echo, new, ModTypes
  <2> QED
    BY <1>11, <2>1, <2>2, <2>3, ModTokenTypes, ModSendTypes
       DEF Echo, ModTypes, Streams, ServerSteps
<1>12. CASE ModRelease
  <2>1. c2s' = [c2s EXCEPT ![cur] = <<>>] /\ <<>> \in Seq(Cell \ {NUL})
    BY <1>12 DEF ModRelease, ReleaseClient, ReleaseLink
  <2>2. Streams'
    BY <2>1 DEF ModTypes, Streams
  <2>3. link' \in [Client -> LinkStates]
    BY <1>12 DEF ModRelease, ReleaseClient, ReleaseLink, SetLink, LinkStates, ModTypes
  <2> QED
    BY <1>12, <2>2, <2>3 DEF ModRelease, ReleaseClient, ModTypes, ServerSteps
<1> QED
  BY <1>2, <1>3, <1>5, <1>6, <1>7, <1>8, <1>9, <1>10, <1>11, <1>12 DEF InitStep

\* What a client sends in a step goes both to its stream and to what it has said.
LEMMA ClientSays ==
  ASSUME ModTypes, NEW c \in Client, ModClientStep(c)
  PROVE  \E line \in Seq(Cell \ {NUL}) :
           /\ c2s' = [c2s EXCEPT ![c] = @ \o line]
           /\ said' = [said EXCEPT ![c] = @ \o line]
<1> DEFINE q == c2s[c]
           Says(line) == /\ c2s' = [c2s EXCEPT ![c] = @ \o line]
                         /\ said' = [said EXCEPT ![c] = @ \o line]
<1>1. q \in Seq(Cell \ {NUL}) /\ c2s \in [Client -> Seq(Cell \ {NUL})]
  BY DEF ModTypes, Streams
<1>2. ASSUME c2s' = c2s PROVE \E line \in Seq(Cell \ {NUL}) : Says(line)
  <2>1. <<>> \in Seq(Cell \ {NUL})
    BY EmptySeq
  <2>2. q \o <<>> = q
    BY <1>1
  <2>3. c2s' = [c2s EXCEPT ![c] = @ \o <<>>]
    BY <1>1, <1>2, <2>2
  <2>4. SubSeq(q, Len(q) + 1, Len(q)) = <<>>
    BY <1>1
  <2>5. said' = [said EXCEPT ![c] = @ \o <<>>]
    BY <1>2, <2>4 DEF ModClientStep
  <2> QED
    BY <2>1, <2>3, <2>5
<1>3. ASSUME NEW line \in Lines, c2s' = [c2s EXCEPT ![c] = @ \o line]
      PROVE  \E l \in Seq(Cell \ {NUL}) : Says(l)
  <2>1. line \in Seq(Cell \ {NUL})
    BY DataAssumption
  <2>2. c2s'[c] = q \o line
    BY <1>1, <1>3
  <2>3. SubSeq(q \o line, Len(q) + 1, Len(q \o line)) = line
    BY <1>1, <2>1, AppendedPart, Zenon
  <2>4. said' = [said EXCEPT ![c] = @ \o line]
    BY <2>2, <2>3 DEF ModClientStep
  <2> QED
    BY <1>3, <2>1, <2>4
<1>4. c2s' = c2s \/ \E line \in Lines : c2s' = [c2s EXCEPT ![c] = @ \o line]
  <2>1. CASE TypeLine(c)
    BY <2>1 DEF TypeLine
  <2>2. CASE RstArrives(c) \/ Connect(c) \/ Quit(c) \/ Kill(c) \/ ReceiveMessage(c) \/ ReceiveFile(c)
    BY <2>2 DEF RstArrives, Connect, Quit, Kill, ReceiveMessage, ReceiveFile
  <2> QED
    BY <2>1, <2>2 DEF ModClientStep, ClientStep
<1> QED
  BY <1>2, <1>3, <1>4

LEMMA ModClientTypes ==
  ASSUME ModInv, ModTypes, NEW c \in Client, ModClientStep(c)
  PROVE  ModTypes'
<1> USE DEF server, clients
<1>1. /\ \A d \in Client : s2c[d] \in Seq(ModTokens) /\ Len(s2c[d]) \in Nat
      /\ DOMAIN s2c = Client
  BY DEF ModInv, ModShape
<1>2. Streams' /\ said' \in [Client -> Seq(Cell \ {NUL})]
  <2>1. PICK line \in Seq(Cell \ {NUL}) :
          /\ c2s' = [c2s EXCEPT ![c] = @ \o line]
          /\ said' = [said EXCEPT ![c] = @ \o line]
    BY ClientSays
  <2>2. c2s[c] \o line \in Seq(Cell \ {NUL}) /\ said[c] \o line \in Seq(Cell \ {NUL})
    BY <2>1, ConcatProperties DEF ModTypes, Streams
  <2> QED
    BY <2>1, <2>2 DEF ModTypes, Streams
<1>3. /\ UNCHANGED <<server, bytes_received, echoed, served, signal>>
      /\ echoed' \in [Client -> Seq(Cell)]
  BY DEF ModClientStep, ClientStep, RstArrives, Connect, TypeLine, Quit, Kill, ReceiveMessage,
     ReceiveFile, ModTypes
<1>4. ASSUME Close(c)
      PROVE  /\ \A d \in Client : Len(s2c'[d]) <= SndCap
             /\ link' \in [Client -> LinkStates]
             /\ cpc' \in [Client -> ClientSteps]
  <2>1. \A d \in Client : Len(s2c'[d]) <= SndCap
    BY <1>1, <1>4, EmptySeq, BoundAssumption DEF Close, ModTypes
  <2>2. link' \in [Client -> LinkStates]
    BY <1>4 DEF Close, SetLink, LinkStates, ModTypes
  <2>3. cpc' \in [Client -> ClientSteps]
    BY <1>4 DEF Close, ClientSteps, ModTypes
  <2> QED
    BY <2>1, <2>2, <2>3
<1>5. /\ \A d \in Client : Len(s2c'[d]) <= SndCap
      /\ link' \in [Client -> LinkStates]
      /\ cpc' \in [Client -> ClientSteps]
      /\ typed' \in [Client -> 0..MaxLines]
      /\ Len(queue') <= Backlog + 1
  <2>1. CASE RstArrives(c)
    BY <2>1 DEF RstArrives, SetLink, LinkStates, ModTypes
  <2>2. CASE Connect(c)
    <3>1. Len(Append(queue, c)) = Len(queue) + 1 /\ Len(queue) \in Nat
      BY DEF ModInv, ModShape
    <3>2. Len(queue') <= Backlog + 1
      BY <2>2, <3>1, BoundAssumption DEF Connect, ModTypes
    <3> QED
      BY <2>2, <3>2 DEF Connect, SetLink, LinkStates, ClientSteps, ModTypes
  <2>3. CASE TypeLine(c)
    <3>1. typed' \in [Client -> 0..MaxLines] /\ queue' = queue
      BY <2>3, BoundAssumption DEF TypeLine, ModTypes
    <3>2. Close(c) \/ (UNCHANGED <<link, s2c>>
            /\ cpc' \in {cpc, [cpc EXCEPT ![c] = "recvfile"], [cpc EXCEPT ![c] = "recvmsg"]})
      BY <2>3 DEF TypeLine
    <3> QED
      BY <1>4, <3>1, <3>2 DEF ClientSteps, ModTypes
  <2>4. CASE Quit(c) \/ Kill(c)
    BY <1>4, <2>4 DEF Quit, Kill, ModTypes
  <2>5. CASE ReceiveMessage(c)
    <3>1. ASSUME NEW n \in 1..Len(s2c[c]), s2c' = [s2c EXCEPT ![c] = SubSeq(@, n + 1, Len(@))]
          PROVE  \A d \in Client : Len(s2c'[d]) <= SndCap
      <4>1. /\ Len(SubSeq(s2c[c], n + 1, Len(s2c[c]))) <= Len(s2c[c])
            /\ Len(SubSeq(s2c[c], n + 1, Len(s2c[c]))) \in Nat
        BY <1>1
      <4> QED
        BY <1>1, <3>1, <4>1, BoundAssumption DEF ModTypes
    <3>2. \A d \in Client : Len(s2c'[d]) <= SndCap
      BY <2>5, <3>1 DEF ReceiveMessage, ModTypes
    <3> QED
      BY <2>5, <3>2 DEF ReceiveMessage, ClientSteps, ModTypes
  <2>6. CASE ReceiveFile(c)
    <3>1. ASSUME s2c[c] # <<>>, s2c' = [s2c EXCEPT ![c] = Tail(@)]
          PROVE  \A d \in Client : Len(s2c'[d]) <= SndCap
      <4>1. Len(Tail(s2c[c])) = Len(s2c[c]) - 1
        BY <1>1, <3>1, EmptySeq
      <4> QED
        BY <1>1, <3>1, <4>1, BoundAssumption DEF ModTypes
    <3>2. \A d \in Client : Len(s2c'[d]) <= SndCap
      BY <2>6, <3>1 DEF ReceiveFile, ModTypes
    <3> QED
      BY <2>6, <3>2 DEF ReceiveFile, ClientSteps, ModTypes
  <2> QED
    BY <2>1, <2>2, <2>3, <2>4, <2>5, <2>6 DEF ModClientStep, ClientStep
<1> QED
  BY <1>2, <1>3, <1>5 DEF ModTypes

LEMMA ModTypesStep ==
  ASSUME ModInv, ModTypes, [ModNext]_modVars
  PROVE  ModTypes'
<1> USE DEF server, network, clients, history
<1>1. CASE UNCHANGED modVars
  BY <1>1 DEF modVars, vars, ModTypes, Streams
<1>2. CASE Load
  <2>1. filename' \in BoundedSeq(Cell \ {NUL}, NameLen)
    BY <1>2, EmptyBounded, DataAssumption DEF Load
  <2>2. buffer' \in [1..BufLen -> Cell]
    BY <1>2, DataAssumption DEF Load
  <2> QED
    BY <1>2, <2>1, <2>2 DEF Load, ModTypes, Streams, ServerSteps
<1>3. CASE Unload
  <2>1. Len(queue') <= Backlog + 1
    BY <1>3, EmptySeq, BoundAssumption DEF Unload, Exit
  <2>2. link' \in [Client -> LinkStates]
    BY <1>3 DEF Unload, Exit, LinkStates, ModTypes
  <2> QED
    BY <1>3, <2>1, <2>2 DEF Unload, Exit, ModTypes, Streams, ServerSteps
<1>4. CASE ModInterrupt
  BY <1>4 DEF ModInterrupt, Interrupt, ModTypes, Streams
<1> QED
  BY <1>1, <1>2, <1>3, <1>4, ModInitTypes, ModClientTypes DEF ModNext

LEMMA ModTypesImply == ModInv /\ ModTypes => ModTypeOK
<1> SUFFICES ASSUME ModInv, ModTypes PROVE ModTypeOK
  OBVIOUS
<1>1. queue \in BoundedSeq(Client, Backlog + 1)
  BY BoundedSeqDef, BoundAssumption DEF ModInv, ModShape, ModTypes
<1>2. s2c \in [Client -> BoundedSeq(ModTokens, SndCap)]
  <2>1. \A c \in Client : s2c[c] \in BoundedSeq(ModTokens, SndCap)
    BY BoundedSeqDef, BoundAssumption DEF ModInv, ModShape, ModTypes
  <2> QED
    BY <2>1 DEF ModInv, ModShape
<1> QED
  BY <1>1, <1>2 DEF ModTypeOK, ModInv, ModShape, ModTypes, Streams

\* ModTypes is invariant.
THEOREM ModTypesInvariance == ModSpec => []ModTypes
BY ModTypesInit, ModTypesStep, ModInvariance, PTL DEF ModSpec

\* ModTypeOK: the state of the module, the connections and the clients keeps its domains; the
\* length of the copy that is sent back is never an error and never more than the buffer
\* holds (chat_server_module.c:177, :214).
THEOREM ModTypeCorrect == ModSpec => []ModTypeOK
BY ModTypesImply, ModInvariance, ModTypesInvariance, PTL

-----------------------------------------------------------------------------
(* The module takes turns as TurnServer says, and opens again when it is loaded *)

\* What the turns rest on: Held, and that a connection is in one place (Placed).
Ranked == ModInv /\ ModTypes /\ Held /\ Placed

\* A step that leaves the queue and who is served, and neither opens nor ends a connection.
LEMMA SameTurn ==
  ASSUME Ranked, queue' = queue, cur' = cur, spc' = "off" <=> spc = "off",
         \A c \in Client : link'[c] \in Over <=> link[c] \in Over,
         \A c \in Client : link'[c] = "none" <=> link[c] = "none",
         \A c \in Client : cpc'[c] = "start" => cpc[c] = "start"
  PROVE  Placed' /\ UNCHANGED Turns!vars
<1>1. UNCHANGED Turns!vars
  BY NoTurn
<1>2. \A i \in 1..Len(queue) : queue[i] \in Client
  BY DEF Ranked, ModInv, ModShape
<1>3. cur # NoOne => cur \in Client
  BY DEF Ranked, ModInv, ModShape
<1>4. \A i \in 1..Len(queue) : queue[i] # cur /\ link'[queue[i]] \notin Over \cup {"none"}
  BY <1>2 DEF Ranked, Placed
<1>5. cur # NoOne => link'[cur] \notin Over \cup {"none"}
  BY <1>3 DEF Ranked, Placed
<1>6. \A c \in Client : cpc'[c] = "start" => link'[c] = "none"
  BY DEF Ranked, Placed
<1> QED
  BY <1>1, <1>4, <1>5, <1>6 DEF Ranked, Placed

\* One state of one connection changes, and it stays open, or stays over.
LEMMA SameTurnLink ==
  ASSUME Ranked, queue' = queue, cur' = cur, spc' = "off" <=> spc = "off",
         NEW c \in Client, NEW state \in LinkStates \ {"none"},
         link' = link \/ (link[c] # "none" /\ link' = [link EXCEPT ![c] = state]
                           /\ (state \in Over <=> link[c] \in Over)),
         \A d \in Client : cpc'[d] = "start" => cpc[d] = "start"
  PROVE  Placed' /\ UNCHANGED Turns!vars
<1>1. link \in [Client -> LinkStates]
  BY DEF Ranked, Held
<1>2. \A d \in Client : link'[d] \in Over <=> link[d] \in Over
  BY <1>1
<1>3. \A d \in Client : link'[d] = "none" <=> link[d] = "none"
  BY <1>1
<1> QED
  BY <1>2, <1>3, SameTurn

\* A send leaves the connection in service open.
LEMMA SameTurnSend ==
  ASSUME Ranked, NEW token, Sends(token) \/ SendFails, cur \in Client, UNCHANGED <<cur, cpc>>,
         spc # "off", spc' # "off"
  PROVE  Placed' /\ UNCHANGED Turns!vars
<1>1. queue' = queue
  BY DEF Sends, SendFails
<1>2. \/ link' = link
      \/ link[cur] \in {"fin", "doomed"} /\ link' = [link EXCEPT ![cur] = "doomed"]
      \/ link[cur] = "reset" /\ link' = [link EXCEPT ![cur] = "dead"]
  BY DEF Sends, SendFails, SetLink
<1>3. {"doomed", "dead"} \subseteq LinkStates \ {"none"}
  BY DEF LinkStates
<1> QED
  BY <1>1, <1>2, <1>3, SameTurnLink DEF Over

LEMMA InitTurn ==
  ASSUME Ranked, InitStep
  PROVE  Placed' /\ [Turns!Next]_Turns!vars
<1> USE DEF network, clients, history
<1>1. CASE ModAccept
  <2>1. queue \in Seq(Client) /\ queue # <<>>
    BY <1>1 DEF ModAccept, Ranked, ModInv, ModShape
  <2>2. /\ spc = "accept" /\ spc' = "recv" /\ cur = NoOne
        /\ cur' = Head(queue) /\ queue' = Tail(queue) /\ UNCHANGED <<link, cpc>>
    BY <1>1 DEF ModAccept, Ranked, Held
  <2>3. /\ queue' \in Seq(Client) /\ Len(queue') = Len(queue) - 1
        /\ \A i \in 1..Len(queue') : queue'[i] = queue[i + 1]
        /\ cur' = queue[1]
    BY <2>1, <2>2
  <2>4. Placed'
    BY <2>1, <2>2, <2>3 DEF Ranked, Placed
  <2>5. Gone' = Gone /\ (spc # "off") /\ (spc # "off")'
    BY <2>2 DEF Gone
  <2>6. Turns!Start
    BY <2>1, <2>2, <2>5 DEF Turns!Start, Gone, Over
  <2> QED
    BY <2>4, <2>6 DEF Turns!Next
<1>2. CASE AcceptBreaks \/ ModReceive \/ ModReceiveEnd \/ ModOpenFile \/ ModFileEnds
  <2>1. /\ queue' = queue /\ cur' = cur /\ link' = link /\ cpc' = cpc
        /\ spc # "off" /\ spc' # "off"
    BY <1>2 DEF AcceptBreaks, AcceptInterrupted, ModReceive, ModReceiveEnd, Dispatch,
                ModOpenFile, OpenFile, ModFileEnds, FileEnds
  <2> QED
    BY <2>1, SameTurn
<1>3. CASE ModReceiveFails
  <2>1. cur \in Client
    BY <1>3 DEF ModReceiveFails, ReceiveFails, Ranked, ModInv, ModShape, InSession
  <2>2. /\ queue' = queue /\ cur' = cur /\ cpc' = cpc /\ spc # "off" /\ spc' # "off"
        /\ link' = link \/ (link[cur] = "reset" /\ link' = [link EXCEPT ![cur] = "dead"])
    BY <1>3 DEF ModReceiveFails, ReceiveFails, SetLink
  <2>3. "dead" \in LinkStates \ {"none"}
    BY DEF LinkStates
  <2> QED
    BY <2>1, <2>2, <2>3, SameTurnLink DEF Over
<1>4. CASE ModSendPart \/ ModGreet \/ Echo
  <2>1. /\ cur \in Client /\ UNCHANGED <<cur, cpc>> /\ spc # "off" /\ spc' # "off"
    BY <1>4 DEF ModSendPart, SendPart, ModGreet, Greet, Echo, Ranked, ModInv, ModShape, InSession
  <2>2. \E token : Sends(token) \/ SendFails
    BY <1>4 DEF ModSendPart, SendPart, ModGreet, Greet, Echo
  <2> QED
    BY <2>1, <2>2, SameTurnSend
<1>5. CASE ModRelease
  <2>1. /\ cur \in Client /\ cur # NoOne /\ cur' = NoOne /\ queue' = queue /\ cpc' = cpc
        /\ spc # "off" /\ spc' # "off" /\ ReleaseLink(cur)
    BY <1>5, BoundAssumption DEF ModRelease, ReleaseClient, Ranked, ModInv, ModShape
  <2>2. PICK state \in Over : link' = [link EXCEPT ![cur] = state]
    BY <2>1 DEF ReleaseLink, SetLink, Over
  <2>3. link'[cur] = state /\ \A c \in Client \ {cur} : link'[c] = link[c]
    BY <2>1, <2>2 DEF Ranked, Held
  <2>4. Gone' = Gone \cup {cur}
    BY <2>1, <2>2, <2>3 DEF Gone
  <2>5. (spc # "off")' = (spc # "off")
    BY <2>1
  <2>6. Turns!Finish
    BY <2>1, <2>4, <2>5 DEF Turns!Finish, Gone, Over
  <2>7. \A i \in 1..Len(queue) : queue[i] \in Client /\ queue[i] # cur
    BY DEF Ranked, ModInv, ModShape, Placed
  <2>8. cpc[cur] # "start"
    BY <2>1 DEF Ranked, Placed
  <2>9. Placed'
    <3>1. \A i \in 1..Len(queue) : queue[i] # NoOne /\ link'[queue[i]] \notin Over \cup {"none"}
      BY <2>3, <2>7, BoundAssumption DEF Ranked, Placed
    <3>2. \A c \in Client : cpc[c] = "start" => link'[c] = "none"
      BY <2>3, <2>8 DEF Ranked, Placed
    <3> QED
      BY <2>1, <3>1, <3>2 DEF Ranked, Placed
  <2> QED
    BY <2>6, <2>9 DEF Turns!Next
<1> QED
  BY <1>1, <1>2, <1>3, <1>4, <1>5 DEF InitStep

LEMMA ConnectTurn ==
  ASSUME Ranked, NEW c \in Client, Connect(c), spc # "off"
  PROVE  Placed' /\ Turns!Arrive(c)
<1>1. /\ queue' = Append(queue, c) /\ link' = [link EXCEPT ![c] = "live"]
      /\ cpc' = [cpc EXCEPT ![c] = "prompt"] /\ UNCHANGED <<spc, cur>> /\ link[c] = "none"
  BY DEF Connect, SetLink, server, Ranked, Placed
<1>2. queue \in Seq(Client) /\ link \in [Client -> LinkStates] /\ cpc \in [Client -> ClientSteps]
  BY DEF Ranked, ModInv, ModShape, Held, ModTypes
<1>3. /\ queue' \in Seq(Client) /\ Len(queue') = Len(queue) + 1 /\ Len(queue) \in Nat
      /\ \A i \in 1..Len(queue) : queue'[i] = queue[i]
      /\ queue'[Len(queue) + 1] = c
  BY <1>1, <1>2
<1>4. c # cur /\ \A i \in 1..Len(queue) : queue[i] # c
  BY <1>1, BoundAssumption DEF Ranked, Placed
<1>5. link'[c] = "live" /\ cpc'[c] = "prompt"
      /\ \A d \in Client \ {c} : link'[d] = link[d] /\ cpc'[d] = cpc[d]
  BY <1>1, <1>2
<1>6. \A i \in 1..Len(queue) : queue[i] \in Client \ {c}
  BY <1>2, <1>4
<1>7. \A i \in 1..Len(queue') : i \in 1..Len(queue) \/ i = Len(queue) + 1
  BY <1>3
<1>8. \A i, j \in 1..Len(queue') : queue'[i] = queue'[j] => i = j
  <2>1. \A i, j \in 1..Len(queue) : queue[i] = queue[j] => i = j
    BY DEF Ranked, Placed
  <2> QED
    BY <1>3, <1>4, <1>7, <2>1
<1>9. \A i \in 1..Len(queue') : queue'[i] # cur /\ link'[queue'[i]] \notin Over \cup {"none"}
  <2>1. \A i \in 1..Len(queue) : queue[i] # cur /\ link[queue[i]] \notin Over \cup {"none"}
    BY DEF Ranked, Placed
  <2>2. "live" \notin Over \cup {"none"}
    BY DEF Over
  <2> QED
    BY <1>3, <1>4, <1>5, <1>6, <1>7, <2>1, <2>2
<1>10. cur # NoOne => link'[cur] \notin Over \cup {"none"}
  BY <1>4, <1>5 DEF Ranked, ModInv, ModShape, Placed
<1>11. \A d \in Client : cpc'[d] = "start" => link'[d] = "none"
  BY <1>5 DEF Ranked, Placed
<1>12. Placed'
  BY <1>1, <1>8, <1>9, <1>10, <1>11 DEF Placed
<1>13. Gone' = Gone /\ c \notin Gone
  BY <1>1, <1>5 DEF Gone, Over
<1>14. c \notin ToSet(queue)
  BY <1>2, <1>4 DEF ToSet
<1>15. (spc # "off") /\ (spc # "off")' = (spc # "off")
  BY <1>1
<1>16. Turns!Arrive(c)
  BY <1>1, <1>4, <1>13, <1>14, <1>15 DEF Turns!Arrive, Turns!ToSet, ToSet, Gone, Over
<1> QED
  BY <1>12, <1>16

LEMMA ClientTakesTurn ==
  ASSUME Ranked, NEW c \in Client, ModClientStep(c)
  PROVE  Placed' /\ [Turns!Next]_Turns!vars
<1> USE DEF server
<1>0. cpc \in [Client -> ClientSteps]
  BY DEF Ranked, ModTypes
<1>1. ASSUME Close(c), UNCHANGED <<spc, cur, queue>>
      PROVE  Placed' /\ UNCHANGED Turns!vars
  <2>1. PICK state \in LinkStates \ {"none"} :
          /\ link[c] # "none" /\ link' = [link EXCEPT ![c] = state]
          /\ state \in Over <=> link[c] \in Over
    BY <1>1 DEF Close, SetLink, LinkStates, Over
  <2>2. \A d \in Client : cpc'[d] = "start" => cpc[d] = "start"
    BY <1>0, <1>1 DEF Close
  <2> QED
    BY <1>1, <2>1, <2>2, SameTurnLink
<1>2. CASE RstArrives(c)
  <2>1. /\ link[c] = "doomed" /\ link' = [link EXCEPT ![c] = "dead"]
        /\ UNCHANGED <<spc, cur, queue, cpc>>
    BY <1>2 DEF RstArrives, SetLink, clients
  <2>2. "dead" \in LinkStates \ {"none"}
    BY DEF LinkStates
  <2> QED
    BY <2>1, <2>2, SameTurnLink DEF Over
<1>3. CASE Connect(c)
  <2>1. CASE spc # "off"
    BY <1>3, <2>1, ConnectTurn DEF Turns!Next
  <2>2. CASE spc = "off"
    <3>1. cpc' = [cpc EXCEPT ![c] = "done"] /\ UNCHANGED <<spc, cur, queue, link>>
      BY <1>3, <2>2 DEF Connect
    <3>2. \A d \in Client : cpc'[d] = "start" => cpc[d] = "start"
      BY <1>0, <3>1
    <3> QED
      BY <3>1, <3>2, SameTurn
  <2> QED
    BY <2>1, <2>2
<1>4. CASE TypeLine(c)
  <2>1. CASE Close(c)
    BY <1>1, <1>4, <2>1 DEF TypeLine
  <2>2. CASE /\ UNCHANGED link
             /\ cpc' \in {cpc, [cpc EXCEPT ![c] = "recvfile"], [cpc EXCEPT ![c] = "recvmsg"]}
    <3>1. \A d \in Client : cpc'[d] = "start" => cpc[d] = "start"
      BY <1>0, <2>2
    <3> QED
      BY <1>4, <2>2, <3>1, SameTurn DEF TypeLine
  <2> QED
    BY <1>4, <2>1, <2>2 DEF TypeLine
<1>5. CASE Quit(c) \/ Kill(c)
  BY <1>1, <1>5 DEF Quit, Kill
<1>6. CASE ReceiveMessage(c) \/ ReceiveFile(c)
  <2>1. /\ UNCHANGED <<spc, cur, queue, link>>
        /\ cpc' \in {cpc, [cpc EXCEPT ![c] = "prompt"]}
    BY <1>6 DEF ReceiveMessage, ReceiveFile
  <2>2. \A d \in Client : cpc'[d] = "start" => cpc[d] = "start"
    BY <1>0, <2>1
  <2> QED
    BY <2>1, <2>2, SameTurn
<1> QED
  BY <1>2, <1>3, <1>4, <1>5, <1>6 DEF ModClientStep, ClientStep

LEMMA ModTurnStep ==
  ASSUME Ranked, [ModNext]_modVars
  PROVE  Placed' /\ [Turns!Next \/ Turns!Reopen]_Turns!vars
<1> USE DEF server, network, clients
<1>1. CASE UNCHANGED modVars
  BY <1>1, SameTurn DEF modVars, vars
<1>2. CASE Load
  <2>1. spc = "off" /\ spc' = "accept" /\ UNCHANGED <<cur, queue, link, cpc>>
    BY <1>2 DEF Load
  <2>2. Gone' = Gone /\ ~(spc # "off") /\ (spc # "off")' = TRUE
    BY <2>1 DEF Gone
  <2>3. Turns!Reopen
    BY <2>1, <2>2 DEF Turns!Reopen, Gone, Over
  <2> QED
    BY <2>1, <2>3 DEF Ranked, Placed
<1>3. CASE Unload
  <2>1. /\ spc = "exit" /\ spc' = "off" /\ cur = NoOne /\ cur' = cur /\ queue' = <<>>
        /\ cpc' = cpc
    BY <1>3 DEF Unload, Exit, Ranked, Held
  <2>2. \A c \in Client : link'[c] \in Over <=> link[c] \in Over \/ c \in ToSet(queue)
    BY <1>3 DEF Unload, Exit, Over
  <2>3. ToSet(queue) \subseteq Client
    BY DEF ToSet, Ranked, ModInv, ModShape
  <2>4. Gone' = Gone \cup ToSet(queue)
    BY <2>2, <2>3 DEF Gone
  <2>5. Turns!Close
    BY <2>1, <2>4 DEF Turns!Close, Turns!ToSet, ToSet, Gone, Over
  <2>6. \A c \in ToSet(queue) : link[c] # "none"
    <3>1. DOMAIN queue = 1..Len(queue)
      BY DEF Ranked, ModInv, ModShape
    <3>2. \A i \in 1..Len(queue) : link[queue[i]] # "none"
      BY DEF Ranked, Placed
    <3> QED
      BY <3>1, <3>2 DEF ToSet
  <2>7. \A c \in Client : cpc'[c] = "start" => link'[c] = "none"
    BY <1>3, <2>1, <2>6 DEF Unload, Exit, Ranked, Placed
  <2> QED
    BY <2>1, <2>5, <2>7 DEF Turns!Next, Placed
<1>4. CASE ModInterrupt
  BY <1>4, SameTurn DEF ModInterrupt, Interrupt
<1> QED
  BY <1>1, <1>2, <1>3, <1>4, InitTurn, ClientTakesTurn DEF ModNext

\* The module serves its clients as TurnServer says, however often it is loaded and unloaded:
\* one at a time, in the order in which they came, each once, and those init did not accept any
\* more are turned away by tcp_socket_exit (chat_server_module.c:165, :237).
THEOREM ModTurnOrder == ModSpec => Turns!ReopeningSpec
<1>1. ModInit => Placed
  BY BoundAssumption DEF ModInit, Init, Placed
<1>2. ModInit => Turns!Init
  BY TurnInit DEF ModInit
<1>3. ModInv /\ ModTypes /\ Held /\ Placed /\ [ModNext]_modVars
        => Placed' /\ [Turns!Next \/ Turns!Reopen]_Turns!vars
  BY ModTurnStep DEF Ranked
<1> QED
  BY <1>1, <1>2, <1>3, ModInvariance, ModTypesInvariance, HeldInvariance, PTL
     DEF ModSpec, Turns!ReopeningSpec

-----------------------------------------------------------------------------
(* What is echoed *)

\* The elements of s are found, in this order, among the first n of t.
Embeds(s, t, n) ==
  /\ n \in 0..Len(t)
  /\ \E place \in [1..Len(s) -> 1..n] :
       /\ \A i, j \in 1..Len(s) : i < j => place[i] < place[j]
       /\ \A i \in 1..Len(s) : s[i] = t[place[i]]

\* How much of what a client has said was received, and how much of that is about to be
\* sent back.
Taken(c) == Len(said[c]) - Len(c2s[c])
Pending(c) == IF c = cur /\ spc = "echo" THEN bytes_received ELSE 0

\* The stream holds the end of what the client has said; what was echoed is made of what
\* came before that, but for the cells in the buffer that are about to be.
Own ==
  \A c \in Client :
    /\ Len(c2s[c]) <= Len(said[c])
    /\ \A i \in 1..Len(c2s[c]) : c2s[c][i] = said[c][Taken(c) + i]
    /\ Embeds(echoed[c], said[c], Taken(c) - Pending(c))
    /\ c = cur /\ spc = "echo" =>
         \A i \in 1..bytes_received : buffer[i] = said[c][Taken(c) - bytes_received + i]

LEMMA EmbedsEmpty ==
  ASSUME NEW S, NEW s \in Seq(S), Len(s) = 0, NEW T, NEW t \in Seq(T)
  PROVE  Embeds(s, t, 0)
<1>1. 1..Len(s) = {} /\ 0 \in 0..Len(t)
  OBVIOUS
<1> DEFINE place == [i \in 1..Len(s) |-> i]
<1>2. place \in [1..Len(s) -> 1..0]
  BY <1>1
<1> HIDE DEF place
<1> QED
  BY <1>1, <1>2 DEF Embeds

\* The place in the first n stays good when there are more of them, and when t goes on.
LEMMA EmbedsMore ==
  ASSUME NEW S, NEW s \in Seq(S), NEW T, NEW t \in Seq(T), NEW l \in Seq(T),
         NEW n, NEW m, Embeds(s, t, n), n <= m, m \in 0..Len(t \o l)
  PROVE  Embeds(s, t \o l, m)
<1>1. n \in 0..Len(t) /\ Len(t \o l) = Len(t) + Len(l)
  BY DEF Embeds
<1>2. PICK place \in [1..Len(s) -> 1..n] :
         /\ \A i, j \in 1..Len(s) : i < j => place[i] < place[j]
         /\ \A i \in 1..Len(s) : s[i] = t[place[i]]
  BY DEF Embeds
<1>3. \A k \in 1..n : k \in 1..Len(t) /\ k \in 1..m /\ (t \o l)[k] = t[k]
  BY <1>1
<1>4. \A i \in 1..Len(s) : place[i] \in 1..m /\ s[i] = (t \o l)[place[i]]
  BY <1>2, <1>3
<1>5. place \in [1..Len(s) -> 1..m]
  BY <1>2, <1>4
<1> QED
  BY <1>2, <1>4, <1>5 DEF Embeds

\* What comes next in t is appended to s.
LEMMA EmbedsNext ==
  ASSUME NEW S, NEW s \in Seq(S), NEW d \in Seq(S), NEW T, NEW t \in Seq(T),
         NEW n, Embeds(s, t, n), n + Len(d) <= Len(t),
         \A i \in 1..Len(d) : d[i] = t[n + i]
  PROVE  Embeds(s \o d, t, n + Len(d))
<1>1. n \in 0..Len(t) /\ Len(s) \in Nat /\ Len(d) \in Nat
  BY DEF Embeds
<1>2. PICK place \in [1..Len(s) -> 1..n] :
         /\ \A i, j \in 1..Len(s) : i < j => place[i] < place[j]
         /\ \A i \in 1..Len(s) : s[i] = t[place[i]]
  BY DEF Embeds
<1> DEFINE r == s \o d
           next == [i \in 1..Len(r) |-> IF i <= Len(s) THEN place[i] ELSE n + i - Len(s)]
<1>3. /\ Len(r) = Len(s) + Len(d)
      /\ \A i \in 1..Len(s) : r[i] = s[i]
      /\ \A i \in 1..Len(r) : i > Len(s) => r[i] = d[i - Len(s)]
  OBVIOUS
<1> HIDE DEF r
<1>4. \A i \in 1..Len(s) : place[i] \in 1..n
  BY <1>2
<1>5. next \in [1..Len(r) -> 1..n + Len(d)]
  BY <1>1, <1>3, <1>4
<1>6. \A i \in 1..Len(r) :
        /\ i <= Len(s) => next[i] = place[i] /\ next[i] <= n
        /\ i > Len(s) => next[i] = n + i - Len(s) /\ next[i] > n
  BY <1>1, <1>3, <1>4
<1> HIDE DEF next
<1>7. ASSUME NEW i \in 1..Len(r), NEW j \in 1..Len(r), i < j
      PROVE  next[i] < next[j]
  <2>1. CASE j <= Len(s)
    BY <1>1, <1>2, <1>3, <1>6, <1>7, <2>1
  <2>2. CASE i <= Len(s) /\ j > Len(s)
    BY <1>1, <1>3, <1>4, <1>6, <1>7, <2>2
  <2>3. CASE i > Len(s)
    <3>1. i \in Nat /\ j \in Nat /\ j > Len(s)
      BY <1>1, <1>3, <1>7, <2>3
    <3>2. next[i] = n + i - Len(s) /\ next[j] = n + j - Len(s)
      BY <1>6, <2>3, <3>1
    <3> QED
      BY <1>1, <1>7, <3>1, <3>2
  <2> QED
    BY <1>1, <2>1, <2>2, <2>3
<1>8. ASSUME NEW i \in 1..Len(r)
      PROVE  r[i] = t[next[i]]
  <2>1. CASE i <= Len(s)
    BY <1>2, <1>3, <1>6, <2>1
  <2>2. CASE i > Len(s)
    <3>1. i \in Nat /\ i <= Len(s) + Len(d)
      BY <1>1, <1>3
    <3>2. i - Len(s) \in 1..Len(d) /\ n + i - Len(s) = n + (i - Len(s))
      BY <1>1, <2>2, <3>1
    <3>3. next[i] = n + i - Len(s) /\ r[i] = d[i - Len(s)]
      BY <1>3, <1>6, <2>2
    <3> QED
      BY <3>2, <3>3
  <2> QED
    BY <1>1, <2>1, <2>2
<1>9. n + Len(d) \in 0..Len(t)
  BY <1>1
<1> QED
  BY <1>5, <1>7, <1>8, <1>9 DEF Embeds, r

LEMMA EmbedsSub ==
  ASSUME NEW S, NEW s \in Seq(S), NEW T, NEW t \in Seq(T), NEW n, Embeds(s, t, n)
  PROVE  IsSubsequence(s, t)
<1>1. n \in 0..Len(t)
  BY DEF Embeds
<1>2. PICK place \in [1..Len(s) -> 1..n] :
         /\ \A i, j \in 1..Len(s) : i < j => place[i] < place[j]
         /\ \A i \in 1..Len(s) : s[i] = t[place[i]]
  BY DEF Embeds
<1>3. place \in [1..Len(s) -> 1..Len(t)]
  BY <1>1, <1>2
<1> QED
  BY <1>2, <1>3 DEF IsSubsequence

LEMMA EmbedsGrow ==
  ASSUME NEW S, NEW s \in Seq(S), NEW T, NEW t \in Seq(T),
         NEW n, NEW m, Embeds(s, t, n), n <= m, m \in 0..Len(t)
  PROVE  Embeds(s, t, m)
<1>1. <<>> \in Seq(T) /\ t \o <<>> = t
  OBVIOUS
<1> QED
  BY <1>1, EmbedsMore

LEMMA OwnSequences ==
  ASSUME ModTypes, NEW c \in Client
  PROVE  /\ said[c] \in Seq(Cell \ {NUL}) /\ echoed[c] \in Seq(Cell)
         /\ c2s[c] \in Seq(Cell \ {NUL})
BY DEF ModTypes, Streams

LEMMA OwnNumbers ==
  ASSUME ModTypes, Own, NEW c \in Client
  PROVE  /\ Len(said[c]) \in Nat /\ Len(c2s[c]) \in Nat /\ bytes_received \in Nat
         /\ Taken(c) \in 0..Len(said[c]) /\ Taken(c) = Len(said[c]) - Len(c2s[c])
         /\ Pending(c) \in 0..Taken(c) /\ Taken(c) - Pending(c) \in Nat
<1> DEFINE all == Len(said[c])
           left == Len(c2s[c])
           pending == Pending(c)
<1>1. all \in Nat /\ left \in Nat
  BY OwnSequences, LenProperties
<1>2. bytes_received \in Nat
  <2>1. BufLen \in Nat /\ bytes_received \in 0..BufLen
    BY DataAssumption DEF ModTypes
  <2> QED
    BY <2>1
<1>3. left <= all /\ Taken(c) = all - left /\ Taken(c) - pending \in 0..all
  BY DEF Own, Embeds, Taken
<1>4. pending \in Nat
  BY <1>2 DEF Pending
<1> HIDE DEF all, left, pending
<1>5. Taken(c) \in 0..all /\ pending \in 0..Taken(c) /\ Taken(c) - pending \in Nat
  BY <1>1, <1>3, <1>4
<1> QED
  BY <1>1, <1>2, <1>3, <1>5 DEF all, left, pending

\* A step that receives nothing and sends nothing back; what is left of a stream is lost when
\* the connection is released.
LEMMA OwnFrame ==
  ASSUME ModTypes, Own, UNCHANGED <<said, echoed>>, spc' = "echo" => bytes_received' = 0,
         \A c \in Client : c2s'[c] = c2s[c] \/ c2s'[c] = <<>>
  PROVE  Own'
<1> SUFFICES ASSUME NEW c \in Client
             PROVE  /\ Len(c2s'[c]) <= Len(said[c])
                    /\ \A i \in 1..Len(c2s'[c]) : c2s'[c][i] = said[c][Taken(c)' + i]
                    /\ Embeds(echoed[c], said[c], Taken(c)' - Pending(c)')
  <2>1. spc' = "echo" => 1..bytes_received' = {}
    OBVIOUS
  <2> QED
    BY <2>1 DEF Own
<1> DEFINE taken == Len(said[c]) - Len(c2s'[c])
<1>1. Pending(c)' = 0 /\ Taken(c)' = taken
  BY DEF Pending, Taken
<1>2. /\ Len(c2s'[c]) <= Len(said[c]) /\ taken \in 0..Len(said[c]) /\ Taken(c) <= taken
      /\ \A i \in 1..Len(c2s'[c]) : c2s'[c][i] = said[c][taken + i]
  <2>1. CASE c2s'[c] = c2s[c]
    <3>1. Len(c2s[c]) <= Len(said[c]) /\ taken = Taken(c)
      BY <2>1 DEF Own, Taken
    <3>2. \A i \in 1..Len(c2s[c]) : c2s[c][i] = said[c][Taken(c) + i]
      BY DEF Own
    <3>3. Taken(c) \in 0..Len(said[c]) /\ Len(said[c]) \in Nat
      BY OwnNumbers
    <3> HIDE DEF taken
    <3> QED
      BY <2>1, <3>1, <3>2, <3>3
  <2>2. CASE c2s'[c] = <<>>
    <3>1. Len(c2s'[c]) = 0 /\ Len(said[c]) \in Nat /\ Taken(c) \in 0..Len(said[c])
      BY <2>2, OwnNumbers, EmptySeq
    <3> QED
      BY <3>1
  <2> QED
    BY <2>1, <2>2
<1> HIDE DEF taken
<1>3. Embeds(echoed[c], said[c], Taken(c) - Pending(c))
  BY DEF Own
<1>4. Taken(c) - Pending(c) <= taken /\ taken - 0 = taken
  <2> DEFINE all == Len(said[c])
             pending == Pending(c)
  <2>1. /\ all \in Nat /\ taken \in 0..all /\ Taken(c) \in 0..all /\ Taken(c) <= taken
        /\ pending \in 0..Taken(c)
    BY <1>2, OwnNumbers
  <2> HIDE DEF all, pending
  <2>2. Taken(c) - pending <= taken /\ taken - 0 = taken
    BY <2>1
  <2> QED
    BY <2>2 DEF pending
<1>5. Embeds(echoed[c], said[c], taken)
  BY <1>2, <1>3, <1>4, OwnSequences, EmbedsGrow
<1> QED
  BY <1>1, <1>2, <1>4, <1>5

LEMMA OwnReceive ==
  ASSUME ModInv, ModTypes, Own, ModReceive
  PROVE  Own'
<1>1. cur \in Client /\ spc = "recv" /\ UNCHANGED <<cur, said, echoed>>
  BY DEF ModReceive, ModInv, ModShape, InSession, history
<1>2. PICK n \in 1..Len(c2s[cur]) :
        /\ n <= BufLen
        /\ buffer' = Overwrite(buffer, SubSeq(c2s[cur], 1, n))
        /\ c2s' = [c2s EXCEPT ![cur] = SubSeq(@, n + 1, Len(@))]
        /\ Dispatch(buffer', n)
  BY DEF ModReceive
<1>3. \A i \in 1..n : buffer'[i] = c2s[cur][i]
  BY <1>1, <1>2, ReceiveTypes DEF ModTypes
<1>4. bytes_received' = n
  BY <1>2 DEF Dispatch
<1> SUFFICES ASSUME NEW c \in Client
             PROVE  /\ Len(c2s'[c]) <= Len(said[c])
                    /\ \A i \in 1..Len(c2s'[c]) : c2s'[c][i] = said[c][Taken(c)' + i]
                    /\ Embeds(echoed[c], said[c], Taken(c)' - Pending(c)')
                    /\ c = cur /\ spc' = "echo" =>
                         \A i \in 1..n : buffer'[i] = said[c][Taken(c)' - n + i]
  BY <1>1, <1>4 DEF Own
<1> DEFINE taken == Len(said[c]) - Len(c2s'[c])
<1>5. /\ Pending(c) = 0 /\ Taken(c)' = taken
      /\ Pending(c)' = IF c = cur /\ spc' = "echo" THEN n ELSE 0
  BY <1>1, <1>4 DEF Pending, Taken
<1>6. Embeds(echoed[c], said[c], Taken(c))
  <2>1. Embeds(echoed[c], said[c], Taken(c) - Pending(c))
    BY DEF Own
  <2>2. Taken(c) - 0 = Taken(c)
    <3>1. \A k \in Nat : \A m \in 0..k : m - 0 = m
      OBVIOUS
    <3> QED
      BY <3>1, OwnNumbers
  <2> QED
    BY <1>5, <2>1, <2>2
<1>7. /\ Len(c2s[c]) <= Len(said[c])
      /\ \A i \in 1..Len(c2s[c]) : c2s[c][i] = said[c][Taken(c) + i]
  BY DEF Own
<1>8. CASE c # cur
  <2>1. c2s'[c] = c2s[c] /\ Pending(c)' = 0
    BY <1>2, <1>5, <1>8 DEF ModTypes, Streams
  <2>2. taken = Taken(c) /\ taken - 0 = taken
    BY <2>1, OwnNumbers DEF Taken
  <2> QED
    BY <1>5, <1>6, <1>7, <1>8, <2>1, <2>2
<1>9. CASE c = cur
  <2>1. /\ Len(c2s'[c]) = Len(c2s[c]) - n /\ n \in 1..Len(c2s[c])
        /\ \A i \in 1..Len(c2s'[c]) : c2s'[c][i] = c2s[c][n + i]
    <3>1. c2s'[c] = SubSeq(c2s[c], n + 1, Len(c2s[c])) /\ n \in 1..Len(c2s[c])
      BY <1>2, <1>9 DEF ModTypes, Streams
    <3>2. c2s[c] \in Seq(Cell \ {NUL})
      BY OwnSequences
    <3> QED
      BY <3>1, <3>2
  <2>2. /\ taken = Taken(c) + n /\ taken \in 0..Len(said[c]) /\ Len(c2s'[c]) <= Len(said[c])
        /\ Len(said[c]) \in Nat /\ Len(c2s[c]) \in Nat /\ Taken(c) \in Nat
    <3> DEFINE all == Len(said[c])
               left == Len(c2s[c])
               rest == Len(c2s'[c])
    <3>1. /\ all \in Nat /\ left \in Nat /\ Taken(c) = all - left /\ left <= all
          /\ n \in 1..left /\ rest = left - n /\ taken = all - rest
      BY <1>7, <2>1, OwnNumbers
    <3> HIDE DEF all, left, rest, taken
    <3>2. /\ taken = Taken(c) + n /\ taken \in 0..all /\ rest <= all /\ Taken(c) \in Nat
      BY <3>1
    <3> QED
      BY <3>1, <3>2 DEF all, left, rest
  <2> HIDE DEF taken
  <2>3. ASSUME NEW i \in 1..Len(c2s'[c]) PROVE c2s'[c][i] = said[c][taken + i]
    <3>1. n + i \in 1..Len(c2s[c]) /\ Taken(c) + (n + i) = taken + i
      BY <2>1, <2>2
    <3> QED
      BY <1>7, <2>1, <3>1
  <2>4. ASSUME NEW i \in 1..n PROVE buffer'[i] = said[c][taken - n + i]
    <3>1. i \in 1..Len(c2s[c]) /\ taken - n + i = Taken(c) + i
      BY <2>1, <2>2
    <3> QED
      BY <1>3, <1>7, <1>9, <3>1
  <2>5. Taken(c) <= taken - Pending(c)' /\ taken - Pending(c)' \in 0..Len(said[c])
    <3>1. Pending(c)' \in {0, n}
      BY <1>5
    <3> QED
      BY <2>1, <2>2, <3>1
  <2>6. Embeds(echoed[c], said[c], taken - Pending(c)')
    BY <1>6, <2>5, OwnSequences, EmbedsGrow
  <2> QED
    BY <1>5, <2>2, <2>3, <2>4, <2>6
<1> QED
  BY <1>8, <1>9

LEMMA OwnEcho ==
  ASSUME ModInv, ModTypes, Own, Echo
  PROVE  Own'
<1>1. cur \in Client /\ spc = "echo" /\ UNCHANGED <<cur, said, c2s>> /\ spc' # "echo"
  BY DEF Echo, Sends, SendFails, ModInv, ModShape, InSession
<1>2. CASE UNCHANGED echoed
  BY <1>1, <1>2, OwnFrame
<1> DEFINE n == bytes_received
           t == said[cur]
           d == Modified(SubSeq(buffer, 1, n))
           from == Taken(cur) - n
<1>3. CASE echoed' = [echoed EXCEPT ![cur] = @ \o d]
  <2>1. Pending(cur) = n /\ \A c \in Client : Pending(c)' = 0 /\ Taken(c)' = Taken(c)
    BY <1>1 DEF Pending, Taken
  <2>2. n \in 0..BufLen /\ buffer \in [1..BufLen -> Cell]
    BY DEF ModTypes
  <2>3. /\ Embeds(echoed[cur], t, from)
        /\ \A i \in 1..n : buffer[i] = t[from + i]
    BY <1>1, <2>1 DEF Own
  <2>4. /\ n \in Nat /\ Taken(cur) \in Nat /\ n <= Taken(cur) /\ Taken(cur) <= Len(t)
        /\ Len(t) \in Nat
    <3> DEFINE all == Len(t)
    <3>1. n \in Nat /\ all \in Nat /\ Taken(cur) \in 0..all /\ n \in 0..Taken(cur)
      BY <1>1, <2>1, OwnNumbers
    <3> HIDE DEF all, n
    <3>2. Taken(cur) \in Nat /\ n <= Taken(cur) /\ Taken(cur) <= all
      BY <3>1
    <3> QED
      BY <3>1, <3>2 DEF all
  <2> HIDE DEF n
  <2>5. \A i \in 1..n : from + i \in 1..Len(t)
    <3> DEFINE all == Len(t)
    <3>1. all \in Nat /\ Taken(cur) <= all
      BY <2>4
    <3> HIDE DEF all
    <3>2. \A i \in 1..n : from + i \in 1..all
      BY <2>4, <3>1
    <3> QED
      BY <3>2 DEF all
  <2> HIDE DEF from
  <2>6. \A i \in 1..n : buffer[i] # NUL
    <3>1. t \in Seq(Cell \ {NUL})
      BY <1>1, OwnSequences
    <3>2. \A k \in 1..Len(t) : t[k] \in Cell \ {NUL}
      BY <3>1, ElementOfSeq
    <3> QED
      BY <2>3, <2>5, <3>2
  <2>7. d \in Seq(Cell) /\ Len(d) = n /\ \A i \in 1..n : d[i] = buffer[i]
    BY <2>2, <2>6, ModifiedType
  <2>8. from + n = Taken(cur)
    BY <2>4 DEF from
  <2> HIDE DEF d
  <2>9. Embeds(echoed[cur] \o d, t, Taken(cur))
    <3>1. t \in Seq(Cell \ {NUL}) /\ echoed[cur] \in Seq(Cell)
      BY <1>1, OwnSequences
    <3>2. from + Len(d) = Taken(cur) /\ Taken(cur) <= Len(t)
      BY <2>4, <2>7, <2>8
    <3>3. \A i \in 1..Len(d) : d[i] = t[from + i]
      BY <2>3, <2>7
    <3>4. Embeds(echoed[cur] \o d, t, from + Len(d))
      BY <2>3, <2>7, <3>1, <3>2, <3>3, EmbedsNext
    <3> QED
      BY <3>2, <3>4
  <2>10. ASSUME NEW c \in Client PROVE Embeds(echoed'[c], said[c], Taken(c) - 0)
    <3>1. Taken(c) - 0 = Taken(c)
      <4>1. \A k \in Nat : \A m \in 0..k : m - 0 = m
        OBVIOUS
      <4> QED
        BY <4>1, OwnNumbers
    <3>2. CASE c = cur
      <4>1. echoed'[cur] = echoed[cur] \o d
        BY <1>1, <1>3 DEF ModTypes, d, n
      <4> QED
        BY <2>9, <3>1, <3>2, <4>1
    <3>3. CASE c # cur
      <4>1. echoed'[c] = echoed[c] /\ Pending(c) = 0
        BY <1>3, <3>3 DEF ModTypes, Pending
      <4> QED
        BY <4>1 DEF Own
    <3> QED
      BY <3>2, <3>3
  <2> QED
    BY <1>1, <2>1, <2>10 DEF Own
<1> QED
  BY <1>2, <1>3 DEF Echo

LEMMA OwnClient ==
  ASSUME ModInv, ModTypes, Own, NEW c \in Client, ModClientStep(c)
  PROVE  Own'
<1>1. UNCHANGED <<spc, cur, buffer, bytes_received, echoed>>
  BY DEF ModClientStep, ClientStep, RstArrives, Connect, TypeLine, Quit, Kill, ReceiveMessage,
     ReceiveFile, server
<1>2. PICK line \in Seq(Cell \ {NUL}) :
        /\ c2s' = [c2s EXCEPT ![c] = @ \o line]
        /\ said' = [said EXCEPT ![c] = @ \o line]
  BY ClientSays
<1>3. \A d \in Client \ {c} : /\ c2s'[d] = c2s[d] /\ said'[d] = said[d]
                              /\ Taken(d)' = Taken(d) /\ Pending(d)' = Pending(d)
  BY <1>1, <1>2 DEF ModTypes, Streams, Taken, Pending
<1> DEFINE q == c2s[c]
           t == said[c]
<1>4. c2s'[c] = q \o line /\ said'[c] = t \o line
  BY <1>2 DEF ModTypes, Streams
<1>5. q \in Seq(Cell \ {NUL}) /\ t \in Seq(Cell \ {NUL})
  BY OwnSequences
<1>6. /\ Len(q \o line) = Len(q) + Len(line) /\ Len(t \o line) = Len(t) + Len(line)
      /\ \A i \in 1..Len(q \o line) :
           (q \o line)[i] = IF i <= Len(q) THEN q[i] ELSE line[i - Len(q)]
      /\ \A i \in 1..Len(t \o line) :
           (t \o line)[i] = IF i <= Len(t) THEN t[i] ELSE line[i - Len(t)]
  BY <1>5
<1>7. /\ Len(q) \in Nat /\ Len(t) \in Nat /\ Len(line) \in Nat /\ Len(q) <= Len(t)
      /\ Taken(c) = Len(t) - Len(q) /\ Pending(c) \in 0..Taken(c)
      /\ \A i \in 1..Len(q) : q[i] = t[Taken(c) + i]
  BY OwnNumbers, LenProperties DEF Own
<1> HIDE DEF q, t
<1>8. /\ Len(q \o line) <= Len(t \o line)
      /\ Len(t \o line) - Len(q \o line) = Taken(c)
      /\ \A i \in 1..Len(q \o line) : (q \o line)[i] = (t \o line)[Taken(c) + i]
      /\ \A i \in 1..Taken(c) : (t \o line)[i] = t[i]
      /\ Taken(c) - Pending(c) \in 0..Len(t \o line)
      /\ Taken(c) - Pending(c) <= Taken(c) - Pending(c)
  <2> DEFINE a == Len(q)
             b == Len(t)
             k == Len(line)
             all == Len(q \o line)
             sum == Len(t \o line)
             pending == Pending(c)
  <2>1. /\ a \in Nat /\ b \in Nat /\ k \in Nat /\ a <= b /\ Taken(c) = b - a
        /\ all = a + k /\ sum = b + k /\ pending \in 0..Taken(c)
    BY <1>6, <1>7
  <2> HIDE DEF a, b, k, all, sum, pending
  <2>2. /\ all <= sum /\ sum - all = Taken(c) /\ Taken(c) \in 0..b
        /\ Taken(c) - pending \in 0..sum /\ Taken(c) - pending <= Taken(c) - pending
    BY <2>1
  <2>3. ASSUME NEW i \in 1..all PROVE (q \o line)[i] = (t \o line)[Taken(c) + i]
    <3>1. Taken(c) + i \in 1..sum /\ (i <= a <=> Taken(c) + i <= b)
          /\ (i > a => (Taken(c) + i) - b = i - a)
      BY <2>1
    <3>2. (q \o line)[i] = IF i <= a THEN q[i] ELSE line[i - a]
      BY <1>6 DEF a, all
    <3>3. (t \o line)[Taken(c) + i] = IF Taken(c) + i <= b THEN t[Taken(c) + i]
                                      ELSE line[(Taken(c) + i) - b]
      BY <1>6, <3>1 DEF b, sum
    <3>4. CASE i <= a
      <4>1. i \in 1..a
        BY <2>1, <3>4
      <4> QED
        BY <1>7, <3>1, <3>2, <3>3, <3>4, <4>1 DEF a
    <3>5. CASE ~(i <= a)
      <4>1. i > a
        BY <2>1, <3>5
      <4> QED
        BY <3>1, <3>2, <3>3, <3>5, <4>1
    <3> QED
      BY <3>4, <3>5
  <2>4. ASSUME NEW i \in 1..Taken(c) PROVE (t \o line)[i] = t[i]
    <3>1. i \in 1..sum /\ i <= b
      BY <2>1
    <3> QED
      BY <1>6, <3>1 DEF b, sum
  <2> QED
    BY <2>2, <2>3, <2>4 DEF all, sum, pending
<1>9. Taken(c)' = Taken(c) /\ Pending(c)' = Pending(c)
  BY <1>1, <1>4, <1>8 DEF Taken, Pending
<1>10. Embeds(echoed[c], t \o line, Taken(c) - Pending(c))
  <2>1. Embeds(echoed[c], t, Taken(c) - Pending(c)) /\ echoed[c] \in Seq(Cell)
    BY OwnSequences DEF Own, t
  <2> QED
    BY <1>5, <1>8, <2>1, EmbedsMore DEF t
<1>11. c = cur /\ spc = "echo" =>
         \A i \in 1..bytes_received : buffer[i] = (t \o line)[Taken(c) - bytes_received + i]
  <2> SUFFICES ASSUME c = cur, spc = "echo", NEW i \in 1..bytes_received
               PROVE  buffer[i] = (t \o line)[Taken(c) - bytes_received + i]
    OBVIOUS
  <2>1. Pending(c) = bytes_received /\ bytes_received \in Nat /\ Taken(c) \in Nat
    <3>1. \A k \in Nat : \A m \in 0..k : m \in Nat
      OBVIOUS
    <3> QED
      BY <3>1, OwnNumbers DEF Pending
  <2>2. bytes_received <= Taken(c)
    BY <1>7, <2>1
  <2>3. Taken(c) - bytes_received + i \in 1..Taken(c)
    BY <2>1, <2>2
  <2>4. buffer[i] = t[Taken(c) - bytes_received + i]
    BY DEF Own, t
  <2> QED
    BY <1>8, <2>3, <2>4
<1> SUFFICES ASSUME NEW d \in Client
             PROVE  /\ Len(c2s'[d]) <= Len(said'[d])
                    /\ \A i \in 1..Len(c2s'[d]) : c2s'[d][i] = said'[d][Taken(d)' + i]
                    /\ Embeds(echoed[d], said'[d], Taken(d)' - Pending(d)')
                    /\ d = cur /\ spc = "echo" =>
                         \A i \in 1..bytes_received :
                           buffer[i] = said'[d][Taken(d)' - bytes_received + i]
  BY <1>1 DEF Own
<1>12. CASE d = c
  BY <1>4, <1>8, <1>9, <1>10, <1>11, <1>12
<1>13. CASE d # c
  BY <1>3, <1>13 DEF Own
<1> QED
  BY <1>12, <1>13

LEMMA OwnStep ==
  ASSUME ModInv, ModTypes, Own, [ModNext]_modVars
  PROVE  Own'
<1> USE DEF history, network
<1>1. CASE UNCHANGED modVars
  BY <1>1 DEF modVars, vars, Own, Taken, Pending
<1>2. CASE \/ Load \/ Unload \/ ModAccept \/ AcceptBreaks \/ ModReceiveFails \/ ModReceiveEnd
           \/ ModOpenFile \/ ModFileEnds
  <2>1. /\ UNCHANGED <<said, echoed, c2s>>
        /\ spc' = "echo" => bytes_received' = 0
    BY <1>2 DEF Load, Unload, Exit, ModAccept, AcceptBreaks, AcceptInterrupted, ModReceiveFails,
       ReceiveFails, ModReceiveEnd, Dispatch, ModOpenFile, OpenFile, ModFileEnds, FileEnds
  <2> QED
    BY <2>1, OwnFrame
<1>3. CASE ModSendPart \/ ModGreet
  <2>1. UNCHANGED <<said, echoed, c2s>> /\ spc' # "echo"
    BY <1>3 DEF ModSendPart, SendPart, ModGreet, Greet, Sends, SendFails
  <2> QED
    BY <2>1, OwnFrame
<1>4. CASE ModRelease
  <2>1. /\ UNCHANGED <<said, echoed>> /\ spc' # "echo"
        /\ \A c \in Client : c2s'[c] = c2s[c] \/ c2s'[c] = <<>>
    BY <1>4 DEF ModRelease, ReleaseClient, ReleaseLink, ModTypes, Streams
  <2> QED
    BY <2>1, OwnFrame
<1>5. CASE ModInterrupt
  BY <1>5 DEF ModInterrupt, Interrupt, server, Own, Taken, Pending
<1> QED
  BY <1>1, <1>2, <1>3, <1>4, <1>5, OwnReceive, OwnEcho, OwnClient DEF ModNext, InitStep

LEMMA OwnInit == ModInit => Own
<1> SUFFICES ASSUME ModInit, NEW c \in Client
             PROVE  /\ Len(c2s[c]) <= Len(said[c])
                    /\ \A i \in 1..Len(c2s[c]) : c2s[c][i] = said[c][Taken(c) + i]
                    /\ Embeds(echoed[c], said[c], Taken(c) - Pending(c))
                    /\ spc # "echo"
  BY DEF Own, ModInit, Init
<1>1. said[c] = <<>> /\ echoed[c] = <<>> /\ c2s[c] = <<>> /\ spc # "echo"
  BY DEF ModInit, Init
<1>2. <<>> \in Seq(Cell) /\ Len(<<>>) = 0
  BY EmptySeq
<1>3. Taken(c) - Pending(c) = 0
  BY <1>1, <1>2 DEF Taken, Pending
<1>4. Embeds(<<>>, <<>>, 0)
  BY <1>2, EmbedsEmpty
<1>5. 0 <= 0 /\ 1..0 = {}
  OBVIOUS
<1> QED
  BY <1>1, <1>2, <1>3, <1>4, <1>5

\* EchoesOwn: what is echoed to a client is made of what it sent itself, in order and nothing
\* twice, although the buffer is never cleared, the stream is cut anywhere and the end of the
\* stream is taken for a message (chat_server_module.c:175, :214, :216).
THEOREM EchoOwn == ModSpec => []EchoesOwn
<1>1. ModInv /\ ModTypes /\ Own /\ [ModNext]_modVars => Own'
  BY OwnStep
<1>2. ModTypes /\ Own => EchoesOwn
  BY OwnSequences, EmbedsSub DEF Own, EchoesOwn
<1> QED
  BY <1>1, <1>2, OwnInit, ModInvariance, ModTypesInvariance, PTL DEF ModSpec

===============================================================================
