-------------------------- MODULE KernelClientProofs --------------------------
(***************************************************************************)
(* Proofs about KernelClient, for any sizes of the buffers and any lengths *)
(* of the stream: where the parts of the stream end up in the copy, and    *)
(* that success means that all of it was received and, when every write    *)
(* was complete, written.                                                  *)
(***************************************************************************)
EXTENDS KernelClient, TLAPS

\* The socket is open from connect to release, and the server's end is there.
Held ==
  /\ socket <=> pc \in InInit
  /\ conn = "none" <=> pc \notin InInit

\* Nothing is read before the answer.
Before ==
  /\ pc = "send" => read = 0
  /\ pc \in {"send", "recv"} => read = 0 /\ answer = 0
  /\ pc = "open" => read = answer

\* Bytes received after the answer.
Total == read - answer

\* All of them were written.
AllStored == \A n \in Nat : answer + n < read => Stored(n)

\* As long as every write is complete, each part is at twice its place.
Doubled == whole => \A k \in 1..Len(file) : file[k].at = 2 * file[k].from

\* The first part begins the stream.
FirstPart == file # <<>> => file[1].from = 0

\* While the file is written, offset is past everything written.
Ahead ==
  pc = "file" =>
    /\ Total <= offset
    /\ whole => offset = 2 * Total
    /\ whole => AllStored
    /\ file = <<>> => Total = 0
    /\ \A k \in 1..Len(file) : /\ file[k].at + file[k].len <= offset
                               /\ file[k].from + file[k].size <= Total

\* A download that has ended well has reached the end of the stream.
Ended ==
  (pc = "release" /\ ~failed) => read = sent /\ conn = "fin" /\ (whole => AllStored)

InFile == Doubled /\ FirstPart /\ InOrder

IInv == TypeOK /\ Held /\ Before /\ Ahead /\ Ended /\ InFile /\ LoadedComplete

USE KernelClientAssumption

\* An empty file is in order.
LEMMA EmptyFile ==
  ASSUME NEW f, f = <<>>
  PROVE  f \in Seq(Parts) /\ Len(f) = 0 /\ 1..Len(f) = {}
OBVIOUS

LEMMA InitIInv == Init => IInv
<1> SUFFICES ASSUME Init PROVE IInv
  OBVIOUS
<1>1. 1..Len(file) = {}
  BY EmptyFile DEF Init
<1>2. TypeOK
  <2>1. file \in Seq(Parts)
    BY EmptyFile DEF Init
  <2>2. answer <= AnswerLen /\ answer <= read /\ read <= sent
    BY DEF Init
  <2> QED
    BY <2>1, <2>2 DEF Init, TypeOK, InInit
<1>3. InFile
  BY <1>1 DEF Init, InFile, Doubled, FirstPart, InOrder
<1> QED
  BY <1>2, <1>3 DEF Init, IInv, Held, Before, Ahead, Ended, LoadedComplete, InInit

\* Whatever a step does not touch stays true of the file.
FileAlone == UNCHANGED <<file, whole>>

LEMMA FileFrame ==
  ASSUME InFile, FileAlone
  PROVE  InFile' /\ \A n \in Nat : Stored(n)' = Stored(n)
BY DEF InFile, Doubled, FirstPart, InOrder, FileAlone, Stored

\* One more part keeps the file in order.
LEMMA PartStep ==
  ASSUME IInv, ReceivePart
  PROVE  TypeOK' /\ Ahead' /\ InFile'
<1>0. PICK n \in 1..PartLen : \E w \in 0..n :
        /\ read + n <= sent
        /\ read' = read + n
        /\ file' = Append(file, Part(n, w))
        /\ offset' = offset + w + n
        /\ whole' = (whole /\ w = n)
  BY DEF ReceivePart, RecvOf
<1>1. PICK w \in 0..n :
        /\ read + n <= sent
        /\ read' = read + n
        /\ file' = Append(file, Part(n, w))
        /\ offset' = offset + w + n
        /\ whole' = (whole /\ w = n)
  BY <1>0
<1>2. /\ pc = "file" /\ pc' = "file"
      /\ UNCHANGED <<failed, socket, signal, conn, sent, answer>>
  BY DEF ReceivePart
<1>3. /\ file \in Seq(Parts) /\ read \in Nat /\ answer \in Nat /\ offset \in Nat
      /\ sent \in Nat /\ answer <= read /\ n \in Nat /\ w \in Nat /\ w <= n
      /\ n >= 1 /\ n <= PartLen
      /\ Total = read - answer /\ Total \in Nat /\ Total <= offset
      /\ whole => offset = 2 * Total
  <2>1. /\ file \in Seq(Parts) /\ read \in Nat /\ answer \in Nat /\ offset \in Nat
        /\ sent \in Nat /\ answer <= read
    BY DEF IInv, TypeOK
  <2>2. n \in Nat /\ w \in Nat /\ w <= n /\ n >= 1 /\ n <= PartLen
    OBVIOUS
  <2>3. Total = read - answer /\ Total \in Nat
    BY <2>1 DEF Total
  <2>4. Total <= offset /\ (whole => offset = 2 * Total)
    BY <1>2 DEF IInv, Ahead
  <2> QED
    BY <2>1, <2>2, <2>3, <2>4
<1>3a. /\ offset' = offset + w + n /\ offset' \in Nat /\ offset' >= offset
       /\ Total' = Total + n /\ Total' \in Nat
       /\ whole' => whole /\ w = n
  <2>1. offset' = offset + w + n /\ (whole' => whole /\ w = n)
    BY <1>1
  <2>2. read' = read + n /\ answer' = answer
    BY <1>1, <1>2
  <2>3. Total' = Total + n
    BY <2>2, <1>3 DEF Total
  <2> QED
    BY <2>1, <2>3, <1>3
<1>3b. /\ Part(n, w).at = offset /\ Part(n, w).from = Total
       /\ Part(n, w).size = n /\ Part(n, w).len = w
  BY <1>3 DEF Part
<1>4. Part(n, w) \in Parts
  BY <1>3 DEF Part, Parts
<1>5. /\ file' \in Seq(Parts)
      /\ Len(file) \in Nat
      /\ Len(file') = Len(file) + 1
      /\ file'[Len(file) + 1] = Part(n, w)
      /\ \A k \in 1..Len(file) : file'[k] = file[k]
  BY <1>1, <1>3, <1>4
<1>7. TypeOK'
  BY <1>1, <1>2, <1>3, <1>5 DEF IInv, TypeOK
<1>8. \A k \in 1..Len(file) :
        /\ file[k].at \in Nat /\ file[k].from \in Nat
        /\ file[k].size \in Nat /\ file[k].len \in Nat
        /\ file[k].at + file[k].len <= offset
        /\ file[k].from + file[k].size <= Total
  <2>1. \A k \in 1..Len(file) : file[k] \in Parts
    BY <1>3
  <2>2. \A p \in Parts : p.at \in Nat /\ p.from \in Nat /\ p.size \in Nat /\ p.len \in Nat
    BY DEF Parts
  <2> QED
    BY <2>1, <2>2, <1>2 DEF IInv, Ahead
<1>9. Ahead'
  <2>1. ASSUME NEW k \in 1..Len(file')
        PROVE  /\ file'[k].at + file'[k].len <= offset'
               /\ file'[k].from + file'[k].size <= Total'
    <3>1. CASE k = Len(file) + 1
      <4>1. file'[k] = Part(n, w)
        BY <3>1, <1>5
      <4>2. offset + w <= offset' /\ Total + n <= Total'
        BY <1>3, <1>3a
      <4> QED
        BY <4>1, <4>2, <1>3b
    <3>2. CASE k \in 1..Len(file)
      <4>1. file'[k] = file[k]
        BY <3>2, <1>5
      <4>2. offset <= offset' /\ Total <= Total' /\ Total' \in Nat
        BY <1>3, <1>3a
      <4> QED
        BY <3>2, <4>1, <4>2, <1>3, <1>3a, <1>8
    <3> QED
      BY <3>1, <3>2, <1>3, <1>5
  <2>2. Total' <= offset' /\ (whole' => offset' = 2 * Total')
    BY <1>3, <1>3a
  <2>3. ASSUME whole', NEW m \in Nat, answer' + m < read'
        PROVE  Stored(m)'
    <3>1. whole /\ w = n /\ m < Total + n
      <4>1. whole /\ w = n
        BY <2>3, <1>3a
      <4>2. answer + m < read + n
        BY <2>3, <1>1, <1>2
      <4> QED
        BY <4>1, <4>2, <1>3
    <3>2. CASE m < Total
      <4>1. answer + m < read
        BY <3>2, <1>3
      <4>2. Stored(m)
        BY <4>1, <3>1, <1>2 DEF IInv, Ahead, AllStored
      <4>3. PICK k \in 1..Len(file) : file[k].from <= m /\ m < file[k].from + file[k].len
        BY <4>2 DEF Stored
      <4>4. k \in 1..Len(file') /\ file'[k] = file[k]
        BY <1>5
      <4> QED
        BY <4>3, <4>4 DEF Stored
    <3>3. CASE ~(m < Total)
      <4>1. Len(file) + 1 \in 1..Len(file')
        BY <1>5
      <4>2. Part(n, w).from <= m /\ m < Part(n, w).from + Part(n, w).len
        BY <3>1, <3>3, <1>3, <1>3b
      <4> QED
        BY <4>1, <4>2, <1>5 DEF Stored
    <3> QED
      BY <3>2, <3>3
  <2>4. file' # <<>>
    BY <1>5
  <2> QED
    BY <2>1, <2>2, <2>3, <2>4 DEF Ahead, AllStored
<1>10. Doubled'
  <2> SUFFICES ASSUME whole', NEW k \in 1..Len(file')
               PROVE  file'[k].at = 2 * file'[k].from
    BY DEF Doubled
  <2>1. CASE k = Len(file) + 1
    BY <2>1, <1>3, <1>3a, <1>3b, <1>5
  <2>2. CASE k \in 1..Len(file)
    BY <2>2, <1>3a, <1>5 DEF IInv, InFile, Doubled
  <2> QED
    BY <2>1, <2>2, <1>3, <1>5
<1>10a. FirstPart'
  <2>1. CASE file = <<>>
    <3>1. Len(file) + 1 = 1
      BY <2>1, EmptyFile
    <3>2. Total = 0
      BY <2>1, <1>2 DEF IInv, Ahead
    <3> QED
      BY <3>1, <3>2, <1>3b, <1>5 DEF FirstPart
  <2>2. CASE file # <<>>
    <3>1. 1 \in 1..Len(file)
      BY <2>2, <1>3
    <3> QED
      BY <2>2, <3>1, <1>5 DEF FirstPart, IInv, InFile
  <2> QED
    BY <2>1, <2>2
<1>11. InOrder'
  <2> SUFFICES ASSUME NEW j \in 1..Len(file'), NEW k \in 1..Len(file'), j < k
               PROVE  /\ file'[j].at + file'[j].len <= file'[k].at
                      /\ file'[j].from + file'[j].size <= file'[k].from
                      /\ file'[k].from <= file'[k].at
    BY DEF InOrder
  <2>1. j \in 1..Len(file)
    BY <1>3, <1>5
  <2>2. CASE k = Len(file) + 1
    BY <2>1, <2>2, <1>3, <1>3b, <1>5, <1>8
  <2>3. CASE k \in 1..Len(file)
    BY <2>1, <2>3, <1>5 DEF IInv, InFile, InOrder
  <2> QED
    BY <2>2, <2>3, <1>3, <1>5
<1> QED
  BY <1>7, <1>9, <1>10, <1>10a, <1>11 DEF InFile

\* What is known of a file that is written on is known of one that is not.
LEMMA AheadFrame ==
  ASSUME IInv, FileAlone, UNCHANGED <<read, answer, offset>>, pc' = "file" => pc = "file"
  PROVE  Ahead'
<1>1. InFile
  BY DEF IInv
<1>2. \A n \in Nat : Stored(n)' = Stored(n)
  BY <1>1, FileFrame
<1> QED
  BY <1>2 DEF FileAlone, IInv, Ahead, Total, AllStored

\* Every step keeps the invariant.
LEMMA StepIInv == ASSUME IInv, [Next]_vars PROVE IInv'
<1> USE DEF Held, Before, InInit
<1>1. CASE ReceivePart
  <2>1. TypeOK' /\ Ahead' /\ InFile'
    BY <1>1, PartStep
  <2>2. Held' /\ Before' /\ Ended' /\ LoadedComplete'
    BY <1>1 DEF ReceivePart, IInv, Ended, LoadedComplete
  <2> QED
    BY <2>1, <2>2 DEF IInv
<1>2. CASE OpenFile
  <2>1. CASE Fail /\ UNCHANGED <<file, offset, whole>>
    <3>1. InFile'
      BY <2>1, FileFrame DEF IInv, FileAlone
    <3>2. TypeOK' /\ Held' /\ Before' /\ Ended' /\ LoadedComplete'
      BY <1>2, <2>1 DEF OpenFile, Fail, IInv, TypeOK, Ended, LoadedComplete
    <3>3. Ahead'
      BY <2>1 DEF Fail, Ahead
    <3> QED
      BY <3>1, <3>2, <3>3 DEF IInv
  <2>2. CASE file' = <<>> /\ offset' = 0
    <3>1. file' \in Seq(Parts) /\ 1..Len(file') = {}
      BY <2>2, EmptyFile
    <3>2. InFile'
      BY <2>2, <3>1 DEF InFile, Doubled, FirstPart, InOrder
    <3>3. ASSUME pc' = "file" PROVE read' = answer' /\ answer' \in Nat /\ Total' = 0
      <4>1. pc = "open" /\ read' = read /\ answer' = answer
        BY <1>2 DEF OpenFile
      <4>2. read = answer /\ answer \in Nat
        BY <4>1 DEF IInv, TypeOK
      <4> QED
        BY <4>1, <4>2 DEF Total
    <3>4. ASSUME pc' = "file" PROVE AllStored'
      BY <3>3, <3>4 DEF AllStored
    <3>5. Ahead'
      BY <2>2, <3>1, <3>3, <3>4 DEF Ahead
    <3>6. TypeOK' /\ Held' /\ Before' /\ Ended' /\ LoadedComplete'
      BY <1>2, <2>2, <3>1 DEF OpenFile, Fail, IInv, TypeOK, Ended, LoadedComplete
    <3> QED
      BY <3>2, <3>5, <3>6 DEF IInv
  <2> QED
    BY <1>2, <2>1, <2>2 DEF OpenFile
<1>3. ASSUME ~ReceivePart, ~OpenFile PROVE IInv'
  <2>1. FileAlone
    BY <1>3 DEF Next, InitStep, FileAlone, vars, Connect, ConnectFails, SendHello,
      ReceiveAnswer, FileEnds, Release, Unload, ServerSends, ServerCloses,
      ServerResets, Interrupt
  <2>2. InFile' /\ \A n \in Nat : Stored(n)' = Stored(n)
    BY <2>1, FileFrame DEF IInv
  <2>3. file' = file /\ whole' = whole
    BY <2>1 DEF FileAlone
  <2> USE DEF IInv
  <2>4. CASE Connect
    <3>1. TypeOK'
      <4>1. (answer <= AnswerLen /\ answer <= read /\ read <= sent)'
        BY <2>4 DEF Connect
      <4> QED
        BY <2>3, <2>4, <4>1 DEF Connect, TypeOK
    <3>2. Held' /\ Before' /\ Ahead' /\ Ended' /\ LoadedComplete'
      BY <2>4 DEF Connect, Ahead, Ended, LoadedComplete
    <3> QED
      BY <2>2, <3>1, <3>2
  <2>5. CASE ConnectFails \/ Unload
    BY <2>2, <2>3, <2>5 DEF ConnectFails, Unload, Ahead, Ended, LoadedComplete, TypeOK
  <2>6. CASE SendHello
    BY <2>2, <2>3, <2>6 DEF SendHello, Fail, Ahead, Ended, LoadedComplete, TypeOK
  <2>7. CASE ReceiveAnswer
    <3>1. TypeOK'
      <4>1. ASSUME NEW n \in 1..AnswerLen, RecvOf(n), read' = read + n, answer' = n,
                   pc' = "open", UNCHANGED failed
            PROVE  TypeOK'
        BY <2>3, <2>7, <4>1 DEF ReceiveAnswer, RecvOf, TypeOK
      <4>2. CASE UNCHANGED <<read, answer>>
        BY <2>3, <2>7, <4>2 DEF ReceiveAnswer, Fail, TypeOK
      <4> QED
        BY <2>7, <4>1, <4>2 DEF ReceiveAnswer
    <3>2. Held' /\ Before' /\ Ahead' /\ Ended' /\ LoadedComplete'
      BY <2>7 DEF ReceiveAnswer, RecvOf, AtEnd, RecvFails, Fail, Ahead, Ended,
        LoadedComplete, TypeOK
    <3> QED
      BY <2>2, <3>1, <3>2
  <2>8. CASE FileEnds
    <3>1. TypeOK' /\ Held' /\ Before' /\ LoadedComplete'
      BY <2>3, <2>8 DEF FileEnds, AtEnd, RecvFails, Fail, LoadedComplete, TypeOK
    <3>2. Ahead'
      BY <2>8 DEF FileEnds, Fail, Ahead
    <3>3. Ended'
      <4>1. CASE RecvFails /\ Fail
        BY <4>1 DEF Fail, Ended
      <4>2. CASE AtEnd
        BY <2>2, <2>3, <2>8, <4>2 DEF FileEnds, AtEnd, Fail, Ahead, Ended, AllStored
      <4> QED
        BY <2>8, <4>1, <4>2 DEF FileEnds
    <3> QED
      BY <2>2, <3>1, <3>2, <3>3
  <2>9. CASE Release
    <3>1. TypeOK' /\ Held' /\ Before' /\ Ahead' /\ Ended'
      BY <2>3, <2>9 DEF Release, Ahead, Ended, TypeOK
    <3>2. ASSUME pc' = "loaded", whole', NEW n \in 0..sent', answer' + n < sent'
          PROVE  Stored(n)'
      <4>1. ~failed /\ pc = "release" /\ UNCHANGED <<sent, answer>> /\ whole
        BY <2>3, <2>9, <3>2 DEF Release
      <4>2. n \in Nat /\ answer + n < read
        BY <4>1, <3>2 DEF Ended, TypeOK
      <4>3. Stored(n)
        BY <4>1, <4>2 DEF Ended, AllStored
      <4> QED
        BY <4>2, <4>3, <2>2
    <3> QED
      BY <2>2, <3>1, <3>2 DEF LoadedComplete
  <2>10. CASE ServerSends \/ ServerCloses \/ ServerResets \/ Interrupt
    <3>1. TypeOK'
      <4>1. (answer <= AnswerLen /\ answer <= read /\ read <= sent /\ sent \in Nat)'
        BY <2>10 DEF ServerSends, ServerCloses, ServerResets, Interrupt, TypeOK
      <4> QED
        BY <2>3, <2>10, <4>1 DEF ServerSends, ServerCloses, ServerResets, Interrupt, TypeOK
    <3>2. Held' /\ Before' /\ LoadedComplete'
      BY <2>10 DEF ServerSends, ServerCloses, ServerResets, Interrupt, LoadedComplete
    <3>3. Ahead'
      BY <2>1, <2>10, AheadFrame DEF ServerSends, ServerCloses, ServerResets, Interrupt
    <3>4. Ended'
      <4>1. ASSUME pc' = "release", ~failed'
            PROVE  Interrupt /\ pc = "release" /\ ~failed
        BY <2>10, <4>1 DEF ServerSends, ServerCloses, ServerResets, Interrupt, Ended
      <4> QED
        BY <2>2, <2>3, <4>1 DEF Interrupt, Ended, AllStored
    <3> QED
      BY <2>2, <3>1, <3>2, <3>3, <3>4
  <2>11. CASE UNCHANGED vars
    <3>1. Ahead'
      BY <2>1, <2>11, AheadFrame DEF vars
    <3>2. TypeOK' /\ Held' /\ Before'
      BY <2>11 DEF vars, TypeOK
    <3>3. Ended' /\ LoadedComplete'
      BY <2>2, <2>11 DEF vars, Ended, LoadedComplete, AllStored, TypeOK
    <3> QED
      BY <2>2, <3>1, <3>2, <3>3
  <2> QED
    BY <1>3, <2>4, <2>5, <2>6, <2>7, <2>8, <2>9, <2>10, <2>11 DEF Next, InitStep
<1> QED
  BY <1>1, <1>2, <1>3

\* The inductive invariant holds of every behaviour.
THEOREM Invariance == Spec => []IInv
BY InitIInv, StepIInv, PTL DEF Spec

\* What is received fits its buffer, for any sizes of the buffers.
THEOREM TypeCorrect == Spec => []TypeOK
BY Invariance, PTL DEF IInv

\* However init ends, client_socket has been released.
THEOREM Releases == Spec => []NoSocketLeft
<1>1. IInv => NoSocketLeft
  BY DEF IInv, Held, NoSocketLeft, InInit
<1> QED
  BY <1>1, Invariance, PTL

\* FaithfulCopy, which the log states, fails because offset is advanced twice; this is
\* when.  A copy written without a failure is the file that was sent exactly when it came
\* in at most one part: every part but the first is at twice its place (client.c:136-138).
THEOREM OnePartCopies == Spec => [](whole => (InPlace <=> Len(file) <= 1))
<1>1. ASSUME IInv, whole PROVE InPlace <=> Len(file) <= 1
  <2>1. file \in Seq(Parts) /\ Len(file) \in Nat
    BY <1>1 DEF IInv, TypeOK
  <2>2. \A k \in 1..Len(file) :
          file[k].at = 2 * file[k].from /\ file[k].from \in Nat /\ file[k].size \in 1..PartLen
    <3>1. \A k \in 1..Len(file) : file[k] \in Parts
      BY <2>1
    <3>2. \A p \in Parts : p.from \in Nat /\ p.size \in 1..PartLen
      BY DEF Parts
    <3> QED
      BY <1>1, <3>1, <3>2 DEF IInv, InFile, Doubled
  <2>3. CASE Len(file) <= 1
    <3>1. \A k \in 1..Len(file) : k = 1 /\ file # <<>>
      BY <2>1, <2>3
    <3>2. \A k \in 1..Len(file) : file[k].from = 0
      BY <1>1, <3>1 DEF IInv, InFile, FirstPart
    <3> QED
      BY <2>2, <2>3, <3>2 DEF InPlace
  <2>4. CASE Len(file) > 1
    <3>1. 1 \in 1..Len(file) /\ 2 \in 1..Len(file)
      BY <2>1, <2>4
    <3>2. file[1].from + file[1].size <= file[2].from
      BY <1>1, <3>1 DEF IInv, InFile, InOrder
    <3>3. file[2].at # file[2].from
      BY <2>2, <3>1, <3>2
    <3> QED
      BY <2>1, <2>4, <3>1, <3>3 DEF InPlace
  <2> QED
    BY <2>1, <2>3, <2>4
<1> QED
  BY <1>1, Invariance, PTL

\* No part overwrites another, whatever kernel_write returns.
THEOREM CopyInOrder == Spec => []InOrder
BY Invariance, PTL DEF IInv, InFile

\* The module is loaded only if the stream was received up to its end, and when no write
\* failed or fell short, every byte of it was written.
THEOREM SuccessComplete == Spec => []LoadedComplete
BY Invariance, PTL DEF IInv
===============================================================================
