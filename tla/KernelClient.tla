----------------------------- MODULE KernelClient -----------------------------
(***************************************************************************)
(* The client module of src/client/client.c and the server it talks to.    *)
(* Everything happens in the module's init function, in the process that   *)
(* loads it: connect, send a line, receive one answer, then receive a file *)
(* until the connection ends.                                              *)
(*                                                                         *)
(* The server is any that speaks TCP (those of this repository never close *)
(* a connection by themselves): it sends bytes when it likes, closes, or   *)
(* resets.  The bytes are numbered in the order in which they were sent;   *)
(* recv returns any number of those that have come and fit.                *)
(*                                                                         *)
(* The file is the sequence of the writes to it since it was last opened:  *)
(* the part of the stream after the answer, counted from 0, that begins at *)
(* byte `from' and has `size' bytes came in one recv, and its first `len'  *)
(* bytes were written at position `at'.                                    *)
(***************************************************************************)
EXTENDS Naturals, Sequences

CONSTANTS
  AnswerLen,  \* sizeof(receive_buffer)
  PartLen,    \* MAX_BUFFER_SIZE
  MaxBytes    \* bound: bytes the server sends on one connection

ASSUME KernelClientAssumption ==
  AnswerLen \in Nat /\ PartLen \in Nat /\ MaxBytes \in Nat

VARIABLES
  pc,       \* where init is; "absent", "loaded" when it is not running
  failed,   \* err < 0
  socket,   \* client_socket is not NULL
  file,     \* the writes to fileee.txt
  offset,   \* loff_t offset
  signal,   \* a signal is pending for the process
  conn,     \* the connection: "none", "live", "fin" or "reset" by the server
  sent,     \* bytes the server has sent (that were not lost in a reset)
  read,     \* bytes received
  answer,   \* history: how many of them were taken as the answer
  whole     \* history: every write to the file so far was complete

vars == <<pc, failed, socket, file, offset, signal, conn, sent, read, answer, whole>>

Init ==
  /\ pc = "absent"
  /\ failed = FALSE
  /\ socket = FALSE
  /\ file = <<>> /\ offset = 0
  /\ signal = FALSE
  /\ conn = "none"
  /\ sent = 0 /\ read = 0 /\ answer = 0
  /\ whole = TRUE

-----------------------------------------------------------------------------
(* connect_to_server *)

\* Mutant of ConnectFails: the socket is not released.
ConnectLeaks ==
  /\ pc = "absent"
  /\ socket' = TRUE
  /\ UNCHANGED <<pc, failed, file, offset, signal, conn, sent, read, answer, whole>>

\* A socket cannot be made, or the server is not there: the socket is released
\* and init fails.
ConnectFails ==
  /\ pc = "absent"
  /\ socket' = FALSE
  /\ UNCHANGED <<pc, failed, file, offset, signal, conn, sent, read, answer, whole>>

Connect ==
  /\ pc = "absent"
  /\ pc' = "send"
  /\ socket' = TRUE
  /\ conn' = "live"
  /\ sent' = 0 /\ read' = 0 /\ answer' = 0
  /\ failed' = FALSE /\ signal' = FALSE
  /\ UNCHANGED <<file, offset, whole>>

-----------------------------------------------------------------------------
(* tcp_socket_client_init after the connection is made *)

\* goto exit with an error
Fail == pc' = "release" /\ failed' = TRUE

\* send_message of "Hello, server!": it fails when the server has reset.
SendHello ==
  /\ pc = "send"
  /\ \/ conn # "reset" /\ pc' = "recv" /\ UNCHANGED failed
     \/ conn = "reset" /\ Fail
  /\ UNCHANGED <<socket, file, offset, signal, conn, sent, read, answer, whole>>

\* receive_message fails: nothing is left to be read, and the server has reset the
\* connection, or a signal interrupts the wait.
RecvFails ==
  /\ read = sent
  /\ conn = "reset" \/ (conn = "live" /\ signal)

\* n bytes have come and were not read yet.
RecvOf(n) == read + n <= sent

AtEnd == read = sent /\ conn = "fin"

\* Mutant of ReceiveAnswer: recv is given the size of the other buffer.
ReceiveAnswerLong ==
  /\ pc = "recv"
  /\ \/ \E n \in 1..PartLen :
          /\ RecvOf(n)
          /\ read' = read + n /\ answer' = n
          /\ pc' = "open" /\ UNCHANGED failed
     \/ /\ AtEnd
        /\ pc' = "open" /\ UNCHANGED <<read, answer, failed>>
     \/ /\ RecvFails
        /\ Fail /\ UNCHANGED <<read, answer>>
  /\ UNCHANGED <<socket, file, offset, signal, conn, sent, whole>>

\* One receive_message for the answer; at the end of the stream it returns 0.
ReceiveAnswer ==
  /\ pc = "recv"
  /\ \/ \E n \in 1..AnswerLen :
          /\ RecvOf(n)
          /\ read' = read + n /\ answer' = n
          /\ pc' = "open" /\ UNCHANGED failed
     \/ /\ AtEnd
        /\ pc' = "open" /\ UNCHANGED <<read, answer, failed>>
     \/ /\ RecvFails
        /\ Fail /\ UNCHANGED <<read, answer>>
  /\ UNCHANGED <<socket, file, offset, signal, conn, sent, whole>>

\* receive_file: filp_open with O_TRUNC, then kmalloc; either may fail.
OpenFile ==
  /\ pc = "open"
  /\ \/ /\ pc' = "file" /\ UNCHANGED failed
        /\ file' = <<>> /\ offset' = 0 /\ whole' = TRUE
     \/ /\ Fail
        /\ file' = <<>> /\ offset' = 0 /\ whole' = TRUE
     \/ /\ Fail
        /\ UNCHANGED <<file, offset, whole>>
  /\ UNCHANGED <<socket, signal, conn, sent, read, answer>>

Part(n, w) == [at |-> offset, from |-> read - answer, size |-> n, len |-> w]

\* Mutant of ReceivePart: each part is written from the start of the file.
ReceivePartAtStart ==
  /\ pc = "file"
  /\ \E n \in 1..PartLen : \E w \in 0..n :
       /\ RecvOf(n)
       /\ read' = read + n
       /\ file' = Append(file, Part(n, w))
       /\ offset' = 0
       /\ whole' = (whole /\ w = n)
  /\ UNCHANGED <<pc, failed, socket, signal, conn, sent, answer>>

\* kernel_write writes what it can and advances offset by that; the loop
\* advances it again, by what was received.
ReceivePart ==
  /\ pc = "file"
  /\ \E n \in 1..PartLen : \E w \in 0..n :
       /\ RecvOf(n)
       /\ read' = read + n
       /\ file' = Append(file, Part(n, w))
       /\ offset' = offset + w + n
       /\ whole' = (whole /\ w = n)
  /\ UNCHANGED <<pc, failed, socket, signal, conn, sent, answer>>

\* Mutant of FileEnds: an error ends the loop like the end of the stream.
FileEndsAnyhow ==
  /\ pc = "file"
  /\ AtEnd \/ RecvFails
  /\ pc' = "release"
  /\ UNCHANGED <<failed, socket, file, offset, signal, conn, sent, read, answer, whole>>

\* Mutant of FileEnds: an error makes the loop go on.
FileNeverFails ==
  /\ pc = "file"
  /\ \/ AtEnd /\ pc' = "release"
     \/ RecvFails /\ UNCHANGED pc
  /\ UNCHANGED <<failed, socket, file, offset, signal, conn, sent, read, answer, whole>>

\* recv returns 0, or an error.
FileEnds ==
  /\ pc = "file"
  /\ \/ AtEnd /\ pc' = "release" /\ UNCHANGED failed
     \/ RecvFails /\ Fail
  /\ UNCHANGED <<socket, file, offset, signal, conn, sent, read, answer, whole>>

\* The socket is released, and init returns err.
Release ==
  /\ pc = "release"
  /\ socket' = FALSE
  /\ conn' = "none"
  /\ pc' = IF failed THEN "absent" ELSE "loaded"
  /\ UNCHANGED <<failed, file, offset, signal, sent, read, answer, whole>>

\* tcp_socket_client_exit finds client_socket NULL.
Unload ==
  /\ pc = "loaded"
  /\ pc' = "absent"
  /\ socket' = FALSE
  /\ UNCHANGED <<failed, file, offset, signal, conn, sent, read, answer, whole>>

InInit == {"send", "recv", "open", "file", "release"}

InitStep == SendHello \/ ReceiveAnswer \/ OpenFile \/ ReceivePart \/ FileEnds \/ Release

-----------------------------------------------------------------------------
(* The server, and the user who loads the module *)

ServerSends ==
  /\ conn = "live"
  /\ sent < MaxBytes
  /\ sent' = sent + 1
  /\ UNCHANGED <<pc, failed, socket, file, offset, signal, conn, read, answer, whole>>

ServerCloses ==
  /\ conn = "live"
  /\ conn' = "fin"
  /\ UNCHANGED <<pc, failed, socket, file, offset, signal, sent, read, answer, whole>>

\* A reset may overtake bytes that have not come yet.
ServerResets ==
  /\ conn = "live"
  /\ conn' = "reset"
  /\ sent' \in read..sent
  /\ UNCHANGED <<pc, failed, socket, file, offset, signal, read, answer, whole>>

Interrupt ==
  /\ pc \in InInit
  /\ ~signal
  /\ signal' = TRUE
  /\ UNCHANGED <<pc, failed, socket, file, offset, conn, sent, read, answer, whole>>

Next ==
  \/ Connect \/ ConnectFails \/ InitStep \/ Unload
  \/ ServerSends \/ ServerCloses \/ ServerResets \/ Interrupt

\* The process that loads the module runs while it can.
Spec == Init /\ [][Next]_vars /\ WF_vars(InitStep)

-----------------------------------------------------------------------------
(* Properties *)

Parts == [at : Nat, from : Nat, size : 1..PartLen, len : 0..PartLen]

\* Domains; what is received fits the buffer it is received into.
TypeOK ==
  /\ pc \in InInit \cup {"absent", "loaded"}
  /\ failed \in BOOLEAN /\ socket \in BOOLEAN /\ signal \in BOOLEAN /\ whole \in BOOLEAN
  /\ conn \in {"none", "live", "fin", "reset"}
  /\ sent \in Nat /\ read \in Nat /\ answer \in Nat /\ offset \in Nat
  /\ answer <= AnswerLen /\ answer <= read /\ read <= sent
  /\ file \in Seq(Parts)

\* No socket outlives init, whether it succeeds, fails or is interrupted
\* (client.c:38, :188).
NoSocketLeft == pc \in {"absent", "loaded"} => ~socket

\* Also when writes fail or fall short, no part is overwritten by a later one,
\* none is before its place, and they are in the order of the stream.  There may be
\* holes between them.
InOrder ==
  \A j, k \in 1..Len(file) :
    j < k => /\ file[j].at + file[j].len <= file[k].at
             /\ file[j].from + file[j].size <= file[k].from
             /\ file[k].from <= file[k].at

\* Byte n of the stream after the answer was written to the copy, wherever.
Stored(n) == \E k \in 1..Len(file) : file[k].from <= n /\ n < file[k].from + file[k].len

\* Once the module is loaded, every byte the server sent after the answer was written
\* to the copy, provided kernel_write wrote what it was given: no error of recv, reset or
\* signal is taken for the end of the file (client.c:130, :139).  The condition is needed:
\* the result of kernel_write is not looked at (:136).
LoadedComplete ==
  pc = "loaded" /\ whole => \A n \in 0..sent : answer + n < sent => Stored(n)

\* A signal ends init once the server is silent, although it does not close
\* (client.c:131).  While there is data, recv takes it and not the signal.
SignalEnds == (signal /\ pc \in InInit) ~> pc \notin InInit

-----------------------------------------------------------------------------
(* What the log and the report say, and the code does not do. *)

\* Each part is where it was in the stream.
InPlace == \A k \in 1..Len(file) : file[k].at = file[k].from

\* "File received successfully" (client.c:185): the copy is the file that was sent, when
\* every write was complete (readme.md:446).
FaithfulCopy == pc = "loaded" /\ whole => InPlace
===============================================================================
