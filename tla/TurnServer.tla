----------------------------- MODULE TurnServer ------------------------------
(***************************************************************************)
(* What the chat server promises to the clients that connect to it: they   *)
(* are served one at a time, in the order in which they came, each has one *)
(* turn, and when the server closes, those still in line are turned away.  *)
(***************************************************************************)
EXTENDS Sequences, SequencesExt

CONSTANTS Client, NoOne

VARIABLES line,   \* those who came and wait, in order
          turn,   \* the client being served, or NoOne
          gone,   \* those the server is done with
          open,   \* the server takes clients
          stuck   \* the server cannot end the turn it is in

vars == <<line, turn, gone, open>>

Init ==
  /\ line = <<>>
  /\ turn = NoOne
  /\ gone = {}
  /\ open = TRUE

Arrive(c) ==
  /\ open
  /\ c \notin ToSet(line) \cup {turn} \cup gone
  /\ line' = Append(line, c)
  /\ UNCHANGED <<turn, gone, open>>

Start ==
  /\ open
  /\ turn = NoOne
  /\ line # <<>>
  /\ turn' = Head(line)
  /\ line' = Tail(line)
  /\ UNCHANGED <<gone, open>>

Finish ==
  /\ turn # NoOne
  /\ gone' = gone \cup {turn}
  /\ turn' = NoOne
  /\ UNCHANGED <<line, open>>

Close ==
  /\ open
  /\ turn = NoOne
  /\ open' = FALSE
  /\ gone' = gone \cup ToSet(line)
  /\ line' = <<>>
  /\ UNCHANGED turn

Next == (\E c \in Client : Arrive(c)) \/ Start \/ Finish \/ Close

\* A server that has closed may open again, and forgets nobody it is done with.
Reopen ==
  /\ ~open
  /\ open' = TRUE
  /\ UNCHANGED <<line, turn, gone>>

\* The turns of a server that may close and open any number of times.
ReopeningSpec == Init /\ [][Next \/ Reopen]_vars

\* Every turn that is not stuck ends, and the next one starts unless the server closes.
Spec == Init /\ [][Next]_vars /\ WF_vars(Start) /\ WF_vars(~stuck /\ Finish)
=============================================================================
