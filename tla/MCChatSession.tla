--------------------------- MODULE MCChatSession ----------------------------
(* Small instances of ChatSession: a tag of two cells, a buffer of four, names *)
(* of up to two cells, files of one or two parts.                           *)
EXTENDS ChatSession, TLC

CONSTANTS c1, c2,        \* clients
          F, G, a, b     \* cells: the tag is F G

MCCell == {F, G, a, b, NUL}
MCTag == <<F, G>>
Blank == [i \in 1..BufLen |-> NUL]
\* The stack may still hold what an earlier call received.
Leftover == [i \in 1..BufLen |-> <<F, G, a, NUL>>[i]]
BlankStack == {Blank}
DirtyStack == {Blank, Leftover}

\* File a has one part, b two; ab is not there.
TwoFiles == (<<a>> :> 1) @@ (<<b>> :> 2)
\* kernel_read of file b may fail, at the first part or a later one.
BadB == {<<b>>}
\* Only file bb is there.
TailFiles == <<b, b>> :> 1

Mixed == {<<b>>, <<F, G, b>>}
\* The first line is longer than the server's buffer.
LongAndFile == {<<b, a, b, a, b>>, <<F, G, b>>}
\* A chat line that fills the buffer, and a request for a short name.
Tails == {<<a, a, a, b>>, <<F, G, b>>}
=============================================================================
