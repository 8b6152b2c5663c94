--------------------------- MODULE MCModuleServer ---------------------------
(* Small instances of ModuleServer, with the data of MCChatSession.        *)
EXTENDS ModuleServer, TLC

CONSTANTS c1, c2,        \* clients
          F, G, a, b     \* cells: the tag is F G

MCCell == {F, G, a, b, NUL}
MCTag == <<F, G>>
\* The stack holds what an earlier load received.
MCStack == {[i \in 1..BufLen |-> <<F, G, b>>[i]]}
\* File b has one part.
MCFiles == <<b>> :> 1
\* kernel_read of it may fail.
MCUnreadable == {<<b>>}
\* A chat line that fills the buffer, and a file request.
MCLines == {<<b, a, b>>, <<F, G, b>>}
=============================================================================
