-------------------------- MODULE MCServerSockets ---------------------------
(* Two processes making system call 451 over a few socket slots. *)
EXTENDS ServerSockets, TLC

CONSTANTS p1, p2, s1, s2, s3, s4

MCProc == {p1, p2}
MCSock == {s1, s2, s3, s4}

\* Processes and slots are interchangeable, and every property is a state or
\* step property.
Symmetry == Permutations(MCProc) \cup Permutations(MCSock)
=============================================================================
