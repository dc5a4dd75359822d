------------------------------ MODULE MCServer ------------------------------
(* Small instances of Server.                                               *)
EXTENDS Server

\* The top list of today, and an address on another day.
TopAndPast ==
    [c \in Client |-> [today |-> c = "c1", list |-> c = "c1"]]
=============================================================================
