-------------------------- MODULE MCConnectionPool --------------------------
(* Small instances of ConnectionPool: requests that write, all but one of     *)
(* them to the same project, and readers.                                     *)
EXTENDS ConnectionPool

MCProjectOf == [w \in Writer |-> IF w = "u3" THEN "p2" ELSE "p1"]

=============================================================================
