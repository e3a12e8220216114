------------------------------- MODULE MCGateway -------------------------------
(* Gateway for TLC: two processes, and clients that share an id. *)
EXTENDS Gateway

CONSTANTS a, b,            \* processes
          s1, s2, s3, s4,  \* sockets
          x, y             \* peer ids

\* s3 connects to b, the others to a.
HomeOf == [s \in Sockets |-> IF s = s3 THEN b ELSE a]

\* Every connection uses the same id, as every tab of the front end does: a
\* client that reconnects, to the same process or to another, and the sender
\* and the receiver of a message.
SameId == [s \in Sockets |-> {x}]

\* The gateway takes any senderId: the client of s1 uses a second one too.
SecondId == [s \in Sockets |-> IF s = s1 THEN {x, y} ELSE {x}]
=============================================================================
