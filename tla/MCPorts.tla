------------------------------ MODULE MCPorts ------------------------------
(* A client and a server: the instance of Ports that TLC checks.           *)
EXTENDS Ports

CONSTANTS client, server, b1, b2, a, async, i, p, c, x, y

MCOwner == [m \in Message |-> IF m \in {b2, async} THEN server ELSE client]
MCBuiltIn == (client :> b1) @@ (server :> b2)
\* the client collects its async message at its own port
MCPortToNotify == [m \in Message |-> IF m = a THEN c ELSE None]
MCReads == [m \in Message |-> IF m \in {b2, async} THEN {p} ELSE IF m = b1 THEN {c} ELSE {}]
MCWrites == [m \in Message |-> IF m \in {b1, a, i} THEN {p} ELSE {}]
MCFilters == {{x}, MatchAll}
AnyMessage == {MatchAll}

=============================================================================
