----------------------- MODULE MCConnectionsRegister -----------------------
(* The first connection is of one app, the others are of another one.       *)
EXTENDS ConnectionsRegister

CONSTANTS a1, a2

MCUid == [id \in 0 .. (MaxId - 1) |-> IF id = 0 THEN a1 ELSE a2]
=============================================================================
