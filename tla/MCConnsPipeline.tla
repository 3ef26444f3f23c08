-------------------------- MODULE MCConnsPipeline --------------------------
(* One app.                                                                 *)
EXTENDS ConnsPipeline

CONSTANT a1

MCUid == [id \in Ids |-> a1]
=============================================================================
