------------------------------ MODULE MCZdtun ------------------------------
(* Small instances of Zdtun: two connections of one kind and one of another.*)
EXTENDS Zdtun

CONSTANTS t1, t2, u1, u2, i1

AllTuples == {t1, t2, u1, u2, i1}

MCPort == [t \in Tuples |-> IF t \in UDP THEN 1 ELSE 0]
MCTimeout == [t \in Tuples |-> IF t \in TCP THEN 2 ELSE 1]
=============================================================================
