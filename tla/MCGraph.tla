------------------------------ MODULE MCGraph ------------------------------
(* HeapGraph for TLC: three adjacent addresses, two sizes of write of which *)
(* the larger is a pointer's, NULL and two pointer values.                  *)
EXTENDS HeapGraph

MCAddr == 1 .. 3
MCSizes == 1 .. 2
MCValues == 0 .. 2
MCPlausible == MCValues \ {0}
=============================================================================
