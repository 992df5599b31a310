------------------------------ MODULE MCTypes ------------------------------
(* RtmapTypes for TLC: a list node, a table whose first word points to an   *)
(* array of nodes, and a type of two words that begins with a union of a    *)
(* number and a pointer to a node.                                          *)
EXTENDS RtmapTypes, TLC

CONSTANTS Node, Table, Blob, head, tab

MCAddr == 1 .. 3
MCTypes == {Node, Table, Blob}
MCTypeSize == [t \in MCTypes |-> IF t = Blob THEN 2 ELSE 1]
MCFields ==
    [t \in MCTypes |->
        <<[off |-> 0, to |-> Node, ind |-> t = Table, sel |-> t # Blob]>>]
MCTruncated == {Node}
MCGlobals == {head, tab}
MCPointee == [g \in MCGlobals |-> IF g = head THEN Node ELSE Table]
MCSizes == 1 .. 2
MCOracle == [n \in MCSizes |-> IF n = 2 THEN {Blob} ELSE {NoType}]
MCReachable == {1} \X {Node, Table}
MCSymmetry == Permutations(JitSeqs) \cup Permutations(CallSeqs)
=============================================================================
