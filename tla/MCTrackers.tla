----------------------------- MODULE MCTrackers -----------------------------
(* Instances for TLC of the trackers process_event keeps up to date: a      *)
(* behaviour is one of the address index and its frames, one of the shadow  *)
(* registers, or one of the hazard reports.                                 *)
EXTENDS RtmapFrames, RtmapRegs, RtmapHazards, TLC

VARIABLE part

\* A function of the executable with a pointer and two locals that share a
\* slot of the stack, one of a library, one without debug information; a
\* global with fields, one of them nested, and padding behind them; a global
\* pointer; a global of a library.
MCFuncs ==
    [f |-> [home |-> "main", locals |-> <<[off |-> 0, size |-> 1, ptr |-> TRUE],
                                          [off |-> 1, size |-> 2, ptr |-> FALSE],
                                          [off |-> 2, size |-> 1, ptr |-> FALSE]>>],
     g |-> [home |-> "lib", locals |-> <<[off |-> 1, size |-> 1, ptr |-> FALSE],
                                         [off |-> 0, size |-> 0, ptr |-> FALSE]>>],
     u |-> [home |-> "none", locals |-> <<>>]]
MCTypes ==
    [s |-> <<[off |-> 0, size |-> 1, ptr |-> TRUE, type |-> "int"],
             [off |-> 1, size |-> 2, ptr |-> FALSE, type |-> "in"]>>,
     in |-> <<[off |-> 0, size |-> 1, ptr |-> FALSE, type |-> "int"],
              [off |-> 1, size |-> 1, ptr |-> FALSE, type |-> "int"]>>,
     int |-> <<>>]
MCGlobals == <<[addr |-> 2, size |-> 4, ptr |-> FALSE, type |-> "s"],
               [addr |-> 1, size |-> 1, ptr |-> TRUE, type |-> "int"]>>
MCLibGlobals == <<[addr |-> 6, size |-> 1, ptr |-> TRUE, type |-> "int"]>>
MCStackBase == [t \in Threads |-> 10 * t]

\* Threads 1 and 3 share a bit of the writer mask, and the bytes lie on two
\* lines that share a slot; a block of three words has a hole between its
\* two fields.
MCBytes == 6..8
MCLayout == [n \in BlockSizes |->
    IF n = 1 THEN <<[off |-> 0, size |-> 1]>>
    ELSE <<[off |-> 0, size |-> 1], [off |-> 2, size |-> 1]>>]

MCInit ==
    /\ part \in {"frames", "registers", "hazards"} /\ Init /\ RegInit /\ HazInit
    /\ part # "frames" => ~pie
    /\ part # "registers" => ~cfi
MCNext ==
    /\ UNCHANGED part
    /\ \/ part = "frames" /\ Next /\ UNCHANGED <<regVars, hazVars>>
       \/ part = "registers" /\ RegNext /\ UNCHANGED <<vars, hazVars>>
       \/ part = "hazards" /\ HazNext /\ UNCHANGED <<vars, regVars>>
MCSpec == MCInit /\ [][MCNext]_<<part, vars, regVars, hazVars>>
MCSymmetry == Permutations(Workers)
=============================================================================
