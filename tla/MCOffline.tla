----------------------------- MODULE MCOffline -----------------------------
(* Instances of the offline tools for TLC: a behaviour is a stream that     *)
(* rtmap-check judges, a pair of recordings that rtmap-diff compares, or a  *)
(* struct that rtmap-lint analyses.                                         *)
EXTENDS RtmapCheck, RtmapDiff, RtmapLint, TLC

VARIABLE tool

Field(n, off, size, attrs) ==
    [name |-> n, offset |-> off, size |-> size, pointer |-> "pointer" \in attrs, hot |-> "hot" \in attrs,
     aligned |-> "aligned" \in attrs, lock |-> "lock" \in attrs, parts |-> << >>]
Nested(n, off, size, attrs, parts) == [Field(n, off, size, attrs) EXCEPT !.parts = parts]

\* lines of 4 bytes: a struct whose fields share lines and the same with
\* one of them isolated, one with a union, one with a field over two lines,
\* and one with fields nested as deep as lint looks, and deeper
MCStructs == {
    <<Field("a", 0, 2, {"hot"}), Field("b", 2, 2, {}), Field("c", 4, 2, {"aligned"}), Field("d", 8, 2, {"pointer"}), Field("e", 10, 2, {})>>,
    <<Field("a", 0, 2, {"hot"}), Field("c", 4, 2, {"aligned"}), Field("b", 6, 2, {}), Field("d", 8, 2, {"pointer"}), Field("f", 10, 2, {"lock"})>>,
    <<Field("a", 0, 2, {"hot"}), Field("u", 0, 4, {}), Field("b", 4, 4, {}), Field("f", 10, 2, {"lock"})>>,
    <<Field("a", 0, 4, {"pointer"}), Field("c", 4, 0, {}), Field("b", 4, 6, {}), Field("d", 10, 2, {})>>,
    <<Nested("s", 0, 8, {"lock"}, <<Field("a", 0, 2, {}), Field("b", 2, 2, {}),
          Nested("r", 4, 4, {}, <<Field("c", 0, 4, {})>>)>>), Field("d", 8, 2, {}), Field("e", 10, 2, {})>>}
MCAnnotations ==
    {<< >>, (<<"b">> :> "t1" @@ <<"s", "a">> :> "t2")} \cup
    [{<<n>> : n \in {"a", "b", "c", "d", "e"}} -> {"t1", "t2"}]

\* the baseline ran at address 0, without loss of generality
MCInit ==
    /\ tool \in {"check", "diff", "lint"} /\ CheckInit /\ DiffInit /\ LintInit
    /\ base.a = 0 /\ (tool # "diff" => base.b = 0)
    /\ tool # "lint" => struct = CHOOSE s \in MCStructs : TRUE
MCNext ==
    /\ UNCHANGED tool
    /\ \/ tool = "check" /\ CheckNext /\ UNCHANGED <<diffVars, lintVars>>
       \/ tool = "diff" /\ DiffNext /\ UNCHANGED <<checkVars, lintVars>>
       \/ tool = "lint" /\ LintNext /\ UNCHANGED <<checkVars, diffVars>>
TidSymmetry == Permutations(Tids)
MCSpec == MCInit /\ [][MCNext]_<<tool, checkVars, diffVars, lintVars>>
=============================================================================
