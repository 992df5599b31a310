----------------------------- MODULE RtmapLint -----------------------------
(***************************************************************************)
(* rtmap-lint (src/engine/src/lint.rs) and the field heatmap the engine    *)
(* writes for it (src/engine/src/world.rs): fields of a struct are put on  *)
(* cache lines, and a line is judged by what DWARF says of its fields, by  *)
(* an annotation file, against another version of the struct, or against   *)
(* the writes the engine saw.                                              *)
(*                                                                         *)
(* A field is [name, offset, size, pointer, hot, aligned, lock, parts]:    *)
(* hot is volatile or atomic, aligned is an alignment of a line or more,   *)
(* lock says that the name contains one of the lock keywords, parts are    *)
(* the fields of a nested struct or union.  A name of a flattened field is *)
(* its path.  Lines are counted from the start of the struct, as the code  *)
(* does.  How diagnostics are worded and printed is left out.              *)
(***************************************************************************)
EXTENDS Naturals, Sequences, FiniteSets, SequencesExt

CONSTANTS
    LineSize,       \* --cacheline (64)
    MaxDepth,       \* depth of nesting that is expanded (8)
    Structs,        \* the versions of the struct: sequences of fields
    Writers,        \* threads of the traced program
    Offsets,        \* offsets of the words they write
    Annotations,    \* the contents of annotation files: group of a field
    MaxWrites       \* bound on the words written

NoField == "<unresolved>"

\* no field has the name that the heatmap gives to words outside all fields
ASSUME LintAssumption ==
    /\ LineSize \in Nat \ {0} /\ MaxDepth \in Nat /\ MaxWrites \in Nat
    /\ IsFiniteSet(Writers) /\ Offsets \subseteq Nat
    /\ \A s \in Structs :
          /\ IsFiniteSet(DOMAIN s) /\ DOMAIN s \subseteq Nat
          /\ \A i \in DOMAIN s : s[i].offset \in Nat /\ s[i].size \in Nat /\ s[i].name # NoField

VARIABLES
    struct,         \* the struct of the binary
    stored,         \* the words each thread wrote, as <<thread, offset>>
    heat,           \* the heatmap: <<thread, field name, field offset>>
    lint            \* what rtmap-lint said

lintVars == <<struct, stored, heat, lint>>

LintInit ==
    /\ struct \in Structs /\ stored = {} /\ heat = {}
    /\ lint = [mode |-> "none"]

-----------------------------------------------------------------------------
(* The engine's side: process_event for a WRITE to an object of the type.  *)

\* the first field of the type itself that contains the offset: a nested
\* struct is one field
FieldAt(off) ==
    LET in == {i \in DOMAIN struct : off \in struct[i].offset .. struct[i].offset + struct[i].size - 1}
    IN IF in = {} THEN <<NoField, off>>
       ELSE LET f == struct[CHOOSE i \in in : \A j \in in : i <= j] IN <<f.name, f.offset>>

HeatWrite(t, off) ==
    /\ lint.mode = "none" /\ Cardinality(stored) < MaxWrites
    /\ stored' = stored \cup {<<t, off>>}
    /\ heat' = heat \cup {LET f == FieldAt(off) IN <<t, f[1], f[2]>>}
    /\ UNCHANGED <<struct, lint>>

-----------------------------------------------------------------------------
(* The layout.                                                             *)

\* the fields at each depth, with their paths and offsets from the start of
\* the struct; a lock keyword anywhere in the path counts
Placed(fields, base, prefix, lock) ==
    {[field |-> fields[i], path |-> Append(prefix, fields[i].name), offset |-> base + fields[i].offset,
      lock |-> lock \/ fields[i].lock] : i \in DOMAIN fields}
IsLeaf(f) == f.parts = << >> \/ f.pointer
FlattenFields(s) ==
    LET level[d \in 0 .. MaxDepth] ==
            IF d = 0 THEN Placed(s, 0, << >>, FALSE)
            ELSE UNION {Placed(p.field.parts, p.offset, p.path, p.lock) :
                        p \in {q \in level[d - 1] : ~IsLeaf(q.field)}}
    IN level
Leaves(placed) ==
    {[path |-> p.path, offset |-> p.offset, size |-> p.field.size, pointer |-> p.field.pointer,
      hot |-> p.field.hot, aligned |-> p.field.aligned, lock |-> p.lock] :
        p \in {q \in placed : IsLeaf(q.field)}}
Layout(s) == UNION {Leaves(FlattenFields(s)[d]) : d \in 0 .. MaxDepth}

\* the lines a field is on; a field of size 0 is on one
Cachelines(f) == f.offset \div LineSize .. (f.offset + (IF f.size = 0 THEN 1 ELSE f.size) - 1) \div LineSize

OnLine(s, cl) == {f \in Layout(s) : cl \in Cachelines(f)}

\* the lines with two fields or more, the only ones that are judged
Shared(s) == {cl \in UNION {Cachelines(f) : f \in Layout(s)} : Cardinality(OnLine(s, cl)) >= 2}

-----------------------------------------------------------------------------
(* The analysis of one struct.                                             *)

HotOf(fs) == {f \in fs : f.hot}
AlignedOf(fs) == {f \in fs : f.aligned}
LocksOf(fs) == {f \in fs : f.lock}
\* some of the fields, and not all
Mixed(some, fs) == some # {} /\ some # fs
Scalars(fs) == {f \in fs : ~f.pointer /\ f.size <= 8}

\* structural intent, first tier first
Warns(fs) == Mixed(HotOf(fs), fs) \/ Mixed(AlignedOf(fs), fs) \/ Mixed(LocksOf(fs), fs)
Informs(fs) ==
    ~Warns(fs) /\ (\E f \in fs : f.pointer) /\ Mixed(Scalars(fs), fs)

\* group_for: the annotation of the path, or else of its last name
Groups(ann, fs) ==
    {ann[f.path] : f \in {g \in fs : g.path \in DOMAIN ann}} \cup
    {ann[<<Last(f.path)>>] : f \in {g \in fs : g.path \notin DOMAIN ann /\ <<Last(g.path)>> \in DOMAIN ann}}

\* lines of union members of which only some are volatile or atomic
UnionOverlaps(s) ==
    {f.offset \div LineSize : f \in {g \in Layout(s) :
        LET fs == {h \in Layout(s) : h.offset = g.offset}
        IN Cardinality(fs) >= 2 /\ Mixed(HotOf(fs), fs)}}

\* the lines analyze_struct warns about; an empty annotation file is none
WarnedLines(s, ann) ==
    {cl \in Shared(s) : IF DOMAIN ann # {} THEN Cardinality(Groups(ann, OnLine(s, cl))) > 1
                        ELSE Warns(OnLine(s, cl))}

Analyze(ann) ==
    /\ lint.mode = "none"
    /\ lint' = [mode |-> "analyze", ann |-> ann, warned |-> WarnedLines(struct, ann),
                unions |-> UnionOverlaps(struct),
                informed |-> IF DOMAIN ann # {} THEN {} ELSE {cl \in Shared(struct) : Informs(OnLine(struct, cl))},
                exit |-> IF WarnedLines(struct, ann) \cup UnionOverlaps(struct) # {} THEN 1 ELSE 0]
    /\ UNCHANGED <<struct, stored, heat>>

-----------------------------------------------------------------------------
(* The divergence report.                                                  *)

\* what the report takes for the prediction of lint
Flagged(fs) == \E f \in fs : f.hot \/ f.aligned \/ f.lock

\* the threads that wrote a field, by the name and offset of the heatmap
Observed(name, off) == {t \in Writers : <<t, name, off>> \in heat}
ObservedField(f) == IF Len(f.path) = 1 THEN Observed(f.path[1], f.offset) ELSE {}

\* two threads wrote the line; or two threads wrote one field of it
ContendedField(fs) == \E f \in fs : Cardinality(ObservedField(f)) > 1
Contended(fs) == Cardinality(UNION {ObservedField(f) : f \in fs}) > 1

Class(fs) ==
    CASE Flagged(fs) /\ Contended(fs) -> "confirmed"
      [] ~Flagged(fs) /\ Contended(fs) -> "silent killer"
      [] Flagged(fs) /\ ~Contended(fs) -> "false alarm"
      [] OTHER -> "unreported"

\* fields of the heatmap with two writers, on lines that are not judged
Orphans ==
    {<<e[2], e[3]>> : e \in {h \in heat : Cardinality(Observed(h[2], h[3])) > 1
                                         /\ h[3] \div LineSize \notin Shared(struct)}}

DivergenceReport ==
    /\ lint.mode = "none"
    /\ lint' = [mode |-> "heatmap", class |-> [cl \in Shared(struct) |-> Class(OnLine(struct, cl))],
                orphans |-> Orphans, exit |-> 0]
    /\ UNCHANGED <<struct, stored, heat>>

-----------------------------------------------------------------------------
(* Two versions of the struct.                                             *)

Names(s) == {s[i].name : i \in DOMAIN s}
Named(s, n) == s[CHOOSE i \in DOMAIN s : s[i].name = n]
FirstLine(f) == f.offset \div LineSize
\* byte_size of the struct in lines
LinesOf(s) == LET f == s[CHOOSE i \in DOMAIN s : \A j \in DOMAIN s :
                              s[i].offset + s[i].size >= s[j].offset + s[j].size]
              IN (f.offset + f.size + LineSize - 1) \div LineSize

DiffStructs(new) ==
    LET moved == {n \in Names(struct) \cap Names(new) : FirstLine(Named(struct, n)) # FirstLine(Named(new, n))}
    IN /\ lint.mode = "none"
       /\ lint' = [mode |-> "diff", new |-> new, moved |-> moved,
                   added |-> Names(new) \ Names(struct), removed |-> Names(struct) \ Names(new),
                   exit |-> IF moved # {} \/ LinesOf(new) > LinesOf(struct) THEN 1 ELSE 0]
       /\ UNCHANGED <<struct, stored, heat>>

LintNext ==
    \/ \E t \in Writers, off \in Offsets : HeatWrite(t, off)
    \/ \E ann \in Annotations : Analyze(ann)
    \/ DivergenceReport
    \/ \E new \in Structs : DiffStructs(new)

LintSpec == LintInit /\ [][LintNext]_lintVars

-----------------------------------------------------------------------------
(* Properties.  They speak of plain structs: no nested field and no field  *)
(* across a line.  A nested field has another name in the heatmap than in  *)
(* lint, and a field across lines counts on each of them.                  *)

Plain(s) == \A i \in DOMAIN s :
    /\ IsLeaf(s[i])
    /\ s[i].size > 0 /\ (s[i].offset % LineSize) + s[i].size <= LineSize

\* the line of a word some field contains, and who wrote such words of it
WrittenBy(cl) ==
    {w[1] : w \in {v \in stored : v[2] \div LineSize = cl
        /\ \E i \in DOMAIN struct : struct[i].offset <= v[2] /\ v[2] < struct[i].offset + struct[i].size}}

\* Two threads that write fields of one line, even different fields, are in
\* the report: the line is confirmed or a silent killer, and no other line
\* with fields of two or more is; a line the analysis warns about is never a
\* silent killer.
ContentionShown ==
    lint.mode = "heatmap" =>
        /\ \A cl \in DOMAIN lint.class :
              /\ lint.class[cl] \in {"confirmed", "silent killer"} <=> Cardinality(WrittenBy(cl)) > 1
              /\ cl \in WarnedLines(struct, << >>) \cup UnionOverlaps(struct) => lint.class[cl] # "silent killer"
        /\ \A i \in DOMAIN struct :
              (\E t, u \in Writers : /\ t # u /\ <<t, struct[i].offset>> \in stored
                                     /\ <<u, struct[i].offset>> \in stored) =>
                  \/ FirstLine(struct[i]) \in DOMAIN lint.class
                  \/ \E o \in lint.orphans : o[2] = struct[i].offset

\* When every write was made by the thread the annotations name, a line that
\* two threads wrote is warned about.
AnnotationsWarn ==
    (/\ lint.mode = "analyze" /\ DOMAIN lint.ann # {}
     /\ \A e \in heat : e[2] # NoField => <<e[2]>> \in DOMAIN lint.ann /\ lint.ann[<<e[2]>>] = e[1]) =>
        \A w \in stored : LET cl == w[2] \div LineSize
                           IN Cardinality(WrittenBy(cl)) > 1 => cl \in lint.warned /\ lint.exit = 1

\* Two fields that share a line only in the new version are not passed over:
\* one of them is reported as moved or as added.
SharingShown ==
    lint.mode = "diff" /\ Plain(lint.new) =>
        \A m, n \in Names(lint.new) :
            (/\ FirstLine(Named(lint.new, m)) = FirstLine(Named(lint.new, n))
             /\ ~(/\ {m, n} \subseteq Names(struct)
                  /\ FirstLine(Named(struct, m)) = FirstLine(Named(struct, n)))) =>
                \/ {m, n} \cap lint.added # {}
                \/ {m, n} \cap lint.moved # {} /\ lint.exit = 1

\* What rtmap-lint says of a plain struct agrees with what the threads wrote
\* and with how the struct changed, in each of its three modes.
LintAgrees == Plain(struct) => ContentionShown /\ AnnotationsWarn /\ SharingShown
=============================================================================
