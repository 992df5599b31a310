----------------------------- MODULE RtmapDiff -----------------------------
(***************************************************************************)
(* rtmap-diff (src/engine/src/diff.rs): two recordings are replayed one    *)
(* after the other through the reconciler, the topology is noted at        *)
(* checkpoints, and the checkpoints are compared in pairs.                 *)
(*                                                                         *)
(* An event is what it does to the topology.  A stamp stands for a source  *)
(* and a type; a type is stamped where a variable of it is written         *)
(* ("learn": ensure_type puts it into the registry first) or where a field *)
(* points to one and the registry already has it ("reach").  Both replays  *)
(* are given the same DwarfInfo, and so the same registry.  A hazard is    *)
(* identified by the program counter, which depends on where the program   *)
(* was loaded.  Histograms and register contexts, which are only printed,  *)
(* are left out.                                                           *)
(***************************************************************************)
EXTENDS Naturals, Sequences, FiniteSets, SequencesExt

CONSTANTS
    TypeNames,      \* types that get stamped
    Pcs,            \* program counters of hazards, relative to the load address
    Bases,          \* load addresses
    SnapSlots,      \* slots of a REG_SNAPSHOT (7)
    Interval,       \* --interval
    MaxRecording    \* bound on the events of a recording

ASSUME DiffAssumption == Interval \in Nat \ {0} /\ SnapSlots \in Nat \ {0} /\ MaxRecording \in Nat

Sides == {"a", "b"}     \* baseline and subject

VARIABLES
    side,           \* the recording that is replayed, or "done"
    base,           \* load address of each recording's run
    log,            \* the events of each recording so far
    registry,       \* the types of DwarfInfo that are resolved
    world,          \* [seq, next, stamps, hazards] of the replay
    cks             \* the checkpoints of each recording

diffVars == <<side, base, log, registry, world, cks>>

\* replay_to_checkpoints starts from an empty world
FreshWorld == [seq |-> 0, next |-> Interval, stamps |-> {}, hazards |-> {}]

\* take_checkpoint
Checkpoint(w) == [seq |-> w.seq, stamps |-> w.stamps, hazards |-> w.hazards]

Events ==
    {<<"other", 0>>, <<"snapshot", 0>>} \cup {<<"hazard", h>> : h \in Pcs} \cup
    {<<k, ty>> : k \in {"learn", "reach", "free"}, ty \in TypeNames}

\* process_event, as far as the topology goes
Applied(w, e) ==
    CASE e[1] = "learn" -> [w EXCEPT !.stamps = @ \cup {e[2]}]
      [] e[1] = "reach" -> [w EXCEPT !.stamps = @ \cup ({e[2]} \cap registry)]
      [] e[1] = "free" -> [w EXCEPT !.stamps = @ \ {e[2]}]
      [] e[1] = "hazard" -> [w EXCEPT !.hazards = @ \cup {e[2] + base[side]}]
      [] OTHER -> w

\* when the next checkpoint is due
NextCheckpoint(w) == w.next + Interval

\* one event of the recording: a snapshot takes SnapSlots slots and skips the
\* test for a checkpoint
Replay(e) ==
    LET w == Applied([world EXCEPT !.seq = @ + 1], e)
        due == w.seq >= w.next
    IN /\ side \in Sides /\ Len(log[side]) < MaxRecording
       /\ log' = [log EXCEPT ![side] = Append(@, e)]
       /\ registry' = IF e[1] = "learn" THEN registry \cup {e[2]} ELSE registry
       /\ IF e[1] = "snapshot"
          THEN world' = [w EXCEPT !.seq = world.seq + SnapSlots] /\ UNCHANGED cks
          ELSE /\ world' = IF due THEN [w EXCEPT !.next = NextCheckpoint(w)] ELSE w
               /\ cks' = IF due THEN [cks EXCEPT ![side] = Append(@, Checkpoint(w))] ELSE cks
       /\ UNCHANGED <<side, base>>

\* the end of a recording: a last checkpoint, always
Finish ==
    /\ side \in Sides
    /\ cks' = [cks EXCEPT ![side] = Append(@, Checkpoint(world))]
    /\ side' = IF side = "a" THEN "b" ELSE "done"
    /\ world' = FreshWorld
    /\ UNCHANGED <<base, log, registry>>

DiffInit ==
    /\ side = "a" /\ base \in [Sides -> Bases]
    /\ log = [s \in Sides |-> <<>>] /\ registry = {}
    /\ world = [seq |-> 0, next |-> Interval, stamps |-> {}, hazards |-> {}]
    /\ cks = [s \in Sides |-> <<>>]

DiffNext == Finish \/ \E e \in Events : Replay(e)
DiffSpec == DiffInit /\ [][DiffNext]_diffVars

-----------------------------------------------------------------------------
(* The comparison (diff_checkpoints, main).                                *)

Pairs == Min({Len(cks.a), Len(cks.b)})
Final(s) == cks[s][Len(cks[s])]
\* stamps of either final checkpoint, and of both
UnionMask == Final("a").stamps \cup Final("b").stamps
CommonMask == Final("a").stamps \cap Final("b").stamps

\* the difference reported for pair i: stamps of both final checkpoints are
\* left out, but not for the last pair
Diff(i) ==
    LET raw == SymDiff(cks.a[i].stamps, cks.b[i].stamps)
    IN [stamps |-> IF i = Pairs THEN raw ELSE raw \ CommonMask,
        hazards |-> SymDiff(cks.a[i].hazards, cks.b[i].hazards)]
Identical == \A i \in 1..Pairs : Diff(i) = [stamps |-> {}, hazards |-> {}]

-----------------------------------------------------------------------------
(* Properties.                                                             *)

\* A divergence is never lost: a stamp that differs in some pair is reported
\* for some pair or belongs to both final topologies, and when both
\* recordings have as many checkpoints, whatever differs in the final
\* topologies is reported (main takes the mask from the last checkpoints and
\* drops it at index pairs - 1, which are the same only then).
NothingHidden ==
    side = "done" =>
        /\ \A ty \in TypeNames, i \in 1..Pairs :
              ty \in SymDiff(cks.a[i].stamps, cks.b[i].stamps) =>
                  (\E j \in 1..Pairs : ty \in Diff(j).stamps) \/
                  (ty \in Final("a").stamps /\ ty \in Final("b").stamps)
        /\ Len(cks.a) = Len(cks.b) =>
              /\ SymDiff(Final("a").stamps, Final("b").stamps) \subseteq Diff(Pairs).stamps
              /\ SymDiff(Final("a").hazards, Final("b").hazards) \subseteq Diff(Pairs).hazards

\* A recording compared with one of the same events is identical to it, if
\* both ran at the same address or had no hazard, and if no field reached a
\* type before the baseline had resolved it.
RepeatIdentical ==
    /\ side = "done" /\ log.a = log.b
    /\ base.a = base.b \/ ~\E e \in Range(log.a) : e[1] = "hazard"
    /\ \A i \in DOMAIN log.a : log.a[i][1] = "reach" =>
          (\E j \in 1..(i - 1) : log.a[j] = <<"learn", log.a[i][2]>>)
          \/ ~\E j \in DOMAIN log.a : log.a[j] = <<"learn", log.a[i][2]>>
    => Identical

\* rtmap-diff reports what differs, and only that.
DiffExact == NothingHidden /\ RepeatIdentical
=============================================================================
