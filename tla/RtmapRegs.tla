----------------------------- MODULE RtmapRegs -----------------------------
(***************************************************************************)
(* The shadow register file of one thread (src/engine/src/shadow_regs.rs)  *)
(* and the coherence check that the WRITE handler of reconciler.rs makes   *)
(* for it, with the cache-line tracker of world.rs that gates the check.   *)
(* The files of different threads do not interact, so one is modelled; all *)
(* threads write memory.                                                   *)
(*                                                                         *)
(* Registers are named by the class the ABI tables put them in.            *)
(* Provenance, sequence numbers and pcs are carried for display only and   *)
(* left out, and so is observe_write: the handler asks for the function    *)
(* that contains the data address that was written, and there is none.     *)
(* Memory is a few bytes of Base values each; an integer of n bytes is     *)
(* little endian.                                                          *)
(***************************************************************************)
EXTENDS Naturals, Sequences, FiniteSets

CONSTANTS
    RegThreads, Watched,   \* Watched: the thread whose registers these are
    Bytes,              \* the addresses written and loaded: an interval
    Base,               \* values of a byte
    Word,               \* bytes of a register (8)
    LoadSizes,          \* bytes of a load and
    StoreSizes,         \* of a store; more than Word is wide
    LineSize, ClSlots,  \* bytes of a cache line (64), CL_SLOTS
    WriterBits,         \* bits of the writer mask (16)
    MaxCount,           \* where the counts of a slot saturate
    MaxCalls, MaxOps    \* bounds on calls in progress and on events

ASSUME RegsAssumption ==
    /\ Watched \in RegThreads /\ RegThreads \subseteq Nat /\ Bytes \subseteq Nat \ {0}
    /\ LoadSizes \subseteq 1..Word /\ StoreSizes \subseteq Nat \ {0} /\ Word \in Nat /\ Base \in Nat \ {0}
    /\ LineSize > 0 /\ ClSlots > 0 /\ WriterBits > 0 /\ MaxCount > 0

CalleeSaved == {"rbx"}
CallerSaved == {"rax", "rcx"}
Regs == CalleeSaved \cup CallerSaved \cup {"rsp", "rip"}

\* Confidence
Unknown == 0
Stale == 1
Speculative == 2
AbiInferred == 4
CfiVerified == 5
Observed == 6

VARIABLES
    mem,        \* the bytes, as the events tell them
    regs,       \* regs of ShadowRegisterFile
    callStack,  \* call_stack: the registers saved by each CALL
    cl,         \* slot -> [line, total, per] (ClSlot)
    cfi,        \* the CFI table has an entry for the callees' pcs
    ops

regVars == <<mem, regs, callStack, cl, cfi, ops>>

-----------------------------------------------------------------------------
(* Memory and the cache-line tracker.                                      *)

Within(a, n) == a..(a + n - 1)
\* the end of the source taken as inclusive, and as it is
OverlapInclusive(a, n, b, m) == a <= b + m /\ b < a + n
Overlap(a, n, b, m) == a < b + m /\ b < a + n

\* the n low bytes at a as a number
Value(m, a, n) ==
    LET v[i \in 0..n] == IF i = 0 THEN 0 ELSE Base * v[i - 1] + m[a + n - i]
    IN v[n]

Bit(t) == t % WriterBits
Slot(a) == (a \div LineSize) % ClSlots
Capped(n) == IF n > MaxCount THEN MaxCount ELSE n
Writers(s) == {b \in DOMAIN s.per : s.per[b] > 0}

\* record_write: a slot that holds another line is taken over
RecordClWrite(c, a, t) ==
    LET line == a \div LineSize
        old == IF c[Slot(a)].line = line THEN c[Slot(a)]
               ELSE [line |-> line, total |-> 0, per |-> [b \in 0..(WriterBits - 1) |-> 0]]
    IN [c EXCEPT ![Slot(a)] = [old EXCEPT !.total = Capped(@ + 1), !.per[Bit(t)] = Capped(@ + 1)]]

\* tick: counts are halved, a slot that reaches zero is free
Decayed(s) ==
    IF s.total \div 2 = 0
    THEN [line |-> 0, total |-> 0, per |-> [b \in DOMAIN s.per |-> 0]]
    ELSE [s EXCEPT !.total = @ \div 2, !.per = [b \in DOMAIN @ |-> @[b] \div 2]]

-----------------------------------------------------------------------------
(* The registers.  src = 0 stands for mem_source = None.  Two fields are   *)
(* history: missed, that a write to the source went by without a check or  *)
(* was compared as a part of the source with the whole; hit, that another  *)
(* thread's write to the source was checked.                               *)

\* ShadowReg::set
Set(val, conf) ==
    [val |-> val, conf |-> conf, src |-> 0, size |-> 0, missed |-> FALSE, hit |-> FALSE]

\* on_call
AfterCall(rs) ==
    [r \in Regs |->
        CASE r = "rsp" -> Set(0, Observed)
          [] r \in CalleeSaved /\ rs[r].conf >= Speculative -> Set(rs[r].val, AbiInferred)
          [] r \in CallerSaved -> Set(rs[r].val, Speculative)
          [] OTHER -> rs[r]]

\* on_return: rax is the callee's result, everything else that the ABI names
\* is what it was at the call
AfterReturn(rs, saved) ==
    [r \in Regs |->
        CASE r = "rax" -> Set(rs[r].val, Speculative)
          [] r \in CalleeSaved \cup (CallerSaved \ {"rax"}) -> saved[r]
          [] OTHER -> rs[r]]

\* on_return_cfi
Verified(rs) ==
    [r \in Regs |->
        IF r \in CalleeSaved /\ rs[r].conf >= Speculative /\ rs[r].conf < Observed
        THEN [rs[r] EXCEPT !.conf = CfiVerified] ELSE rs[r]]

Touches(a, n, r) == r.src # 0 /\ Within(a, n) \cap Within(r.src, r.size) # {}

\* check_coherence for one register: a write that overlaps its source and
\* is wide or has another value makes it stale
Checked(r, a, n, val) ==
    [r EXCEPT !.hit = @ \/ Touches(a, n, r),
              !.missed = @ \/ (Touches(a, n, r) /\ n <= Word /\ <<a, n>> # <<r.src, r.size>>),
              !.conf = IF /\ r.src # 0 /\ Overlap(a, n, r.src, r.size)
                          /\ (n > Word \/ r.val # val) /\ @ > Stale
                       THEN Stale ELSE @]

\* a write that is not checked against a register, current or saved
Passed(r, a, n) == [r EXCEPT !.missed = @ \/ Touches(a, n, r)]

-----------------------------------------------------------------------------
RegInit ==
    /\ mem = [b \in Bytes |-> 0]
    /\ regs = [r \in Regs |-> Set(0, Unknown)]
    /\ callStack = <<>>
    /\ cl = [s \in 0..(ClSlots - 1) |->
                [line |-> 0, total |-> 0, per |-> [b \in 0..(WriterBits - 1) |-> 0]]]
    /\ cfi \in BOOLEAN /\ ops = 0

Step == ops < MaxOps /\ ops' = ops + 1 /\ UNCHANGED cfi

\* REG_SNAPSHOT of the watched thread
Snapshot ==
    /\ Step
    /\ \E v \in 0..(Base - 1) : regs' = [r \in Regs |-> Set(v, Observed)]
    /\ UNCHANGED <<mem, callStack, cl>>

RegCall ==
    /\ Step /\ Len(callStack) < MaxCalls
    /\ callStack' = Append(callStack, regs) /\ regs' = AfterCall(regs)
    /\ UNCHANGED <<mem, cl>>

\* a RETURN with no CALL on the stack changes nothing
RegReturn ==
    /\ Step
    /\ IF callStack = <<>> THEN UNCHANGED <<regs, callStack>>
       ELSE LET back == AfterReturn(regs, callStack[Len(callStack)])
            IN /\ regs' = IF cfi THEN Verified(back) ELSE back
               /\ callStack' = SubSeq(callStack, 1, Len(callStack) - 1)
    /\ UNCHANGED <<mem, cl>>

\* RELOAD: a load of n bytes at a into a register
Reload(r, a, n) ==
    /\ Step /\ Within(a, n) \subseteq Bytes
    /\ regs' = [regs EXCEPT ![r] = [Set(Value(mem, a, n), Observed) EXCEPT !.src = a, !.size = n]]
    /\ UNCHANGED <<mem, callStack, cl>>

\* WRITE of n equal bytes at a by thread t.  A truncated event carries no value and
\* is not checked; the rest of a wide write follows as continuations, which
\* only count for the cache lines.  The check is for the other threads'
\* registers, and only when the line has more than one writer.
RegWrite(t, a, n, byte, truncated) ==
    LET new == [b \in Bytes |-> IF b \in Within(a, n) THEN byte ELSE mem[b]]
        first == RecordClWrite(cl, a, t)
        val == Value(new, a, IF n < Word THEN n ELSE Word)
        checked == ~truncated /\ Cardinality(Writers(first[Slot(a)])) > 1 /\ t # Watched
    IN /\ Step /\ Within(a, n) \subseteq Bytes
       /\ mem' = new
       /\ cl' = IF n > Word THEN RecordClWrite(first, a + Word, t) ELSE first
       /\ regs' = [r \in Regs |-> IF checked THEN Checked(regs[r], a, n, val)
                                  ELSE Passed(regs[r], a, n)]
       /\ callStack' = [i \in DOMAIN callStack |-> [r \in Regs |-> Passed(callStack[i][r], a, n)]]

\* cl_tracker_tick, every 4096 events
Tick ==
    /\ Step
    /\ cl' = [s \in DOMAIN cl |-> Decayed(cl[s])]
    /\ UNCHANGED <<mem, regs, callStack>>

RegNext ==
    \/ Snapshot \/ RegCall \/ RegReturn \/ Tick
    \/ \E a \in Bytes, n \in LoadSizes, r \in CalleeSaved \cup CallerSaved : Reload(r, a, n)
    \/ \E t \in RegThreads, a \in Bytes, n \in StoreSizes, byte \in 0..(Base - 1), tr \in BOOLEAN :
          RegWrite(t, a, n, byte, tr)

RegSpec == RegInit /\ [][RegNext]_regVars

-----------------------------------------------------------------------------
(* Properties.                                                             *)

\* What a confidence says of a register that was loaded from memory: while it
\* is better than Stale the register still has the value of its source,
\* unless a write to the source was one of those the engine does not check
\* (the thread's own, one to a line with a single writer or whose writers
\* share a bit, a truncated one, one during a call, one that covers only a
\* part); and it is Stale only if another thread did write to the source.
CoherenceExplained ==
    \A r \in Regs :
        /\ regs[r].src # 0 /\ regs[r].conf > Stale /\ ~regs[r].missed =>
              regs[r].val = Value(mem, regs[r].src, regs[r].size)
        /\ regs[r].conf = Stale => regs[r].hit

=============================================================================
