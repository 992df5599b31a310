-------------------------- MODULE RtmapRing_proofs --------------------------
(***************************************************************************)
(* Theorems about RtmapRing, for every capacity, flush period, batch limit *)
(* and traced program: type correctness, the order of the cursors, the     *)
(* accounting of consume_batch, retirement, the refinement of              *)
(* EventChannel; what happens to an event the thread offers: it is         *)
(* counted, and delivered as it was written; and what the engine may       *)
(* conclude from the stream: snapshots are whole and gaps have a cause.    *)
(***************************************************************************)
EXTENDS RtmapRing, SequenceTheorems, TLAPS

(* A push in progress has an item to push, and has spent its sequence      *)
(* number before it writes.                                                *)
PushShape == /\ pc \in {"push", "slot", "publish"} => todo # <<>>
             /\ pc = "slot" => seqC >= 1

TInv == TypeOK /\ PushShape

USE CapacityAssumption, FlushAssumption, RunAssumption, BatchAssumption,
    RdBufAssumption, OpsAssumption

-----------------------------------------------------------------------------
(* Operators.                                                              *)

(* Writing a run of events into the ring memory leaves events in it.       *)
LEMMA PutRunType ==
    ASSUME slots \in [0..(Capacity - 1) -> Event],
           NEW p \in Int, NEW run \in Seq(Event)
    PROVE  PutRun(p, run) \in [0..(Capacity - 1) -> Event]
<1> SUFFICES ASSUME NEW i \in 0..(Capacity - 1)
             PROVE  (IF (i - p) % Capacity < Len(run)
                     THEN run[((i - p) % Capacity) + 1] ELSE slots[i]) \in Event
    BY DEF PutRun
<1>1. (i - p) % Capacity \in 0..(Capacity - 1)
    OBVIOUS
<1> QED
    BY <1>1

(* The constructor builds events.                                          *)
LEMMA EvType ==
    ASSUME NEW p \in Nat, NEW k \in Kinds, NEW o \in Nat,
           NEW d \in Domains, NEW s \in Nat
    PROVE  /\ Ev(p, k, o, d, s) \in Event
           /\ <<Ev(p, k, o, d, s)>> \in Seq(Event)
BY DEF Ev, Event

(* The runs that pushes and wide writes lay down are sequences of events.  *)
LEMMA RunTypes ==
    /\ \A it \in Items, p \in Nat, s \in Nat : ItemRun(it, p, s) \in Seq(Event)
    /\ scratch1 \in Nat => ContRun \in Seq(Event)
<1>1. ASSUME NEW it \in Items, NEW p \in Nat, NEW s \in Nat
      PROVE  ItemRun(it, p, s) \in Seq(Event)
  <2>1. ItemSlots(it) \in Nat
    BY DEF ItemSlots
  <2>2. \A k \in 1..ItemSlots(it) :
           Ev(p + k - 1, ItemKind(it), k - 1, "clean", IF k = 1 THEN s ELSE 0) \in Event
    BY <2>1 DEF Ev, Event, ItemKind, Items, Kinds, Domains
  <2> QED
    BY <2>1, <2>2, SeqDef DEF ItemRun
<1>2. ASSUME scratch1 \in Nat PROVE ContRun \in Seq(Event)
  <2>1. \A k \in 1..(WideSlots - 1) :
           Ev(scratch1 + k, "cont", k, "inline", 0) \in Event
    BY <1>2 DEF Ev, Event, Kinds, Domains
  <2> QED
    BY <2>1, SeqDef DEF ContRun
<1> QED
    BY <1>1, <1>2

(* The same for a single event.                                            *)
LEMMA PutOneType ==
    ASSUME slots \in [0..(Capacity - 1) -> Event],
           NEW p \in Int, NEW e \in Event
    PROVE  PutRun(p, <<e>>) \in [0..(Capacity - 1) -> Event]
<1> DEFINE run == <<e>>
<1>1. run \in Seq(Event)
    OBVIOUS
<1> HIDE DEF run
<1>2. PutRun(p, run) \in [0..(Capacity - 1) -> Event]
    BY <1>1, PutRunType
<1> QED
    BY <1>2 DEF run

(* The counters that several actions touch at once.                        *)
LEMMA StatFields ==
    /\ "faults" \in StatNames /\ "abandoned" \in StatNames
    /\ "dropped" \in StatNames
    /\ "refused" \in StatNames
    /\ "offered" \in StatNames
BY DEF StatNames

(* Adding to one counter, and one more to another on some condition.       *)
LEMMA AddTwo ==
    ASSUME NEW s \in [StatNames -> Nat], NEW f \in StatNames, NEW g \in StatNames,
           NEW c
    PROVE  [s EXCEPT ![f] = @ + 1, ![g] = @ + (IF c THEN 1 ELSE 0)] \in [StatNames -> Nat]
<1>1. [s EXCEPT ![f] = @ + 1] \in [StatNames -> Nat]
    OBVIOUS
<1>2. CASE c
    BY <1>1, <1>2
<1>3. CASE ~c
    BY <1>1, <1>3
<1> QED
    BY <1>2, <1>3

(* Counting keeps the counters natural.                                    *)
LEMMA BumpType ==
    ASSUME HistoryOK, NEW f \in StatNames, Bump(f) \/ BumpSkipped(f)
    PROVE  stat' \in [StatNames -> Nat]
<1>1. \A s \in [StatNames -> Nat], g \in StatNames :
         [s EXCEPT ![g] = @ + 1] \in [StatNames -> Nat]
    OBVIOUS
<1>2. "offered" \in StatNames
    BY DEF StatNames
<1>3. CASE Bump(f)
    BY <1>1, <1>3 DEF HistoryOK, Bump
<1>4. CASE BumpSkipped(f)
  <2>1. [stat EXCEPT ![f] = @ + 1] \in [StatNames -> Nat]
    BY <1>1 DEF HistoryOK
  <2> QED
    BY <1>1, <1>2, <1>4, <2>1 DEF BumpSkipped
<1> QED
    BY <1>3, <1>4

(* Positions are natural numbers.                                          *)
LEMMA UnwrittenType ==
    ASSUME NEW lo \in Nat, NEW hi \in Nat
    PROVE  Unwritten(lo, hi) \in SUBSET Nat
BY DEF Unwritten

(* An inline path publishes a natural head.                                *)
LEMMA CommitType ==
    ASSUME SharedOK, ThreadOK, CommitInline
    PROVE  seqI' \in Nat /\ cached' \in Nat /\ head' \in Nat
BY DEF SharedOK, ThreadOK, CommitInline

(* A clean call publishes the cached head and has something to push.       *)
LEMMA CleanCallType ==
    ASSUME TInv, pc \in {"run", "write"},
           NEW items \in Seq(Items), items # <<>>, CleanCall(items)
    PROVE  /\ head' \in Nat /\ bp' \in 0..2
           /\ todo' \in Seq(Items) /\ todo' # <<>>
           /\ pc' = "push" /\ ret' \in {"run", "write"}
<1>1. head' \in Nat /\ bp' \in 0..2
    BY DEF TInv, TypeOK, SharedOK, ThreadOK, CleanCall, MirrorBp
<1> QED
    BY <1>1 DEF CleanCall

(* After a push the handler pushes its next item or returns.               *)
LEMMA NextItemType ==
    ASSUME TInv, todo # <<>>, NextItem
    PROVE  /\ todo' \in Seq(Items)
           /\ pc' \in {"push", "run", "write"}
           /\ pc' = "push" => todo' # <<>>
           /\ ret' \in {"run", "write"}
<1>1. Tail(todo) \in Seq(Items)
    BY DEF TInv, TypeOK, ControlOK
<1>2. ret \in {"run", "write"}
    BY DEF TInv, TypeOK, ControlOK
<1> QED
    BY <1>1, <1>2 DEF NextItem

(* The item a push works on.                                               *)
LEMMA HeadItem ==
    ASSUME TInv, todo # <<>>
    PROVE  Head(todo) \in Items /\ ItemSlots(Head(todo)) \in Nat \ {0}
<1>1. Head(todo) \in Items
    BY DEF TInv, TypeOK, ControlOK
<1> QED
    BY <1>1 DEF ItemSlots

(* The initial state.                                                      *)
LEMMA TInvInit == Init => TInv
<1> SUFFICES ASSUME Init PROVE TInv
    OBVIOUS
<1>1. ZeroEvent \in Event
    BY DEF ZeroEvent, Ev, Event, Kinds, Domains
<1>2. SharedOK
  <2>1. slots \in [0..(Capacity - 1) -> Event]
    BY <1>1 DEF Init
  <2>2. phase \in {"BOOT", "TRACE"}
    BY DEF Init
  <2>3. head \in Nat /\ tail \in Nat /\ backpressure \in 0..2 /\ modphase \in 1..2
    BY DEF Init
  <2>4. terminal \in BOOLEAN
    BY DEF Init
  <2> QED
    BY <2>1, <2>2, <2>3, <2>4 DEF SharedOK
<1>3. ThreadOK
    BY DEF Init, ThreadOK
<1>4. ControlOK
  <2>1. todo \in Seq(Items)
    BY DEF Init
  <2> QED
    BY <2>1 DEF Init, ControlOK
<1>5. EngineOK
    BY DEF Init, EngineOK
<1>6. HistoryOK
    BY DEF Init, HistoryOK
<1>7. PushShape
    BY DEF Init, PushShape
<1> QED
    BY <1>2, <1>3, <1>4, <1>5, <1>6, <1>7 DEF TInv, TypeOK

(* Steps that leave a group of variables alone keep its types.             *)
LEMMA Frame ==
    ASSUME TInv
    PROVE  /\ UNCHANGED shared => SharedOK'
           /\ UNCHANGED thread => ThreadOK'
           /\ UNCHANGED control => ControlOK' /\ (seqC' = seqC => PushShape')
           /\ UNCHANGED engine => EngineOK'
           /\ UNCHANGED history => HistoryOK'
<1>1. UNCHANGED shared => SharedOK'
    BY DEF TInv, TypeOK, SharedOK, shared
<1>2. UNCHANGED thread => ThreadOK'
    BY DEF TInv, TypeOK, ThreadOK, thread
<1>3. UNCHANGED control => ControlOK'
    BY DEF TInv, TypeOK, ControlOK, control
<1>4. UNCHANGED control /\ seqC' = seqC => PushShape'
    BY DEF TInv, PushShape, TypeOK, ThreadOK, control
<1>5. UNCHANGED engine => EngineOK'
    BY DEF TInv, TypeOK, EngineOK, engine
<1>6. UNCHANGED history => HistoryOK'
    BY DEF TInv, TypeOK, HistoryOK, history
<1> QED
    BY <1>1, <1>2, <1>3, <1>4, <1>5, <1>6

(* tripwire_hit                                                            *)
LEMMA TripwireHitTInv ==
    ASSUME TInv, TripwireHit
    PROVE  TInv'
<1>1. ThreadOK' /\ ControlOK' /\ EngineOK' /\ HistoryOK'
    BY Frame DEF TripwireHit
<1>2. SharedOK'
    BY DEF TInv, TypeOK, SharedOK, TripwireHit
<1>3. PushShape'
    BY Frame DEF TripwireHit, thread
<1> QED
    BY <1>1, <1>2, <1>3 DEF TInv, TypeOK

(* emit_bb_entry                                                           *)
LEMMA BbEntryTInv ==
    ASSUME TInv, BbEntry
    PROVE  TInv'
<1>1. ThreadOK' /\ EngineOK'
    BY Frame DEF BbEntry
<1>2. SharedOK'
  <2>1. Ev(cached, "one", 0, "inline", seqI) \in Event
    BY EvType DEF TInv, TypeOK, ThreadOK, Kinds, Domains
  <2>2. PutRun(cached, <<Ev(cached, "one", 0, "inline", seqI)>>) \in [0..(Capacity - 1) -> Event]
    BY <2>1, PutOneType DEF TInv, TypeOK, SharedOK, ThreadOK
  <2>3. slots' \in [0..(Capacity - 1) -> Event]
    BY <2>2 DEF TInv, TypeOK, SharedOK, BbEntry
  <2> QED
    BY <2>3 DEF TInv, TypeOK, SharedOK, BbEntry
<1>3. ControlOK'
    BY DEF TInv, TypeOK, ControlOK, BbEntry, Point
<1>4. HistoryOK'
  <2>1. stat' \in [StatNames -> Nat]
    BY BumpType DEF TInv, TypeOK, BbEntry, StatNames
  <2> QED
    BY <2>1 DEF TInv, TypeOK, HistoryOK, BbEntry
<1>5. PushShape'
    BY DEF TInv, TypeOK, PushShape, BbEntry, thread
<1> QED
    BY <1>1, <1>2, <1>3, <1>4, <1>5 DEF TInv, TypeOK

(* the rest of emit_bb_entry                                               *)
LEMMA BbCommitTInv ==
    ASSUME TInv, BbCommit
    PROVE  TInv'
<1>1. EngineOK' /\ HistoryOK'
    BY Frame DEF BbCommit
<1>2. seqI' \in Nat /\ cached' \in Nat /\ head' \in Nat
    BY CommitType DEF TInv, TypeOK, BbCommit
<1>3. SharedOK'
    BY <1>2 DEF TInv, TypeOK, SharedOK, BbCommit
<1>4. ThreadOK'
    BY <1>2 DEF TInv, TypeOK, ThreadOK, BbCommit
<1>5. ControlOK'
    BY DEF TInv, TypeOK, ControlOK, BbCommit
<1>6. PushShape'
    BY DEF TInv, TypeOK, PushShape, BbCommit
<1> QED
    BY <1>1, <1>2, <1>3, <1>4, <1>5, <1>6 DEF TInv, TypeOK

(* emit_pre_write                                                          *)
LEMMA PreWriteTInv ==
    ASSUME TInv, NEW w \in BOOLEAN, PreWrite(w)
    PROVE  TInv'
<1>1. EngineOK'
    BY Frame DEF PreWrite
<1>2. SharedOK'
  <2>1. Ev(cached, IF w THEN "wide" ELSE "one", 0, "inline", seqI) \in Event
    BY EvType DEF TInv, TypeOK, ThreadOK, Kinds, Domains
  <2>2. PutRun(cached, <<Ev(cached, IF w THEN "wide" ELSE "one", 0, "inline", seqI)>>) \in [0..(Capacity - 1) -> Event]
    BY <2>1, PutOneType DEF TInv, TypeOK, SharedOK, ThreadOK
  <2>3. slots' \in [0..(Capacity - 1) -> Event]
    BY <2>2 DEF TInv, TypeOK, SharedOK, PreWrite
  <2> QED
    BY <2>3 DEF TInv, TypeOK, SharedOK, PreWrite
<1>3. ThreadOK'
    BY DEF TInv, TypeOK, ThreadOK, PreWrite
<1>4. ControlOK'
    BY DEF TInv, TypeOK, ControlOK, PreWrite, Point
<1>5. HistoryOK'
  <2>1. stat' \in [StatNames -> Nat]
    BY BumpType DEF TInv, TypeOK, PreWrite, StatNames
  <2> QED
    BY <2>1 DEF TInv, TypeOK, HistoryOK, PreWrite
<1>6. PushShape'
    BY DEF TInv, TypeOK, PushShape, PreWrite
<1> QED
    BY <1>1, <1>2, <1>3, <1>4, <1>5, <1>6 DEF TInv, TypeOK

(* A faulting store                                                        *)
LEMMA StoreFaultsTInv ==
    ASSUME TInv, StoreFaults
    PROVE  TInv'
<1>1. SharedOK' /\ ThreadOK' /\ EngineOK'
    BY Frame DEF StoreFaults
<1>2. ControlOK'
    BY DEF TInv, TypeOK, ControlOK, StoreFaults, Point
<1>3. HistoryOK'
  <2>1. stat' \in [StatNames -> Nat]
    BY StatFields, AddTwo DEF TInv, TypeOK, HistoryOK, StoreFaults
  <2> QED
    BY <2>1 DEF TInv, TypeOK, HistoryOK, StoreFaults
<1>4. PushShape'
    BY DEF TInv, TypeOK, PushShape, StoreFaults, thread
<1> QED
    BY <1>1, <1>2, <1>3, <1>4 DEF TInv, TypeOK

(* emit_post_write up to the value                                         *)
LEMMA PostWriteTInv ==
    ASSUME TInv, PostWrite
    PROVE  TInv'
<1>1. EngineOK'
    BY Frame DEF PostWrite
<1>2. cached' \in Nat
    BY DEF TInv, TypeOK, ThreadOK, PostWrite
<1>3. SharedOK'
  <2>1. scratch1 # NoSlot => scratch1 \in Nat
    BY DEF TInv, TypeOK, ThreadOK
  <2>2. slots' \in [0..(Capacity - 1) -> Event]
    BY <2>1, PutRunType, RunTypes DEF TInv, TypeOK, SharedOK, PostWrite
  <2> QED
    BY <2>2 DEF TInv, TypeOK, SharedOK, PostWrite
<1>4. ThreadOK'
    BY <1>2 DEF TInv, TypeOK, ThreadOK, PostWrite, Disarm
<1>5. ControlOK'
    BY DEF TInv, TypeOK, ControlOK, PostWrite
<1>6. HistoryOK'
  <2>1. Unwritten(cached, cached') \in SUBSET Nat
    BY <1>2, UnwrittenType DEF TInv, TypeOK, ThreadOK
  <2> QED
    BY <2>1 DEF TInv, TypeOK, HistoryOK, PostWrite
<1>7. PushShape'
    BY DEF TInv, TypeOK, PushShape, PostWrite
<1> QED
    BY <1>1, <1>2, <1>3, <1>4, <1>5, <1>6, <1>7 DEF TInv, TypeOK

(* the rest of emit_post_write                                             *)
LEMMA PostCommitTInv ==
    ASSUME TInv, PostCommit
    PROVE  TInv'
<1>1. EngineOK'
    BY Frame DEF PostCommit
<1>2. seqI' \in Nat /\ cached' \in Nat /\ head' \in Nat
    BY CommitType DEF TInv, TypeOK, PostCommit
<1>3. SharedOK'
    BY <1>2 DEF TInv, TypeOK, SharedOK, PostCommit
<1>4. ThreadOK'
    BY <1>2 DEF TInv, TypeOK, ThreadOK, PostCommit, Disarm
<1>5. ControlOK'
    BY DEF TInv, TypeOK, ControlOK, PostCommit
<1>6. HistoryOK'
  <2>1. Unwritten(cached, cached') \in SUBSET Nat
    BY <1>2, UnwrittenType DEF TInv, TypeOK, ThreadOK
  <2> QED
    BY <2>1 DEF TInv, TypeOK, HistoryOK, PostCommit
<1>7. PushShape'
    BY DEF TInv, TypeOK, PushShape, PostCommit
<1> QED
    BY <1>1, <1>2, <1>3, <1>4, <1>5, <1>6, <1>7 DEF TInv, TypeOK

(* flush_head_cache at the end of a block                                  *)
LEMMA BlockEndTInv ==
    ASSUME TInv, BlockEnd
    PROVE  TInv'
<1>1. ControlOK' /\ EngineOK' /\ HistoryOK'
    BY Frame DEF BlockEnd
<1>2. SharedOK'
    BY DEF TInv, TypeOK, SharedOK, ThreadOK, BlockEnd
<1>3. ThreadOK'
    BY DEF TInv, TypeOK, SharedOK, ThreadOK, BlockEnd, MirrorBp
<1>4. PushShape'
    BY Frame DEF BlockEnd
<1> QED
    BY <1>1, <1>2, <1>3, <1>4 DEF TInv, TypeOK

(* at_call                                                                 *)
LEMMA AtCallTInv ==
    ASSUME TInv, AtCall
    PROVE  TInv'
<1>1. EngineOK' /\ HistoryOK'
    BY Frame DEF AtCall
<1>2. PICK items \in Seq(Items) : items # <<>> /\ CleanCall(items)
  <2>1. PICK load \in Seq(Items) : CleanCall(load \o <<"one", "snap">>)
    <3> DEFINE l == IF modphase = 1 THEN <<"modload">> ELSE <<>>
    <3>0. <<"modload">> \in Seq(Items) /\ <<>> \in Seq(Items)
        BY DEF Items
    <3>1. l \in Seq(Items)
        BY <3>0
    <3>2. CleanCall(l \o <<"one", "snap">>)
        BY DEF AtCall, MaybeModuleLoad
    <3> QED
        BY <3>1, <3>2
  <2>2. <<"one", "snap">> \in Seq(Items) /\ Len(<<"one", "snap">>) = 2
    BY DEF Items
  <2>3. load \o <<"one", "snap">> \in Seq(Items) /\ load \o <<"one", "snap">> # <<>>
    BY <2>2
  <2> QED
    BY <2>1, <2>3
<1>3. /\ head' \in Nat /\ bp' \in 0..2
      /\ todo' \in Seq(Items) /\ todo' # <<>>
      /\ pc' = "push" /\ ret' \in {"run", "write"}
    BY <1>2, CleanCallType DEF AtCall
<1>4. SharedOK'
    BY <1>3 DEF TInv, TypeOK, SharedOK, AtCall
<1>5. ThreadOK'
    BY <1>3 DEF TInv, TypeOK, ThreadOK, AtCall
<1>6. ControlOK'
    BY <1>3 DEF TInv, TypeOK, ControlOK, AtCall, Point
<1>7. PushShape'
    BY <1>3 DEF PushShape
<1> QED
    BY <1>1, <1>2, <1>3, <1>4, <1>5, <1>6, <1>7 DEF TInv, TypeOK

(* at_return, at_tail_call, at_reload and the allocator wrappers           *)
LEMMA PushOneTInv ==
    ASSUME TInv, NEW op, PushOne(op)
    PROVE  TInv'
<1>1. EngineOK' /\ HistoryOK'
    BY Frame DEF PushOne
<1>2. <<"one">> \in Seq(Items) /\ <<"one">> # <<>>
    BY DEF Items
<1>3. /\ head' \in Nat /\ bp' \in 0..2
      /\ todo' \in Seq(Items) /\ todo' # <<>>
      /\ pc' = "push" /\ ret' \in {"run", "write"}
    BY <1>2, CleanCallType DEF PushOne
<1>4. SharedOK'
    BY <1>3 DEF TInv, TypeOK, SharedOK, PushOne
<1>5. ThreadOK'
    BY <1>3 DEF TInv, TypeOK, ThreadOK, PushOne
<1>6. ControlOK'
    BY <1>3 DEF TInv, TypeOK, ControlOK, PushOne, Point
<1>7. PushShape'
    BY <1>3 DEF PushShape
<1> QED
    BY <1>1, <1>2, <1>3, <1>4, <1>5, <1>6, <1>7 DEF TInv, TypeOK

(* at_mem_read_buf                                                         *)
LEMMA AtMemReadBufTInv ==
    ASSUME TInv, NEW it \in {"read", "prio"}, AtMemReadBuf(it)
    PROVE  TInv'
<1>1. SharedOK' /\ EngineOK'
    BY Frame DEF AtMemReadBuf
<1>2. ThreadOK'
    BY DEF TInv, TypeOK, ThreadOK, AtMemReadBuf
<1>3. ControlOK'
    BY DEF TInv, TypeOK, ControlOK, AtMemReadBuf, Point
<1>4. HistoryOK'
  <2>1. stat' \in [StatNames -> Nat]
    BY BumpType DEF TInv, TypeOK, HistoryOK, AtMemReadBuf, StatNames
  <2> QED
    BY <2>1 DEF TInv, TypeOK, HistoryOK, AtMemReadBuf
<1>5. PushShape'
    BY DEF TInv, TypeOK, PushShape, AtMemReadBuf
<1> QED
    BY <1>1, <1>2, <1>3, <1>4, <1>5 DEF TInv, TypeOK

(* flush_read_buf                                                          *)
LEMMA FlushReadBufTInv ==
    ASSUME TInv, FlushReadBuf
    PROVE  TInv'
<1>1. EngineOK' /\ HistoryOK'
    BY Frame DEF FlushReadBuf
<1>2. rdbuf \in Seq(Items) /\ rdbuf # <<>>
  <2>1. rdbuf \in Seq({"read", "prio"}) /\ {"read", "prio"} \subseteq Items
    BY DEF TInv, TypeOK, ThreadOK, Items
  <2> QED
    BY <2>1 DEF FlushReadBuf
<1>3. /\ head' \in Nat /\ bp' \in 0..2
      /\ todo' \in Seq(Items) /\ todo' # <<>>
      /\ pc' = "push" /\ ret' \in {"run", "write"}
    BY <1>2, CleanCallType DEF FlushReadBuf
<1>4. SharedOK'
    BY <1>3 DEF TInv, TypeOK, SharedOK, FlushReadBuf
<1>5. ThreadOK'
    BY <1>3 DEF TInv, TypeOK, ThreadOK, FlushReadBuf
<1>6. ControlOK'
    BY <1>3 DEF TInv, TypeOK, ControlOK, FlushReadBuf
<1>7. PushShape'
    BY <1>3 DEF PushShape
<1> QED
    BY <1>1, <1>2, <1>3, <1>4, <1>5, <1>6, <1>7 DEF TInv, TypeOK

(* A push up to its full check                                             *)
LEMMA PushCheckTInv ==
    ASSUME TInv, PushCheck
    PROVE  TInv'
<1>1. SharedOK' /\ EngineOK'
    BY Frame DEF PushCheck
<1>2. todo # <<>>
    BY DEF TInv, PushShape, PushCheck
<1>3. \/ NextItem /\ MirrorBp
      \/ pc' = "slot" /\ UNCHANGED <<todo, ret, bp>>
    BY DEF PushCheck
<1>4. ThreadOK'
    BY SMTT(30), <1>3 DEF TInv, TypeOK, SharedOK, ThreadOK, PushCheck, MirrorBp
<1>5. /\ todo' \in Seq(Items)
      /\ pc' \in {"push", "run", "write", "slot"}
      /\ pc' \in {"push", "slot"} => todo' # <<>>
      /\ ret' \in {"run", "write"}
    BY <1>2, <1>3, NextItemType DEF TInv, TypeOK, ControlOK
<1>6. ControlOK'
    BY <1>5 DEF TInv, TypeOK, ControlOK, PushCheck
<1>7. HistoryOK'
  <2>1. stat' \in [StatNames -> Nat]
    <3>1. [stat EXCEPT !.dropped = @ + 1] \in [StatNames -> Nat]
        BY StatFields DEF TInv, TypeOK, HistoryOK
    <3>2. [stat EXCEPT !.refused = @ + 1] \in [StatNames -> Nat]
        BY StatFields DEF TInv, TypeOK, HistoryOK
    <3> QED
        BY <3>1, <3>2 DEF TInv, TypeOK, HistoryOK, PushCheck
  <2> QED
    BY <2>1 DEF TInv, TypeOK, HistoryOK, PushCheck
<1>8. PushShape'
    BY <1>5 DEF TInv, TypeOK, ThreadOK, PushShape, PushCheck
<1> QED
    BY <1>1, <1>2, <1>3, <1>4, <1>5, <1>6, <1>7, <1>8 DEF TInv, TypeOK

(* The plain stores of a push                                              *)
LEMMA PushSlotTInv ==
    ASSUME TInv, PushSlot
    PROVE  TInv'
<1>1. ThreadOK' /\ EngineOK' /\ HistoryOK'
    BY Frame DEF PushSlot
<1>2. Head(todo) \in Items /\ todo # <<>>
    BY HeadItem DEF TInv, PushShape, PushSlot
<1>3. seqC - 1 \in Nat
    BY DEF TInv, TypeOK, ThreadOK, PushShape, PushSlot
<1>4. SharedOK'
  <2>1. ItemRun(Head(todo), head, seqC - 1) \in Seq(Event)
    BY <1>2, <1>3, RunTypes DEF TInv, TypeOK, SharedOK
  <2>2. slots' \in [0..(Capacity - 1) -> Event]
    BY <2>1, PutRunType DEF TInv, TypeOK, SharedOK, PushSlot
  <2> QED
    BY <2>2 DEF TInv, TypeOK, SharedOK, PushSlot
<1>5. ControlOK'
    BY DEF TInv, TypeOK, ControlOK, PushSlot
<1>6. PushShape'
    BY <1>2 DEF PushShape, PushSlot
<1> QED
    BY <1>1, <1>2, <1>3, <1>4, <1>5, <1>6 DEF TInv, TypeOK

(* The release store of a push                                             *)
LEMMA PushPublishTInv ==
    ASSUME TInv, PushPublish
    PROVE  TInv'
<1>1. EngineOK' /\ HistoryOK'
    BY Frame DEF PushPublish
<1>2. todo # <<>>
    BY DEF TInv, PushShape, PushPublish
<1>3. head' \in Nat
    BY <1>2, HeadItem DEF TInv, TypeOK, SharedOK, PushPublish
<1>4. /\ todo' \in Seq(Items)
      /\ pc' \in {"push", "run", "write"}
      /\ pc' = "push" => todo' # <<>>
      /\ ret' \in {"run", "write"}
    BY <1>2, NextItemType DEF PushPublish
<1>5. SharedOK'
    BY <1>3 DEF TInv, TypeOK, SharedOK, PushPublish
<1>6. ThreadOK'
    BY <1>3 DEF TInv, TypeOK, SharedOK, ThreadOK, PushPublish, SyncHead, MirrorBp
<1>7. ControlOK'
    BY <1>4 DEF TInv, TypeOK, ControlOK, PushPublish
<1>8. PushShape'
    BY <1>4 DEF PushShape
<1> QED
    BY <1>1, <1>2, <1>3, <1>4, <1>5, <1>6, <1>7, <1>8 DEF TInv, TypeOK

(* event_pre_syscall                                                       *)
LEMMA PreSyscallTInv ==
    ASSUME TInv, NEW exit \in BOOLEAN, PreSyscall(exit)
    PROVE  TInv'
<1>1. ThreadOK' /\ EngineOK' /\ HistoryOK'
    BY Frame DEF PreSyscall
<1>2. SharedOK'
    BY DEF TInv, TypeOK, SharedOK, ThreadOK, PreSyscall
<1>3. ControlOK'
    BY DEF TInv, TypeOK, ControlOK, PreSyscall, Point
<1>4. PushShape'
    BY DEF PushShape, PreSyscall
<1> QED
    BY <1>1, <1>2, <1>3, <1>4 DEF TInv, TypeOK

(* event_post_syscall                                                      *)
LEMMA PostSyscallTInv ==
    ASSUME TInv, PostSyscall
    PROVE  TInv'
<1>1. SharedOK' /\ ThreadOK' /\ EngineOK' /\ HistoryOK'
    BY Frame DEF PostSyscall
<1>2. <<"one">> \in Seq(Items) /\ <<"one">> # <<>>
    BY DEF Items
<1>3. ControlOK'
    BY <1>2 DEF TInv, TypeOK, ControlOK, PostSyscall
<1>4. PushShape'
    BY <1>2 DEF PushShape, PostSyscall
<1> QED
    BY <1>1, <1>2, <1>3, <1>4 DEF TInv, TypeOK

(* The TERMINAL stores                                                     *)
LEMMA SetTerminalTInv ==
    ASSUME TInv, SetTerminal
    PROVE  TInv'
<1>1. ThreadOK' /\ EngineOK' /\ HistoryOK'
    BY Frame DEF SetTerminal
<1>2. SharedOK'
    BY DEF TInv, TypeOK, SharedOK, SetTerminal
<1>3. ControlOK'
    BY DEF TInv, TypeOK, ControlOK, SetTerminal
<1>4. PushShape'
    BY DEF PushShape, SetTerminal
<1> QED
    BY <1>1, <1>2, <1>3, <1>4 DEF TInv, TypeOK

(* event_thread_exit                                                       *)
LEMMA ThreadExitTInv ==
    ASSUME TInv, ThreadExit
    PROVE  TInv'
<1>1. EngineOK'
    BY Frame DEF ThreadExit
<1>2. SharedOK'
    BY DEF TInv, TypeOK, SharedOK, ThreadOK, ThreadExit
<1>3. ThreadOK'
    BY DEF TInv, TypeOK, SharedOK, ThreadOK, ThreadExit, MirrorBp
<1>4. ControlOK'
    BY DEF TInv, TypeOK, ControlOK, ThreadExit
<1>5. HistoryOK'
    BY DEF TInv, TypeOK, HistoryOK, ThreadExit, StatNames
<1>6. PushShape'
    BY DEF PushShape, ThreadExit
<1> QED
    BY <1>1, <1>2, <1>3, <1>4, <1>5, <1>6 DEF TInv, TypeOK

(* consume_batch up to the copy                                            *)
LEMMA ConsumeStartTInv ==
    ASSUME TInv, ConsumeStart
    PROVE  TInv'
<1>1. SharedOK' /\ ThreadOK' /\ ControlOK' /\ HistoryOK'
    BY Frame DEF ConsumeStart
<1>2. EngineOK'
    BY DEF TInv, TypeOK, SharedOK, EngineOK, ConsumeStart, Min2
<1>3. PushShape'
    BY Frame DEF ConsumeStart, thread
<1> QED
    BY <1>1, <1>2, <1>3 DEF TInv, TypeOK

(* The copy loop of consume_batch                                          *)
LEMMA CopySlotTInv ==
    ASSUME TInv, CopySlot
    PROVE  TInv'
<1>1. SharedOK' /\ ThreadOK' /\ ControlOK' /\ HistoryOK'
    BY Frame DEF CopySlot
<1>2. slots[CopyIndex] \in Event
    BY DEF TInv, TypeOK, SharedOK, EngineOK, CopyIndex
<1>3. RunSlots(slots[CopyIndex]) \in Nat \ {0}
    BY DEF RunSlots
<1>4. out' \in Seq(Event) /\ runTail' \in Nat
  <2>1. out' \in {out, Append(out, slots[CopyIndex])}
    BY DEF CopySlot
  <2>2. out' \in Seq(Event)
    BY <1>2, <2>1 DEF TInv, TypeOK, EngineOK
  <2>3. runTail' \in {runTail, (IF runTail = 0 THEN RunSlots(slots[CopyIndex]) ELSE runTail) - 1}
    BY DEF CopySlot
  <2>4. runTail' \in Nat
    BY <1>3, <2>3 DEF TInv, TypeOK, EngineOK
  <2> QED
    BY <2>2, <2>4
<1>5. EngineOK'
    BY <1>4 DEF TInv, TypeOK, EngineOK, CopySlot
<1>6. PushShape'
    BY Frame DEF CopySlot, thread
<1> QED
    BY <1>1, <1>2, <1>3, <1>4, <1>5, <1>6 DEF TInv, TypeOK

(* The second head check of consume_batch                                  *)
LEMMA RecheckTInv ==
    ASSUME TInv, Recheck
    PROVE  TInv'
<1>1. ThreadOK' /\ ControlOK'
    BY Frame DEF Recheck
<1>2. tail' \in Nat /\ lapped' \in Nat /\ delivered' \in Nat
    BY SMTT(30) DEF TInv, TypeOK, SharedOK, EngineOK, Recheck, LappedSince, LossSince
<1>3. SharedOK'
    BY <1>2 DEF TInv, TypeOK, SharedOK, Recheck
<1>4. EngineOK'
    BY <1>2 DEF TInv, TypeOK, EngineOK, Recheck
<1>5. HistoryOK'
    BY DEF TInv, TypeOK, HistoryOK, Recheck
<1>6. PushShape'
    BY Frame DEF Recheck, thread
<1> QED
    BY <1>1, <1>2, <1>3, <1>4, <1>5, <1>6 DEF TInv, TypeOK

(* batch_drain's retirement of a ring                                      *)
LEMMA RetireCheckTInv ==
    ASSUME TInv, RetireCheck
    PROVE  TInv'
<1>1. SharedOK' /\ ThreadOK' /\ ControlOK' /\ HistoryOK'
    BY Frame DEF RetireCheck
<1>2. EngineOK'
    BY DEF TInv, TypeOK, EngineOK, RetireCheck
<1>3. PushShape'
    BY Frame DEF RetireCheck, thread
<1> QED
    BY <1>1, <1>2, <1>3 DEF TInv, TypeOK

(* The event loop                                                          *)
LEMMA ProcessEventTInv ==
    ASSUME TInv, ProcessEvent
    PROVE  TInv'
<1>1. SharedOK' /\ ThreadOK' /\ ControlOK' /\ HistoryOK'
    BY Frame DEF ProcessEvent
<1>2. Head(pending) \in Event
    BY DEF TInv, TypeOK, EngineOK, ProcessEvent
<1>3. pending' \in Seq(Event)
    BY DEF TInv, TypeOK, EngineOK, ProcessEvent, Consumed
<1>4. expected' \in [Domains -> Nat \cup {-1}] /\ gaps' \in Nat
  <2>1. /\ Head(pending).dom \in Domains /\ Head(pending).seq + 1 \in Nat
        /\ expected \in [Domains -> Nat \cup {-1}] /\ gaps \in Nat
    BY <1>2 DEF TInv, TypeOK, EngineOK, Event
  <2>2. \/ UNCHANGED <<expected, gaps>>
        \/ /\ gaps' \in {gaps, gaps + 1}
           /\ expected' = [expected EXCEPT ![Head(pending).dom] = Head(pending).seq + 1]
    BY DEF ProcessEvent
  <2> QED
    BY <2>1, <2>2
<1>5. EngineOK'
    BY <1>3, <1>4 DEF TInv, TypeOK, EngineOK, ProcessEvent
<1>6. PushShape'
    BY Frame DEF ProcessEvent, thread
<1> QED
    BY <1>1, <1>2, <1>3, <1>4, <1>5, <1>6 DEF TInv, TypeOK

(* update_backpressure                                                     *)
LEMMA UpdateBackpressureTInv ==
    ASSUME TInv, UpdateBackpressure
    PROVE  TInv'
<1>1. ThreadOK' /\ ControlOK' /\ HistoryOK'
    BY Frame DEF UpdateBackpressure
<1>2. SharedOK'
    BY SMTT(30) DEF TInv, TypeOK, SharedOK, UpdateBackpressure, Tier
<1>3. EngineOK'
    BY DEF TInv, TypeOK, EngineOK, UpdateBackpressure
<1>4. PushShape'
    BY Frame DEF UpdateBackpressure, thread
<1> QED
    BY <1>1, <1>2, <1>3, <1>4 DEF TInv, TypeOK

(* poll_new_rings on a DEAD entry                                          *)
LEMMA PollDeadTInv ==
    ASSUME TInv, PollDead
    PROVE  TInv'
<1>1. SharedOK' /\ ThreadOK' /\ ControlOK' /\ HistoryOK'
    BY Frame DEF PollDead
<1>2. EngineOK'
    BY DEF TInv, TypeOK, EngineOK, PollDead
<1>3. PushShape'
    BY Frame DEF PollDead, thread
<1> QED
    BY <1>1, <1>2, <1>3 DEF TInv, TypeOK

(* The next turn of the drain loop                                         *)
LEMMA DrainAgainTInv ==
    ASSUME TInv, DrainAgain
    PROVE  TInv'
<1>1. SharedOK' /\ ThreadOK' /\ ControlOK' /\ HistoryOK'
    BY Frame DEF DrainAgain
<1>2. EngineOK'
    BY DEF TInv, TypeOK, EngineOK, DrainAgain
<1>3. PushShape'
    BY Frame DEF DrainAgain, thread
<1> QED
    BY <1>1, <1>2, <1>3 DEF TInv, TypeOK

(* Every step of the thread and of the engine keeps the types.             *)
LEMMA TInvNext == TInv /\ [Next]_vars => TInv'
<1> SUFFICES ASSUME TInv, [Next]_vars PROVE TInv'
    OBVIOUS
<1>1. CASE Inline
    BY <1>1, BbEntryTInv, BbCommitTInv, PreWriteTInv, StoreFaultsTInv,
       PostWriteTInv, PostCommitTInv, BlockEndTInv DEF Inline
<1>2. CASE Clean
    BY <1>2, AtCallTInv, PushOneTInv, AtMemReadBufTInv, FlushReadBufTInv,
       PushCheckTInv, PushSlotTInv, PushPublishTInv
       DEF Clean, AtReturn, AtReload, WrapAlloc
<1>3. CASE Ending
    BY <1>3, PreSyscallTInv, PostSyscallTInv, SetTerminalTInv, ThreadExitTInv
       DEF Ending
<1>4. CASE Consumer
    BY <1>4, ConsumeStartTInv, CopySlotTInv, RecheckTInv, RetireCheckTInv,
       ProcessEventTInv, UpdateBackpressureTInv, DrainAgainTInv, PollDeadTInv
       DEF Consumer
<1>5. CASE UNCHANGED vars
  <2>1. UNCHANGED <<shared, thread, control, engine, history>> /\ seqC' = seqC
    BY <1>5 DEF vars, thread
  <2> QED
    BY <2>1, Frame DEF TInv, TypeOK
<1> QED
    BY <1>1, <1>2, <1>3, <1>4, <1>5, TripwireHitTInv DEF Next, Producer

(* The variables of the ring, of the traced thread and of the engine keep  *)
(* their types, whatever program is traced: the cursors stay natural under *)
(* both resyncs of consume_batch, the tier stays in 0..2, and no push runs *)
(* without an item or writes a sequence number it has not drawn.           *)
THEOREM TypeCorrect == Spec => []TypeOK
<1>1. TInv => TypeOK
    BY DEF TInv
<1> QED
    BY <1>1, TInvInit, TInvNext, PTL DEF Spec

-----------------------------------------------------------------------------
(* The cursors: their order, the accounting of consume_batch, retirement,   *)
(* and the refinement of EventChannel.                                     *)

(* Where the consumer's locals are while consume_batch runs: the batch     *)
(* starts at or after the shared tail and lies below the published head.   *)
ConsumerInv ==
    /\ cpc \in {"copy", "check"} =>
           tail <= rt /\ rt + rcap <= head /\ Len(out) <= rcap
    /\ cpc = "copy" => Len(out) < rcap
    /\ cpc \notin {"copy", "check"} => out = <<>>

(* Once the exit path has started, the thread publishes nothing new.       *)
EndInv ==
    /\ pc \in {"term", "exit", "exiting", "done"} => head = cached
    /\ terminal => pc \in {"exit", "exiting", "done"}
    /\ pc \in {"exit", "done"} => terminal

RInv == CursorOrder /\ ConsumerInv /\ Accounting /\ EndInv /\ RetiredFinal

IInv == TInv /\ RInv

(* What a step of the traced thread may do to the cursors: publish, never  *)
(* past the cached head, and nothing at all once the status is TERMINAL.   *)
ProducerMove ==
    /\ UNCHANGED <<engine, tail>>
    /\ head <= head' /\ head' <= cached'
    /\ EndInv'
    /\ terminal => UNCHANGED <<head, cached, terminal>>
    /\ terminal' # terminal => head' = head /\ terminal'

-----------------------------------------------------------------------------
(* The thread.                                                             *)

(* An inline path moves the cached head and may publish it.                *)
LEMMA InlineMove == IInv /\ Inline => ProducerMove
<1> SUFFICES ASSUME IInv, Inline PROVE ProducerMove
    OBVIOUS
<1> USE DEF IInv, TInv, RInv, TypeOK, SharedOK, ThreadOK, ControlOK,
            CursorOrder, EndInv, ProducerMove
<1>1. CASE BbEntry
    BY <1>1 DEF BbEntry, thread
<1>2. CASE BbCommit
    BY <1>2 DEF BbCommit, CommitInline
<1>3. ASSUME NEW w \in BOOLEAN, PreWrite(w) PROVE ProducerMove
    BY <1>3 DEF PreWrite
<1>4. CASE StoreFaults
    BY <1>4 DEF StoreFaults, shared, thread
<1>5. CASE PostWrite
    BY <1>5 DEF PostWrite
<1>6. CASE PostCommit
    BY <1>6 DEF PostCommit, CommitInline
<1>7. CASE BlockEnd
    BY <1>7 DEF BlockEnd, control
<1> QED
    BY <1>1, <1>2, <1>3, <1>4, <1>5, <1>6, <1>7 DEF Inline

(* A clean call publishes the cached head, pushes and reloads the cache.   *)
LEMMA CleanMove == IInv /\ Clean => ProducerMove
<1> SUFFICES ASSUME IInv, Clean PROVE ProducerMove
    OBVIOUS
<1> USE DEF IInv, TInv, RInv, TypeOK, SharedOK, ThreadOK, ControlOK,
            CursorOrder, EndInv, ProducerMove
<1>1. CASE AtCall
    BY <1>1 DEF AtCall, CleanCall
<1>2. ASSUME NEW op, PushOne(op) PROVE ProducerMove
    BY <1>2 DEF PushOne, CleanCall
<1>3. ASSUME NEW it \in {"read", "prio"}, AtMemReadBuf(it) PROVE ProducerMove
    BY <1>3 DEF AtMemReadBuf, shared
<1>4. CASE FlushReadBuf
    BY <1>4 DEF FlushReadBuf, CleanCall
<1>5. CASE PushCheck
  <2>1. pc' \in {"push", "run", "write", "slot"}
    BY <1>5 DEF PushCheck, NextItem
  <2>2. pc = "push" /\ UNCHANGED <<head, tail, terminal, cached, engine>>
    BY <1>5 DEF PushCheck, shared
  <2> QED
    BY <2>1, <2>2
<1>6. CASE PushSlot
    BY <1>6 DEF PushSlot, thread
<1>7. CASE PushPublish
  <2>1. pc' \in {"push", "run", "write"}
    BY <1>7 DEF PushPublish, NextItem
  <2>2. ItemSlots(Head(todo)) \in Nat \ {0}
    BY <1>7, HeadItem DEF PushPublish, PushShape
  <2> QED
    BY <1>7, <2>1, <2>2 DEF PushPublish, SyncHead
<1> QED
    BY <1>1, <1>2, <1>3, <1>4, <1>5, <1>6, <1>7
       DEF Clean, AtReturn, AtReload, WrapAlloc

(* System calls and the exit publish the cached head before TERMINAL.      *)
LEMMA EndingMove == IInv /\ Ending => ProducerMove
<1> SUFFICES ASSUME IInv, Ending PROVE ProducerMove
    OBVIOUS
<1> USE DEF IInv, TInv, RInv, TypeOK, SharedOK, ThreadOK, ControlOK,
            CursorOrder, EndInv, ProducerMove
<1>1. ASSUME NEW exit \in BOOLEAN, PreSyscall(exit) PROVE ProducerMove
    BY <1>1 DEF PreSyscall, thread
<1>2. CASE PostSyscall
    BY <1>2 DEF PostSyscall, shared, thread
<1>3. CASE SetTerminal
    BY <1>3 DEF SetTerminal, thread
<1>4. CASE ThreadExit
    BY SMTT(30), <1>4 DEF ThreadExit
<1> QED
    BY <1>1, <1>2, <1>3, <1>4 DEF Ending

(* All the thread's steps, and the tripwire.                               *)
LEMMA AnyProducerMove == IInv /\ Producer => ProducerMove
<1>1. IInv /\ TripwireHit => ProducerMove
    BY DEF TripwireHit, IInv, TInv, RInv, TypeOK, SharedOK, ThreadOK, CursorOrder,
           EndInv, ProducerMove, thread, control
<1> QED
    BY <1>1, InlineMove, CleanMove, EndingMove DEF Producer

(* Publishing more, and TERMINAL, disturb nothing the engine relies on.    *)
LEMMA ProducerKeeps == IInv /\ TInv' /\ ProducerMove => RInv'
<1> SUFFICES ASSUME IInv, TInv', ProducerMove PROVE RInv'
    OBVIOUS
<1> USE DEF IInv, TInv, RInv, TypeOK, SharedOK, ThreadOK, EngineOK, ProducerMove, engine
<1>1. CursorOrder'
    BY DEF CursorOrder
<1>2. ConsumerInv'
    BY DEF ConsumerInv
<1>3. Accounting'
    BY DEF Accounting
<1>4. RetiredFinal'
    BY DEF RetiredFinal
<1> QED
    BY <1>1, <1>2, <1>3, <1>4

-----------------------------------------------------------------------------
(* The engine.                                                             *)

(* Both cursors are the thread's as far as a drain step is concerned.      *)
LEMMA ConsumerFrame ==
    Consumer => UNCHANGED <<head, terminal, thread, control>>
<1> USE DEF shared
<1>1. ConsumeStart \/ CopySlot \/ RetireCheck \/ ProcessEvent \/ DrainAgain \/ PollDead
        => UNCHANGED <<head, terminal, thread, control>>
    BY DEF ConsumeStart, CopySlot, RetireCheck, ProcessEvent, DrainAgain, PollDead
<1>2. Recheck \/ UpdateBackpressure
        => UNCHANGED <<head, terminal, thread, control>>
    BY DEF Recheck, UpdateBackpressure
<1> QED
    BY <1>1, <1>2 DEF Consumer

(* The engine leaves the thread's part of the invariant alone.             *)
LEMMA ConsumerKeepsEnd == IInv /\ Consumer => EndInv'
BY ConsumerFrame DEF IInv, RInv, EndInv, thread, control

(* The types the arithmetic of the drain needs.                            *)
LEMMA CursorTypes ==
    IInv => /\ head \in Nat /\ tail \in Nat /\ cached \in Nat
            /\ rt \in Nat /\ rcap \in Nat /\ lapped \in Nat /\ delivered \in Nat
            /\ out \in Seq(Event) /\ Len(out) \in Nat
BY DEF IInv, TInv, TypeOK, SharedOK, ThreadOK, EngineOK

(* consume_batch up to the copy, with its first resync.                    *)
LEMMA ConsumeStartKeeps == IInv /\ ConsumeStart => RInv'
<1> SUFFICES ASSUME IInv, ConsumeStart PROVE RInv'
    OBVIOUS
<1>1. EndInv'
    BY ConsumerKeepsEnd DEF Consumer
<1>2. CursorOrder' /\ RetiredFinal'
    BY DEF ConsumeStart, IInv, RInv, CursorOrder, RetiredFinal, shared, thread
<1>3. ConsumerInv'
    BY CursorTypes DEF ConsumeStart, IInv, RInv, CursorOrder, ConsumerInv, Min2, shared
<1>4. Accounting'
  <2>1. delivered + lapped = tail /\ UNCHANGED <<delivered, tail>>
    BY DEF ConsumeStart, IInv, RInv, Accounting, shared
  <2>2. \/ cpc' = "retire" /\ lapped' = lapped
        \/ cpc' = "copy" /\ lapped' = lapped + (rt' - tail) /\ rt' \in Int
    BY CursorTypes DEF ConsumeStart
  <2> QED
    BY <2>1, <2>2, CursorTypes DEF Accounting
<1> QED
    BY <1>1, <1>2, <1>3, <1>4 DEF RInv

(* One turn of the copy loop.                                              *)
LEMMA CopySlotKeeps == IInv /\ CopySlot => RInv'
<1> SUFFICES ASSUME IInv, CopySlot PROVE RInv'
    OBVIOUS
<1> USE DEF IInv, TInv, RInv, TypeOK, SharedOK, ThreadOK, EngineOK
<1>1. EndInv'
    BY ConsumerKeepsEnd DEF Consumer
<1>2. CursorOrder' /\ RetiredFinal'
    BY DEF CopySlot, CursorOrder, RetiredFinal, shared, thread
<1>3. ConsumerInv'
  <2>1. slots[CopyIndex] \in Event
    BY DEF CopyIndex
  <2>2. /\ Len(Append(out, slots[CopyIndex])) = Len(out) + 1
        /\ Len(out) \in Nat
    BY <2>1
  <2>3. \/ out' = out /\ cpc' = "check"
        \/ /\ out' = Append(out, slots[CopyIndex])
           /\ cpc' = IF Len(out) + 1 = rcap THEN "check" ELSE "copy"
    BY DEF CopySlot
  <2>4. cpc = "copy" /\ UNCHANGED <<head, tail, rt, rcap>>
    BY DEF CopySlot, shared
  <2> QED
    BY <2>2, <2>3, <2>4 DEF ConsumerInv
<1>4. Accounting'
  <2>1. cpc' \in {"copy", "check"} /\ UNCHANGED <<rt, delivered, lapped>>
    BY DEF CopySlot
  <2> QED
    BY <2>1 DEF Accounting, CopySlot
<1> QED
    BY <1>1, <1>2, <1>3, <1>4

(* The second head check: the batch is discarded or given back.            *)
LEMMA RecheckKeeps == IInv /\ Recheck => RInv'
<1> SUFFICES ASSUME IInv, Recheck PROVE RInv'
    OBVIOUS
<1>1. EndInv'
    BY ConsumerKeepsEnd DEF Consumer
<1>2. /\ cpc = "check" /\ cpc' = "retire" /\ out' = <<>>
      /\ UNCHANGED <<head, terminal, cached, alive>>
    BY DEF Recheck, thread
<1>3. /\ tail <= rt /\ rt + rcap <= head /\ Len(out) <= rcap
      /\ delivered + lapped = rt
    BY <1>2 DEF IInv, RInv, ConsumerInv, Accounting
<1>4. \/ /\ head - rt > Capacity
         /\ lapped' = lapped + (head - Capacity - rt)
         /\ tail' = head - Capacity /\ delivered' = delivered
      \/ /\ tail' = rt + Len(out)
         /\ delivered' = delivered + Len(out) /\ lapped' = lapped
    BY DEF Recheck, LappedSince, LossSince
<1>5. CursorOrder'
    BY SMTT(30), <1>2, <1>3, <1>4, CursorTypes DEF IInv, RInv, CursorOrder
<1>6. ConsumerInv' /\ Accounting'
  <2>1. delivered' + lapped' = tail'
    <3>0. /\ head \in Nat /\ rt \in Nat /\ lapped \in Nat /\ delivered \in Nat
          /\ Capacity \in Nat /\ delivered = rt - lapped
        BY <1>3, CursorTypes
    <3>1. CASE /\ lapped' = lapped + (head - Capacity - rt)
               /\ tail' = head - Capacity /\ delivered' = delivered
        BY <3>0, <3>1
    <3>2. CASE /\ tail' = rt + Len(out)
               /\ delivered' = delivered + Len(out) /\ lapped' = lapped
        BY <1>3, <3>2, CursorTypes
    <3> QED
        BY <1>4, <3>1, <3>2
  <2> QED
    BY <1>2, <2>1 DEF ConsumerInv, Accounting
<1>7. RetiredFinal'
    BY <1>2 DEF IInv, RInv, RetiredFinal
<1> QED
    BY <1>1, <1>5, <1>6, <1>7 DEF RInv

(* Retirement, the event loop, and the end of the drain.                   *)
LEMMA RestKeeps ==
    ASSUME IInv, \/ RetireCheck \/ ProcessEvent \/ UpdateBackpressure
                 \/ DrainAgain \/ PollDead
    PROVE  RInv'
<1> USE DEF IInv, TInv, RInv, TypeOK, SharedOK, ThreadOK, ControlOK, EngineOK
<1>1. EndInv'
    BY ConsumerKeepsEnd DEF Consumer
<1>2. /\ UNCHANGED <<head, tail, cached, terminal, rt, rcap, out, lapped, delivered>>
      /\ cpc \notin {"copy", "check"} /\ cpc' \notin {"copy", "check"}
      /\ alive' = alive \/ terminal \/ pc = "done"
    BY DEF RetireCheck, ProcessEvent, UpdateBackpressure, DrainAgain, PollDead,
           shared, thread
<1>3. CursorOrder' /\ ConsumerInv' /\ Accounting'
    BY <1>2 DEF CursorOrder, ConsumerInv, Accounting
<1>4. /\ terminal => head = cached
      /\ pc = "done" => terminal
    BY DEF EndInv
<1>5. RetiredFinal'
    BY <1>2, <1>4 DEF RetiredFinal
<1> QED
    BY <1>1, <1>3, <1>5

-----------------------------------------------------------------------------
(* The inductive invariant holds initially.                                *)
LEMMA IInvInit == Init => IInv
BY TInvInit DEF Init, IInv, RInv, CursorOrder, ConsumerInv, Accounting, EndInv,
                RetiredFinal

(* ... and is preserved by every step.                                     *)
LEMMA IInvNext == IInv /\ [Next]_vars => IInv'
<1> SUFFICES ASSUME IInv, [Next]_vars PROVE IInv'
    OBVIOUS
<1>1. TInv'
    BY TInvNext DEF IInv
<1>2. CASE Producer
    BY <1>1, <1>2, AnyProducerMove, ProducerKeeps DEF IInv
<1>3. CASE Consumer
    BY <1>1, <1>3, ConsumeStartKeeps, CopySlotKeeps, RecheckKeeps, RestKeeps
       DEF IInv, Consumer
<1>4. CASE UNCHANGED vars
    BY <1>1, <1>4 DEF IInv, RInv, CursorOrder, ConsumerInv, Accounting, EndInv,
       RetiredFinal, vars, shared, thread, control, engine
<1> QED
    BY <1>2, <1>3, <1>4 DEF Next

(* consume_batch never moves the tail past the published head, and no path *)
(* of the tracer publishes past its cached head.                           *)
THEOREM CursorsOrdered == Spec => []CursorOrder
<1>1. IInv => CursorOrder
    BY DEF IInv, RInv
<1> QED
    BY <1>1, IInvInit, IInvNext, PTL DEF Spec

(* Every position consume_batch leaves behind was delivered or counted as  *)
(* lapped, exactly once, through both of its resyncs.                      *)
THEOREM AccountingHolds == Spec => []Accounting
<1>1. IInv => Accounting
    BY DEF IInv, RInv
<1> QED
    BY <1>1, IInvInit, IInvNext, PTL DEF Spec

(* batch_drain and poll_new_rings give a ring up only when its thread will *)
(* never publish to it again.                                              *)
THEOREM RetirementFinal == Spec => []RetiredFinal
<1>1. IInv => RetiredFinal
    BY DEF IInv, RInv
<1> QED
    BY <1>1, IInvInit, IInvNext, PTL DEF Spec

-----------------------------------------------------------------------------
(* The refinement.                                                         *)

(* A step of the thread publishes, closes, or is invisible.                *)
LEMMA ProducerRefines ==
    IInv /\ IInv' /\ ProducerMove => [Channel!Next]_(Channel!chan)
<1> SUFFICES ASSUME IInv, IInv', ProducerMove PROVE [Channel!Next]_(Channel!chan)
    OBVIOUS
<1>1. head \in Nat /\ head' \in Nat /\ terminal \in BOOLEAN /\ terminal' \in BOOLEAN
    BY DEF IInv, TInv, TypeOK, SharedOK
<1>2. /\ UNCHANGED <<delivered, lapped>> /\ head <= head'
      /\ terminal => UNCHANGED <<head, terminal>>
      /\ terminal' # terminal => head' = head /\ terminal'
    BY DEF ProducerMove, engine
<1>3. CASE head' # head
    BY <1>1, <1>2, <1>3 DEF Channel!Next, Channel!Publish
<1>4. CASE head' = head /\ terminal' # terminal
    BY <1>1, <1>2, <1>4 DEF Channel!Next, Channel!Close
<1>5. CASE head' = head /\ terminal' = terminal
    BY <1>2, <1>5 DEF Channel!chan
<1> QED
    BY <1>3, <1>4, <1>5

(* A step of the engine takes, loses, or is invisible.                     *)
LEMMA ConsumerRefines ==
    IInv /\ IInv' /\ Consumer => [Channel!Next]_(Channel!chan)
<1> SUFFICES ASSUME IInv, IInv', Consumer PROVE [Channel!Next]_(Channel!chan)
    OBVIOUS
<1>1. UNCHANGED <<head, terminal>>
    BY ConsumerFrame
<1>2. /\ head \in Nat /\ lapped \in Nat /\ delivered \in Nat
      /\ lapped' \in Nat /\ delivered' \in Nat
    BY DEF IInv, TInv, TypeOK, SharedOK, EngineOK
<1>3. delivered' + lapped' <= head
  <2>1. head' \in Nat /\ tail' \in Nat /\ rt' \in Nat /\ rcap' \in Nat
    BY DEF IInv, TInv, TypeOK, SharedOK, EngineOK
  <2>2. CASE cpc' \in {"copy", "check"}
    <3>1. delivered' + lapped' = rt' /\ rt' + rcap' <= head'
        BY <2>2 DEF IInv, RInv, ConsumerInv, Accounting
    <3>2. \A a, b, c \in Nat : a + b <= c => a <= c
        OBVIOUS
    <3>3. rt' <= head'
        BY <2>1, <3>1, <3>2
    <3> QED
        BY <1>1, <3>1, <3>3
  <2>3. CASE cpc' \notin {"copy", "check"}
    <3>1. delivered' + lapped' = tail' /\ tail' <= head'
        BY <2>3 DEF IInv, RInv, CursorOrder, Accounting
    <3> QED
        BY <1>1, <2>1, <3>1
  <2> QED
    BY <2>2, <2>3
<1>4. \/ UNCHANGED <<delivered, lapped>>
      \/ lapped' > lapped /\ delivered' = delivered
      \/ delivered' > delivered /\ lapped' = lapped
  <2>1. CASE ConsumeStart
    BY <1>2, <2>1, CursorTypes DEF ConsumeStart
  <2>2. CASE Recheck
    <3>1. Len(out) \in Nat /\ rt \in Nat /\ head \in Nat
        BY CursorTypes
    <3>2. \/ /\ head - rt > Capacity /\ delivered' = delivered
             /\ lapped' = lapped + (head - Capacity - rt)
          \/ delivered' = delivered + Len(out) /\ lapped' = lapped
        BY <2>2 DEF Recheck, LappedSince, LossSince
    <3> QED
        BY <1>2, <3>1, <3>2
  <2>3. CASE \/ CopySlot \/ RetireCheck \/ ProcessEvent \/ UpdateBackpressure
             \/ DrainAgain \/ PollDead
    BY <2>3 DEF CopySlot, RetireCheck, ProcessEvent, UpdateBackpressure, DrainAgain,
                PollDead
  <2> QED
    BY <2>1, <2>2, <2>3 DEF Consumer
<1>5. CASE lapped' > lapped /\ delivered' = delivered
    BY <1>1, <1>2, <1>3, <1>5 DEF Channel!Next, Channel!Lose
<1>6. CASE delivered' > delivered /\ lapped' = lapped
    BY <1>1, <1>2, <1>3, <1>6 DEF Channel!Next, Channel!Take
<1>7. CASE UNCHANGED <<delivered, lapped>>
    BY <1>1, <1>7 DEF Channel!chan
<1> QED
    BY <1>4, <1>5, <1>6, <1>7

(* The ring, with its cached heads, its two resyncs and its deferred       *)
(* publications, implements the lossy channel of EventChannel.             *)
THEOREM RingImplementsChannel == Spec => ImplementsChannel
<1>1. Init => Channel!Init
    BY DEF Init, Channel!Init
<1>2. IInv /\ IInv' /\ [Next]_vars => [Channel!Next]_(Channel!chan)
  <2> SUFFICES ASSUME IInv, IInv', [Next]_vars PROVE [Channel!Next]_(Channel!chan)
    OBVIOUS
  <2>1. CASE UNCHANGED vars
    BY <2>1 DEF vars, shared, engine, Channel!chan
  <2> QED
    BY <2>1, AnyProducerMove, ProducerRefines, ConsumerRefines DEF Next
<1> QED
    BY <1>1, <1>2, IInvInit, IInvNext, PTL DEF Spec, ImplementsChannel, Channel!Spec

-----------------------------------------------------------------------------
(* The events of the ring: what becomes of an event an inline path offers, *)
(* what the slots hold, and what consume_batch hands on.                   *)

-----------------------------------------------------------------------------
(* Conservation.                                                           *)

(* The traced thread is between two instrumented stores.                   *)
AtRun == \/ pc \in {"run", "bb", "sys"}
         \/ pc \in {"push", "slot", "publish"} /\ ret = "run"

(* GuardDisarms at every point of the code, not only between two handlers: *)
(* a guard found armed between two stores was left armed by a fault no     *)
(* drop has been charged to yet.                                           *)
GuardInv == /\ stat.reent <= stat.faults
            /\ AtRun => stat.reent + nesting <= stat.faults

KInv == Counted /\ GuardInv

(* The counters are natural numbers.                                       *)
LEMMA StatTypes ==
    IInv => /\ stat \in [StatNames -> Nat]
            /\ stat.offered \in Nat /\ stat.shed \in Nat /\ stat.reent \in Nat
            /\ stat.abandoned \in Nat /\ stat.faults \in Nat
            /\ stat.refused \in Nat /\ stat.dropped \in Nat
            /\ seqI \in Nat /\ nesting \in 0..1
BY DEF IInv, TInv, TypeOK, HistoryOK, ThreadOK, StatNames

(* A gate of an inline path counts the event twice: offered and skipped.   *)
LEMMA Skipped ==
    ASSUME IInv, NEW f \in {"shed", "reent"}, BumpSkipped(f)
    PROVE  /\ stat'.offered = stat.offered + 1
           /\ stat'.shed = stat.shed + (IF f = "shed" THEN 1 ELSE 0)
           /\ stat'.reent = stat.reent + (IF f = "reent" THEN 1 ELSE 0)
           /\ stat'.abandoned = stat.abandoned /\ stat'.faults = stat.faults
<1> DEFINE s == [stat EXCEPT ![f] = @ + 1]
<1>1. /\ s.offered = stat.offered
      /\ s.shed = stat.shed + (IF f = "shed" THEN 1 ELSE 0)
      /\ s.reent = stat.reent + (IF f = "reent" THEN 1 ELSE 0)
      /\ s.abandoned = stat.abandoned /\ s.faults = stat.faults
      /\ s \in [StatNames -> Nat]
    BY StatTypes DEF StatNames
<1>2. stat' = [s EXCEPT !.offered = @ + 1]
    BY DEF BumpSkipped
<1> HIDE DEF s
<1> QED
    BY <1>1, <1>2 DEF StatNames

(* An event that passes the gates is offered only.                         *)
LEMMA Offered ==
    ASSUME IInv, Bump("offered")
    PROVE  /\ stat'.offered = stat.offered + 1
           /\ stat'.shed = stat.shed /\ stat'.reent = stat.reent
           /\ stat'.abandoned = stat.abandoned /\ stat'.faults = stat.faults
BY StatTypes DEF Bump, StatNames

(* The five counters Conservation is about.                                *)
SameCounts == /\ stat'.offered = stat.offered /\ stat'.shed = stat.shed
              /\ stat'.reent = stat.reent /\ stat'.abandoned = stat.abandoned
              /\ stat'.faults = stat.faults

(* Steps that neither write inline nor count.                              *)
LEMMA QuietKeeps ==
    ASSUME IInv, KInv, SameCounts, UNCHANGED <<seqI, nesting>>,
           InFlight' <=> InFlight, AtRun' => AtRun
    PROVE  KInv'
<1>1. Counted'
    BY DEF KInv, Counted, SameCounts
<1>2. GuardInv'
    BY DEF KInv, GuardInv, SameCounts
<1> QED
    BY <1>1, <1>2 DEF KInv

(* The inline paths.                                                       *)
LEMMA InlineConserves == IInv /\ KInv /\ Inline => KInv'
<1> SUFFICES ASSUME IInv, KInv, Inline PROVE KInv'
    OBVIOUS
<1> USE StatTypes
<1>1. CASE BbEntry
  <2>1. pc = "run" /\ UNCHANGED <<seqI, nesting, ret, scratch1>>
    BY <1>1 DEF BbEntry, thread
  <2>2. CASE BumpSkipped("shed") /\ pc' = pc
    BY <2>1, <2>2, Skipped DEF KInv, Counted, GuardInv, AtRun, InFlight, InWrite
  <2>3. CASE Bump("offered") /\ pc' = "bb"
    BY <2>1, <2>3, Offered DEF KInv, Counted, GuardInv, AtRun, InFlight, InWrite
  <2> QED
    BY <1>1, <2>2, <2>3 DEF BbEntry
<1>2. CASE BbCommit
  <2>1. /\ pc = "bb" /\ pc' = "run" /\ seqI' = seqI + 1
        /\ UNCHANGED <<stat, nesting, ret, scratch1>>
    BY <1>2 DEF BbCommit, CommitInline, history
  <2> QED
    BY <2>1 DEF KInv, Counted, GuardInv, AtRun, InFlight, InWrite
<1>3. ASSUME NEW w \in BOOLEAN, PreWrite(w) PROVE KInv'
  <2>1. pc = "run" /\ pc' = "write" /\ UNCHANGED seqI
    BY <1>3 DEF PreWrite
  <2>2. CASE nesting # 0 /\ BumpSkipped("reent") /\ scratch1' = NoSlot
    BY <2>1, <2>2, Skipped DEF KInv, Counted, GuardInv, AtRun, InFlight, InWrite
  <2>3. CASE BumpSkipped("shed") /\ scratch1' = NoSlot
    BY <2>1, <2>3, Skipped DEF KInv, Counted, GuardInv, AtRun, InFlight, InWrite
  <2>4. CASE Bump("offered") /\ scratch1' = cached
    <3>1. scratch1' # NoSlot
        BY <2>4 DEF IInv, TInv, TypeOK, ThreadOK, NoSlot
    <3> QED
        BY <2>1, <2>4, <3>1, Offered DEF KInv, Counted, GuardInv, AtRun, InFlight, InWrite
  <2> QED
    BY <1>3, <2>2, <2>3, <2>4 DEF PreWrite
<1>4. CASE StoreFaults
  <2>1. /\ pc = "write" /\ pc' = "run" /\ UNCHANGED <<seqI, nesting, scratch1>>
    BY <1>4 DEF StoreFaults, thread
  <2>2. /\ stat'.offered = stat.offered /\ stat'.shed = stat.shed
        /\ stat'.reent = stat.reent /\ stat'.faults = stat.faults + 1
        /\ stat'.abandoned = stat.abandoned + (IF scratch1 # NoSlot THEN 1 ELSE 0)
    BY <1>4 DEF StoreFaults, StatNames
  <2> QED
    BY <2>1, <2>2 DEF KInv, Counted, GuardInv, AtRun, InFlight, InWrite
<1>5. CASE PostWrite
  <2>1. pc = "write" /\ UNCHANGED <<stat, seqI, scratch1>>
    BY <1>5 DEF PostWrite
  <2>2. CASE scratch1 = NoSlot /\ pc' = "run" /\ nesting' = 0
    BY <2>1, <2>2 DEF KInv, Counted, GuardInv, AtRun, InFlight, InWrite
  <2>3. CASE scratch1 # NoSlot /\ pc' = "post" /\ nesting' = nesting
    BY <2>1, <2>3 DEF KInv, Counted, GuardInv, AtRun, InFlight, InWrite
  <2> QED
    BY <1>5, <2>2, <2>3 DEF PostWrite, Disarm
<1>6. CASE PostCommit
  <2>1. /\ pc = "post" /\ pc' = "run" /\ seqI' = seqI + 1 /\ nesting' = 0
        /\ UNCHANGED stat
    BY <1>6 DEF PostCommit, CommitInline, Disarm
  <2> QED
    BY <2>1 DEF KInv, Counted, GuardInv, AtRun, InFlight, InWrite
<1>7. CASE BlockEnd
    BY <1>7, QuietKeeps
       DEF BlockEnd, SameCounts, AtRun, InFlight, InWrite, control, history
<1> QED
    BY <1>1, <1>2, <1>3, <1>4, <1>5, <1>6, <1>7 DEF Inline

(* Clean calls come back to where they were made from.                     *)
LEMMA CleanConserves == IInv /\ KInv /\ Clean => KInv'
<1> SUFFICES ASSUME IInv, KInv, Clean PROVE KInv'
    OBVIOUS
<1> USE StatTypes DEF SameCounts, AtRun, InFlight, InWrite
<1>1. CASE AtCall
    BY <1>1, QuietKeeps DEF AtCall, CleanCall, history
<1>2. ASSUME NEW op, PushOne(op) PROVE KInv'
    BY <1>2, QuietKeeps DEF PushOne, CleanCall, history
<1>3. ASSUME NEW it \in {"read", "prio"}, AtMemReadBuf(it) PROVE KInv'
  <2>1. SameCounts
    BY <1>3 DEF AtMemReadBuf, Bump, StatNames
  <2> QED
    BY <1>3, <2>1, QuietKeeps DEF AtMemReadBuf
<1>4. CASE FlushReadBuf
    BY <1>4, QuietKeeps DEF FlushReadBuf, CleanCall, history
<1>5. NextItem /\ pc \in {"push", "slot", "publish"} /\ scratch1' = scratch1
        => (InFlight' <=> InFlight) /\ (AtRun' => AtRun)
  <2>1. ret \in {"run", "write"}
    BY DEF IInv, TInv, TypeOK, ControlOK
  <2> QED
    BY <2>1 DEF NextItem
<1>6. CASE PushCheck
  <2>1. SameCounts
    BY <1>6 DEF PushCheck, StatNames
  <2>2. pc = "push" /\ UNCHANGED <<seqI, nesting, scratch1>>
    BY <1>6 DEF PushCheck
  <2>3. NextItem \/ (pc' = "slot" /\ ret' = ret)
    BY <1>6 DEF PushCheck
  <2>4. (InFlight' <=> InFlight) /\ (AtRun' => AtRun)
    BY <1>5, <2>2, <2>3
  <2> QED
    BY <2>1, <2>2, <2>4, QuietKeeps
<1>7. CASE PushSlot
    BY <1>7, QuietKeeps DEF PushSlot, thread, history
<1>8. CASE PushPublish
    BY <1>5, <1>8, QuietKeeps DEF PushPublish, history
<1> QED
    BY <1>1, <1>2, <1>3, <1>4, <1>6, <1>7, <1>8
       DEF Clean, AtReturn, AtReload, WrapAlloc

(* A thread that ends inside a write abandons it.                          *)
LEMMA EndingConserves == IInv /\ KInv /\ Ending => KInv'
<1> SUFFICES ASSUME IInv, KInv, Ending PROVE KInv'
    OBVIOUS
<1> USE StatTypes DEF SameCounts, AtRun, InFlight, InWrite
<1>1. ASSUME NEW exit \in BOOLEAN, PreSyscall(exit) PROVE KInv'
    BY <1>1, QuietKeeps DEF PreSyscall, thread, history
<1>2. CASE PostSyscall
    BY <1>2, QuietKeeps DEF PostSyscall, thread, history
<1>3. CASE SetTerminal
    BY <1>3, QuietKeeps DEF SetTerminal, thread, history
<1>4. CASE ThreadExit
  <2>1. /\ pc \in {"run", "write", "sys", "exit"} /\ pc' = "exiting"
        /\ UNCHANGED <<seqI, nesting, scratch1>>
    BY <1>4 DEF ThreadExit
  <2>2. /\ stat'.offered = stat.offered /\ stat'.shed = stat.shed
        /\ stat'.reent = stat.reent /\ stat'.faults = stat.faults
        /\ stat'.abandoned = stat.abandoned
               + (IF pc = "write" /\ scratch1 # NoSlot THEN 1 ELSE 0)
    BY <1>4 DEF ThreadExit, StatNames
  <2>3. Counted'
    BY <2>1, <2>2 DEF KInv, Counted
  <2>4. GuardInv'
    BY <2>1, <2>2 DEF KInv, GuardInv
  <2> QED
    BY <2>3, <2>4 DEF KInv
<1> QED
    BY <1>1, <1>2, <1>3, <1>4 DEF Ending

(* The engine touches neither the counters nor the thread.                 *)
LEMMA ConsumerKeepsStat == Consumer => stat' = stat
BY DEF Consumer, ConsumeStart, CopySlot, Recheck, RetireCheck, ProcessEvent,
       UpdateBackpressure, DrainAgain, PollDead, history

(* No step breaks the count.                                               *)
LEMMA KInvNext == IInv /\ KInv /\ [Next]_vars => KInv'
<1> SUFFICES ASSUME IInv, KInv, [Next]_vars PROVE KInv'
    OBVIOUS
<1> USE DEF SameCounts, AtRun, InFlight, InWrite
<1>1. CASE TripwireHit
    BY <1>1, QuietKeeps DEF TripwireHit, thread, control, history
<1>2. CASE Consumer
    BY <1>2, QuietKeeps, ConsumerFrame, ConsumerKeepsStat DEF thread, control
<1>3. CASE UNCHANGED vars
    BY <1>3, QuietKeeps DEF vars, thread, control, history
<1> QED
    BY <1>1, <1>2, <1>3, InlineConserves, CleanConserves, EndingConserves
       DEF Next, Producer

(* No inline event disappears silently: each one offered by emit_bb_entry  *)
(* or emit_pre_write is committed, in flight, in a g_stat_* counter, or    *)
(* was abandoned by a fault or the end of the thread; and a faulting store *)
(* costs at most one re-entrancy drop, for every program and ring size.    *)
THEOREM EventsConserved == Spec => []Conservation
<1>1. Init => KInv
    BY DEF Init, KInv, Counted, GuardInv, AtRun, InFlight, InWrite, StatNames
<1>2. IInv /\ KInv => Conservation
    BY StatTypes DEF KInv, GuardInv, AtRun, Conservation, GuardDisarms
<1> QED
    BY <1>1, <1>2, IInvInit, IInvNext, KInvNext, PTL DEF Spec

-----------------------------------------------------------------------------
(* The slots.                                                              *)

(* The positions a push in progress will commit.                           *)
PushSlots == ItemSlots(Head(todo))

Pushing == pc \in {"push", "slot", "publish"}

(* An event lies in the slot of its position.                              *)
AtHome == \A i \in 0..(Capacity - 1) :
              slots[i].at = -1 \/ slots[i].at % Capacity = i

(* The slot of a committed position was written for it, or reused for a    *)
(* later one, or the position is a hole.                                   *)
Reaches == \A p \in 0..(cached - 1) : p \in holes \/ slots[p % Capacity].at >= p

(* The slots about to be committed have been written.                      *)
Written ==
    /\ pc = "bb" => slots[cached % Capacity].at = cached
    /\ pc = "publish" =>
           \A p \in head..(head + PushSlots - 1) : slots[p % Capacity].at = p

(* A push starts at the published head; the reads flushed in the middle of *)
(* a write move the cached head at most a read buffer past the slot the    *)
(* write has filled.                                                       *)
FlightInv ==
    /\ Pushing \/ pc = "sys" => head = cached
    /\ Len(rdbuf) <= RdBufCap
    /\ (pc = "write" /\ scratch1 # NoSlot) =>
           scratch1 <= cached /\ cached <= scratch1 + RdBufCap
    /\ (Pushing /\ ret = "write") => \A k \in 1..Len(todo) : todo[k] \in {"read", "prio"}
    /\ (Pushing /\ ret = "write" /\ scratch1 # NoSlot) =>
           scratch1 <= cached /\ cached + Len(todo) <= scratch1 + RdBufCap

(* What has been copied so far.                                            *)
OutInv ==
    cpc \in {"copy", "check"} =>
        \A k \in 1..Len(out) :
            \/ rt + k - 1 \in holes
            \/ /\ out[k].at >= rt + k - 1
               /\ out[k].at % Capacity = (rt + k - 1) % Capacity

SInv == AtHome /\ Reaches /\ Written /\ FlightInv /\ OutInv

CleanInv ==
    /\ pc \in {"slot", "publish"} => head - tail + PushSlots <= Capacity
    /\ NoInlineWrites =>
         /\ head = cached /\ head - tail <= Capacity
         /\ lapped = 0 /\ ~torn
         /\ \A i \in 0..(Capacity - 1) :
                slots[i].at < head + (IF pc = "publish" THEN PushSlots ELSE 0)
         /\ cpc \in {"copy", "check"} =>
                \A k \in 1..Len(out) : out[k].at <= rt + k - 1

(* Division with remainder.                                                *)
LEMMA DivMod ==
    ASSUME NEW a \in Int
    PROVE  /\ a \div Capacity \in Int /\ a % Capacity \in 0..(Capacity - 1)
           /\ a = Capacity * (a \div Capacity) + (a % Capacity)
OBVIOUS

LEMMA QuotientUnique ==
    ASSUME NEW m \in Int, NEW n \in Int,
           NEW r \in 0..(Capacity - 1), NEW s \in 0..(Capacity - 1),
           Capacity * m + r = Capacity * n + s
    PROVE  m = n /\ r = s
<1>1. CASE m < n
  <2>1. n - m - 1 \in Nat /\ Capacity * (n - m - 1) >= 0
    BY <1>1
  <2> QED
    BY <2>1
<1>2. CASE n < m
  <2>1. m - n - 1 \in Nat /\ Capacity * (m - n - 1) >= 0
    BY <1>2
  <2> QED
    BY <2>1
<1> QED
    BY <1>1, <1>2

LEMMA ModOf ==
    ASSUME NEW m \in Int, NEW r \in 0..(Capacity - 1)
    PROVE  (Capacity * m + r) % Capacity = r
<1> DEFINE a == Capacity * m + r
<1>1. a \in Int
    OBVIOUS
<1>2. /\ a \div Capacity \in Int /\ a % Capacity \in 0..(Capacity - 1)
      /\ Capacity * m + r = Capacity * (a \div Capacity) + (a % Capacity)
    BY <1>1, DivMod
<1> HIDE DEF a
<1>3. a % Capacity = r
    BY <1>2, QuotientUnique
<1> QED
    BY <1>3 DEF a

(* Two positions of one slot are at least a ring apart.                    *)
LEMMA SameSlot ==
    ASSUME NEW p \in Int, NEW q \in Int, p % Capacity = q % Capacity, p < q
    PROVE  q >= p + Capacity
<1> DEFINE m == p \div Capacity
           n == q \div Capacity
           r == p % Capacity
<1>1. /\ m \in Int /\ n \in Int /\ r \in 0..(Capacity - 1)
      /\ p = Capacity * m + r /\ q = Capacity * n + r
    BY DivMod
<1> HIDE DEF m, n, r
<1>2. CASE n <= m
  <2>1. Capacity * (m - n) >= 0
    BY <1>1, <1>2
  <2> QED
    BY <1>1, <2>1
<1>3. CASE n > m
  <2>1. n - m - 1 \in Nat /\ Capacity * (n - m - 1) >= 0
    BY <1>1, <1>3
  <2> QED
    BY <1>1, <2>1
<1> QED
    BY <1>1, <1>2, <1>3

(* Slot i is the slot of the first position from b on that it can hold.    *)
LEMMA SlotOfRun ==
    ASSUME NEW b \in Int, NEW i \in 0..(Capacity - 1)
    PROVE  (b + ((i - b) % Capacity)) % Capacity = i
<1> DEFINE m == (i - b) \div Capacity
           o == (i - b) % Capacity
<1>0. i - b \in Int
    OBVIOUS
<1>1. m \in Int /\ o \in 0..(Capacity - 1) /\ i - b = Capacity * m + o
    BY <1>0, DivMod
<1> HIDE DEF m, o
<1>2. b + o = Capacity * (-m) + i /\ -m \in Int
    BY <1>1
<1>3. (Capacity * (-m) + i) % Capacity = i
    BY <1>2, ModOf
<1>4. (b + o) % Capacity = i
    BY <1>2, <1>3
<1> QED
    BY <1>4 DEF o

(* ... and the other way round.                                            *)
LEMMA RunOfSlot ==
    ASSUME NEW b \in Int, NEW q \in b..(b + Capacity - 1)
    PROVE  ((q % Capacity) - b) % Capacity = q - b
<1> DEFINE n == q \div Capacity
           r == q % Capacity
<1>1. n \in Int /\ r \in 0..(Capacity - 1) /\ q = Capacity * n + r
    BY DivMod
<1> HIDE DEF n, r
<1>2. r - b = Capacity * (-n) + (q - b) /\ q - b \in 0..(Capacity - 1) /\ -n \in Int
    BY <1>1
<1>3. (Capacity * (-n) + (q - b)) % Capacity = q - b
    BY <1>2, ModOf
<1>4. (r - b) % Capacity = q - b
    BY <1>2, <1>3
<1> QED
    BY <1>4 DEF r

(* A run written at position b.                                            *)
RunAt(b, run) == /\ run \in Seq(Event) /\ Len(run) <= Capacity
                 /\ \A k \in 1..Len(run) : run[k].at = b + k - 1

LEMMA PutRunHolds ==
    ASSUME NEW b \in Nat, NEW run, RunAt(b, run), slots' = PutRun(b, run)
    PROVE  /\ \A q \in b..(b + Len(run) - 1) : slots'[q % Capacity] = run[q - b + 1]
           /\ \A i \in 0..(Capacity - 1) :
                  \/ slots'[i] = slots[i]
                  \/ \E q \in b..(b + Len(run) - 1) :
                         /\ slots'[i] = run[q - b + 1] /\ q % Capacity = i
                         /\ slots'[i].at = q
<1>0. Len(run) \in Nat
    BY DEF RunAt
<1>1. ASSUME NEW q \in b..(b + Len(run) - 1)
      PROVE  slots'[q % Capacity] = run[q - b + 1]
  <2>0. q \in Int /\ q \in b..(b + Capacity - 1) /\ b \in Int
    BY <1>0 DEF RunAt
  <2>1. q % Capacity \in 0..(Capacity - 1)
    BY <2>0, DivMod
  <2>2. ((q % Capacity) - b) % Capacity = q - b
    BY <2>0, RunOfSlot
  <2> QED
    BY <1>0, <2>0, <2>1, <2>2 DEF PutRun
<1>2. ASSUME NEW i \in 0..(Capacity - 1), slots'[i] # slots[i]
      PROVE  \E q \in b..(b + Len(run) - 1) :
                 /\ slots'[i] = run[q - b + 1] /\ q % Capacity = i
                 /\ slots'[i].at = q
  <2> DEFINE o == (i - b) % Capacity
  <2>1. o \in 0..(Capacity - 1) /\ (b + o) % Capacity = i
    BY DivMod, SlotOfRun
  <2>2. slots'[i] = IF o < Len(run) THEN run[o + 1] ELSE slots[i]
    BY DEF PutRun
  <2> HIDE DEF o
  <2>3. o < Len(run) /\ slots'[i] = run[o + 1]
    BY <1>2, <2>2
  <2>4. run[o + 1].at = b + o
    BY <1>0, <2>1, <2>3 DEF RunAt
  <2>5. b + o \in b..(b + Len(run) - 1) /\ (b + o) - b = o
    BY <1>0, <2>1, <2>3
  <2> QED
    BY <2>1, <2>3, <2>4, <2>5
<1> QED
    BY <1>1, <1>2

LEMMA EventAt == \A e \in Event : e.at \in Int
BY DEF Event

(* The types the slots and positions need.                                 *)
LEMMA SlotTypes ==
    IInv => /\ slots \in [0..(Capacity - 1) -> Event]
            /\ \A i \in 0..(Capacity - 1) : slots[i] \in Event /\ slots[i].at \in Int
            /\ head \in Nat /\ tail \in Nat /\ cached \in Nat
            /\ scratch1 \in Nat \cup {NoSlot} /\ holes \in SUBSET Nat
            /\ todo \in Seq(Items) /\ ret \in {"run", "write"}
BY DEF IInv, TInv, TypeOK, SharedOK, ThreadOK, ControlOK, HistoryOK, Event

(* Writing a run that starts less than a ring before the cached head keeps *)
(* every event at home and every committed position reached.               *)
LEMMA PutKeeps ==
    ASSUME IInv, AtHome, Reaches,
           NEW b \in Nat, NEW run, RunAt(b, run), slots' = PutRun(b, run),
           cached <= b + Capacity
    PROVE  /\ AtHome'
           /\ \A p \in 0..(cached - 1) : p \in holes \/ slots'[p % Capacity].at >= p
<1>0. Len(run) \in Nat
    BY DEF RunAt
<1>1. ASSUME NEW i \in 0..(Capacity - 1)
      PROVE  \/ slots'[i] = slots[i]
             \/ \E q \in b..(b + Len(run) - 1) : q % Capacity = i /\ slots'[i].at = q
  <2>1. \A j \in 0..(Capacity - 1) :
            \/ slots'[j] = slots[j]
            \/ \E q \in b..(b + Len(run) - 1) :
                   /\ slots'[j] = run[q - b + 1] /\ q % Capacity = j
                   /\ slots'[j].at = q
    BY PutRunHolds, Zenon
  <2> QED
    BY <2>1
<1>2. AtHome'
    BY <1>1 DEF AtHome
<1>3. ASSUME NEW p \in 0..(cached - 1), p \notin holes
      PROVE  slots'[p % Capacity].at >= p
  <2>0. p \in Int /\ p % Capacity \in 0..(Capacity - 1) /\ cached \in Nat
    BY DivMod, SlotTypes
  <2>1. CASE slots'[p % Capacity] = slots[p % Capacity]
    BY <1>3, <2>1 DEF Reaches
  <2>2. ASSUME NEW q \in b..(b + Len(run) - 1), q % Capacity = p % Capacity,
               slots'[p % Capacity].at = q
        PROVE  slots'[p % Capacity].at >= p
    <3>0. q \in Int
        BY <1>0
    <3>1. CASE q < p
      <4>1. p >= q + Capacity
        BY <2>0, <2>2, <3>0, <3>1, SameSlot
      <4> QED
        BY <1>0, <2>0, <4>1
    <3> QED
        BY <1>0, <2>0, <2>2, <3>1
  <2> QED
    BY <1>1, <2>0, <2>1, <2>2
<1> QED
    BY <1>2, <1>3

(* A run of one event.                                                     *)
LEMMA OneRun ==
    ASSUME NEW p \in Nat, NEW k \in Kinds, NEW d \in Domains, NEW s \in Nat
    PROVE  /\ RunAt(p, <<Ev(p, k, 0, d, s)>>)
           /\ Len(<<Ev(p, k, 0, d, s)>>) = 1
           /\ <<Ev(p, k, 0, d, s)>>[1] = Ev(p, k, 0, d, s)
<1>1. Ev(p, k, 0, d, s) \in Event /\ Ev(p, k, 0, d, s).at = p
    BY EvType DEF Ev
<1> DEFINE e == Ev(p, k, 0, d, s)
<1> HIDE DEF e
<1>2. <<e>> \in Seq(Event) /\ Len(<<e>>) = 1 /\ <<e>>[1] = e
    BY <1>1 DEF e
<1>3. \A j \in 1..Len(<<e>>) : <<e>>[j].at = p + j - 1
    BY <1>1, <1>2 DEF e
<1> QED
    BY <1>2, <1>3 DEF e, RunAt

(* The runs of the pushes and of the wide writes.                          *)
LEMMA ItemRunAt ==
    ASSUME NEW it \in Items, NEW p \in Nat, NEW s \in Nat
    PROVE  RunAt(p, ItemRun(it, p, s)) /\ Len(ItemRun(it, p, s)) = ItemSlots(it)
<1>1. ItemSlots(it) \in Nat \ {0} /\ ItemSlots(it) <= Capacity
    BY DEF ItemSlots
<1>2. ItemRun(it, p, s) \in Seq(Event)
    BY RunTypes
<1>3. Len(ItemRun(it, p, s)) = ItemSlots(it)
    BY <1>1, <1>2 DEF ItemRun
<1>4. \A k \in 1..ItemSlots(it) : ItemRun(it, p, s)[k].at = p + k - 1
    BY <1>1 DEF ItemRun, Ev
<1> QED
    BY <1>1, <1>2, <1>3, <1>4 DEF RunAt

LEMMA ContRunAt ==
    ASSUME scratch1 \in Nat
    PROVE  RunAt(scratch1 + 1, ContRun) /\ Len(ContRun) = WideSlots - 1
<1>1. ContRun \in Seq(Event)
    BY RunTypes
<1>2. Len(ContRun) = WideSlots - 1
    BY <1>1 DEF ContRun
<1>3. \A k \in 1..(WideSlots - 1) : ContRun[k].at = scratch1 + 1 + k - 1
    BY DEF ContRun, Ev
<1> QED
    BY <1>1, <1>2, <1>3 DEF RunAt

(* Steps that write no slot and commit no position.                        *)
LEMMA QuietSlots ==
    ASSUME SInv, UNCHANGED <<slots, cached, cpc, rt, out, holes>>, Written', FlightInv'
    PROVE  SInv'
BY DEF SInv, AtHome, Reaches, OutInv

(* Steps that commit positions: each was written, or has become a hole.    *)
LEMMA CommitSlots ==
    ASSUME IInv, SInv, UNCHANGED <<cpc, rt, out>>, holes \subseteq holes',
           AtHome', NEW n \in Nat, cached' = cached + n,
           \A p \in 0..(cached - 1) : p \in holes \/ slots'[p % Capacity].at >= p,
           \A p \in cached..(cached + n - 1) :
               p \in holes' \/ slots'[p % Capacity].at = p,
           Written', FlightInv'
    PROVE  SInv'
<1>1. Reaches'
  <2> SUFFICES ASSUME NEW p \in 0..(cached' - 1), p \notin holes'
               PROVE  slots'[p % Capacity].at >= p
    BY DEF Reaches
  <2>0. p \in Int /\ cached \in Nat
    BY SlotTypes
  <2>1. CASE p < cached
    BY <2>0, <2>1
  <2>2. CASE p >= cached
    BY <2>0, <2>2
  <2> QED
    BY <2>0, <2>1, <2>2
<1>2. OutInv'
    BY DEF SInv, OutInv
<1> QED
    BY <1>1, <1>2 DEF SInv

(* An inline path writes its event at the cached head.                     *)
LEMMA PutInline ==
    ASSUME IInv, SInv, NEW k \in Kinds,
           slots' = PutRun(cached, <<Ev(cached, k, 0, "inline", seqI)>>)
    PROVE  /\ AtHome'
           /\ \A p \in 0..(cached - 1) : p \in holes \/ slots'[p % Capacity].at >= p
           /\ slots'[cached % Capacity] = Ev(cached, k, 0, "inline", seqI)
<1> DEFINE run == <<Ev(cached, k, 0, "inline", seqI)>>
<1>0. cached \in Nat /\ seqI \in Nat /\ "inline" \in Domains
    BY SlotTypes, StatTypes DEF Domains
<1>1. /\ RunAt(cached, run) /\ Len(run) = 1
      /\ run[1] = Ev(cached, k, 0, "inline", seqI)
    BY <1>0, OneRun
<1> HIDE DEF run
<1>2. slots' = PutRun(cached, run)
    BY DEF run
<1>3. /\ AtHome'
      /\ \A p \in 0..(cached - 1) : p \in holes \/ slots'[p % Capacity].at >= p
  <2>1. cached <= cached + Capacity
    BY <1>0
  <2> QED
    BY <1>0, <1>1, <1>2, <2>1, PutKeeps DEF SInv
<1>4. \A q \in cached..(cached + Len(run) - 1) : slots'[q % Capacity] = run[q - cached + 1]
    BY ZenonT(30), <1>0, <1>1, <1>2, PutRunHolds
<1>5. slots'[cached % Capacity] = run[1]
    BY <1>0, <1>1, <1>4
<1> QED
    BY <1>1, <1>3, <1>5

(* The inline paths.                                                       *)
LEMMA InlineSlots == IInv /\ SInv /\ Inline => SInv'
<1> SUFFICES ASSUME IInv, SInv, Inline PROVE SInv'
    OBVIOUS
<1> USE SlotTypes DEF Pushing
<1>1. CASE BbEntry
  <2>1. UNCHANGED <<cached, cpc, rt, out, holes, rdbuf>> /\ pc = "run"
    BY <1>1 DEF BbEntry, thread, engine
  <2>2. FlightInv /\ FlightInv'
    BY <1>1, <2>1 DEF SInv, FlightInv, BbEntry
  <2>3. CASE UNCHANGED <<slots, pc>>
    BY <2>1, <2>2, <2>3, QuietSlots DEF Written
  <2>4. CASE /\ slots' = PutRun(cached, <<Ev(cached, "one", 0, "inline", seqI)>>)
             /\ pc' = "bb"
    <3>1. /\ AtHome'
          /\ \A p \in 0..(cached - 1) : p \in holes \/ slots'[p % Capacity].at >= p
          /\ slots'[cached % Capacity].at = cached
      <4>1. "one" \in Kinds
        BY DEF Kinds
      <4>2. /\ AtHome'
            /\ \A p \in 0..(cached - 1) : p \in holes \/ slots'[p % Capacity].at >= p
            /\ slots'[cached % Capacity] = Ev(cached, "one", 0, "inline", seqI)
        BY <2>4, <4>1, PutInline
      <4> QED
        BY <4>2 DEF Ev
    <3>2. Written'
        BY <2>1, <2>4, <3>1 DEF Written
    <3> QED
        BY <2>1, <2>2, <3>1, <3>2 DEF SInv, Reaches, OutInv
  <2> QED
    BY <1>1, <2>3, <2>4 DEF BbEntry
<1>2. CASE BbCommit
  <2>1. /\ UNCHANGED <<slots, cpc, rt, out, holes, rdbuf>> /\ pc = "bb" /\ pc' = "run"
        /\ cached' = cached + 1
    BY <1>2 DEF BbCommit, engine, history, CommitInline
  <2>2. FlightInv' /\ Written' /\ AtHome'
    BY <2>1 DEF SInv, FlightInv, Written, AtHome
  <2>3. \A p \in cached..(cached + 1 - 1) : p \in holes' \/ slots'[p % Capacity].at = p
    BY <2>1 DEF SInv, Written
  <2>4. \A p \in 0..(cached - 1) : p \in holes \/ slots'[p % Capacity].at >= p
    BY <2>1 DEF SInv, Reaches
  <2> QED
    BY <2>1, <2>2, <2>3, <2>4, CommitSlots
<1>3. ASSUME NEW w \in BOOLEAN, PreWrite(w) PROVE SInv'
  <2>1. /\ UNCHANGED <<cached, cpc, rt, out, holes, rdbuf>> /\ pc' = "write"
        /\ scratch1' \in {NoSlot, cached}
    BY <1>3 DEF PreWrite, engine
  <2>2. FlightInv' /\ Written'
    BY <2>1 DEF SInv, FlightInv, Written
  <2>3. CASE UNCHANGED slots
    BY <2>1, <2>2, <2>3, QuietSlots
  <2>4. CASE slots' = PutRun(cached, <<Ev(cached, IF w THEN "wide" ELSE "one", 0,
                                          "inline", seqI)>>)
    <3>1. /\ AtHome'
          /\ \A p \in 0..(cached - 1) : p \in holes \/ slots'[p % Capacity].at >= p
      <4>1. (IF w THEN "wide" ELSE "one") \in Kinds
        BY DEF Kinds
      <4> QED
        BY <2>4, <4>1, PutInline
    <3> QED
        BY <2>1, <2>2, <3>1 DEF SInv, Reaches, OutInv
  <2> QED
    BY <1>3, <2>3, <2>4 DEF PreWrite
<1>4. CASE StoreFaults
  <2>1. UNCHANGED <<slots, cached, cpc, rt, out, holes, rdbuf>> /\ pc' = "run"
    BY <1>4 DEF StoreFaults, shared, thread, engine
  <2> QED
    BY <2>1, QuietSlots DEF SInv, FlightInv, Written
<1>5. CASE PostWrite
  <2>1. UNCHANGED <<cpc, rt, out, rdbuf, scratch1>> /\ pc = "write" /\ pc' \in {"run", "post"}
    BY <1>5 DEF PostWrite, engine
  <2>2. FlightInv' /\ Written'
    BY <2>1 DEF SInv, FlightInv, Written
  <2>3. CASE UNCHANGED <<slots, cached, holes>>
    BY <2>1, <2>2, <2>3, QuietSlots
  <2>4. CASE /\ scratch1 # NoSlot
             /\ slots' = PutRun(scratch1 + 1, ContRun)
             /\ cached' = cached + WideSlots - 1
             /\ holes' = holes \cup Unwritten(cached, cached')
    <3>1. /\ scratch1 \in Nat /\ scratch1 + 1 \in Nat
          /\ cached <= scratch1 + 1 + Capacity
        BY SMTT(30), <2>1, <2>4 DEF SInv, FlightInv
    <3>2. RunAt(scratch1 + 1, ContRun)
        BY <3>1, ContRunAt
    <3>3. /\ AtHome'
          /\ \A p \in 0..(cached - 1) : p \in holes \/ slots'[p % Capacity].at >= p
        BY <2>4, <3>1, <3>2, PutKeeps DEF SInv
    <3>4. WideSlots - 1 \in Nat /\ cached' = cached + (WideSlots - 1)
        BY <2>4
    <3>5. \A p \in cached..(cached + (WideSlots - 1) - 1) :
              p \in holes' \/ slots'[p % Capacity].at = p
        BY <2>4, <3>4 DEF Unwritten
    <3>6. holes \subseteq holes'
        BY <2>4
    <3> QED
        BY <2>1, <2>2, <3>3, <3>4, <3>5, <3>6, CommitSlots
  <2> QED
    BY <1>5, <2>3, <2>4 DEF PostWrite
<1>6. CASE PostCommit
  <2>1. /\ UNCHANGED <<slots, cpc, rt, out, rdbuf>> /\ pc' = "run"
        /\ cached' = cached + 1 /\ holes' = holes \cup Unwritten(cached, cached')
    BY <1>6 DEF PostCommit, engine, CommitInline
  <2>2. FlightInv' /\ Written' /\ AtHome' /\ holes \subseteq holes'
    BY <2>1 DEF SInv, FlightInv, Written, AtHome
  <2>3. \A p \in cached..(cached + 1 - 1) : p \in holes' \/ slots'[p % Capacity].at = p
    BY <2>1 DEF Unwritten
  <2>4. \A p \in 0..(cached - 1) : p \in holes \/ slots'[p % Capacity].at >= p
    BY <2>1 DEF SInv, Reaches
  <2> QED
    BY <2>1, <2>2, <2>3, <2>4, CommitSlots
<1>7. CASE BlockEnd
  <2>1. UNCHANGED <<slots, cached, cpc, rt, out, holes, rdbuf, pc>> /\ pc = "run"
    BY <1>7 DEF BlockEnd, control, engine, history
  <2> QED
    BY <2>1, QuietSlots DEF SInv, FlightInv, Written
<1> QED
    BY <1>1, <1>2, <1>3, <1>4, <1>5, <1>6, <1>7 DEF Inline

(* Clean calls push at the published head.                                 *)
LEMMA CleanSlots == IInv /\ SInv /\ Clean => SInv'
<1> SUFFICES ASSUME IInv, SInv, Clean PROVE SInv'
    OBVIOUS
<1> USE SlotTypes DEF Pushing
<1>1. ASSUME NEW items, pc = "run", CleanCall(items),
             UNCHANGED <<slots, cached, cpc, rt, out, holes, rdbuf, scratch1>>
      PROVE  SInv'
  <2>1. pc' = "push" /\ ret' = "run" /\ head' = cached
    BY <1>1 DEF CleanCall
  <2>2. FlightInv' /\ Written'
    BY <1>1, <2>1 DEF SInv, FlightInv, Written
  <2> QED
    BY <1>1, <2>2, QuietSlots
<1>2. CASE AtCall
    BY <1>1, <1>2 DEF AtCall, engine, history
<1>3. ASSUME NEW op, PushOne(op) PROVE SInv'
    BY <1>1, <1>3 DEF PushOne, engine, history
<1>4. ASSUME NEW it \in {"read", "prio"}, AtMemReadBuf(it) PROVE SInv'
  <2>1. UNCHANGED <<slots, head, cached, cpc, rt, out, holes, pc, ret, todo, scratch1>>
    BY <1>4 DEF AtMemReadBuf, shared, engine
  <2>2. Len(rdbuf') <= RdBufCap
    BY <1>4 DEF AtMemReadBuf, SInv, FlightInv, IInv, TInv, TypeOK, ThreadOK
  <2>3. FlightInv' /\ Written'
    BY <2>1, <2>2 DEF SInv, FlightInv, Written, PushSlots
  <2> QED
    BY <2>1, <2>3, QuietSlots
<1>5. CASE FlushReadBuf
  <2>1. /\ UNCHANGED <<slots, cached, cpc, rt, out, holes, scratch1>>
        /\ pc' = "push" /\ head' = cached /\ ret' = pc /\ todo' = rdbuf /\ rdbuf' = <<>>
        /\ pc = "write" => scratch1 \in {NoSlot, cached}
    BY <1>5 DEF FlushReadBuf, CleanCall, engine, history
  <2>2. /\ Len(rdbuf) <= RdBufCap /\ Len(rdbuf') = 0
        /\ \A k \in 1..Len(rdbuf) : rdbuf[k] \in {"read", "prio"}
    BY <2>1 DEF SInv, FlightInv, IInv, TInv, TypeOK, ThreadOK
  <2>3. FlightInv' /\ Written'
    BY <2>1, <2>2 DEF FlightInv, Written
  <2> QED
    BY <2>1, <2>3, QuietSlots
<1>6. ASSUME NextItem, todo # <<>>
      PROVE  /\ pc' \in {"push", "run", "write"} /\ Len(todo') = Len(todo) - 1
             /\ Len(todo) \in Nat /\ \A k \in 1..Len(todo') : todo'[k] = todo[k + 1]
             /\ pc' = "push" => ret' = ret
             /\ pc' = "write" => ret = "write"
    BY <1>6 DEF NextItem
<1>7. Pushing => todo # <<>>
    BY DEF IInv, TInv, PushShape
<1>8. CASE PushCheck
  <2>1. UNCHANGED <<slots, head, cached, cpc, rt, out, holes, scratch1, rdbuf>> /\ pc = "push"
    BY <1>8 DEF PushCheck, shared, engine
  <2>2. CASE NextItem
    <3>0. /\ pc' \in {"push", "run", "write"} /\ Len(todo') = Len(todo) - 1
          /\ Len(todo) \in Nat /\ \A k \in 1..Len(todo') : todo'[k] = todo[k + 1]
          /\ pc' = "push" => ret' = ret
          /\ pc' = "write" => ret = "write"
        BY <1>6, <1>7, <2>1, <2>2
    <3>1. ret = "write" => \A k \in 1..Len(todo') : todo'[k] \in {"read", "prio"}
      <4>1. \A k \in 1..Len(todo') : k + 1 \in 1..Len(todo)
        BY <3>0
      <4> QED
        BY <2>1, <3>0, <4>1 DEF SInv, FlightInv
    <3>2. FlightInv' /\ Written'
        BY <2>1, <3>0, <3>1 DEF SInv, FlightInv, Written
    <3> QED
        BY <2>1, <3>2, QuietSlots
  <2>3. CASE pc' = "slot" /\ UNCHANGED <<todo, ret>>
    <3>1. FlightInv' /\ Written'
        BY <2>1, <2>3 DEF SInv, FlightInv, Written
    <3> QED
        BY <2>1, <3>1, QuietSlots
  <2> QED
    BY <1>8, <2>2, <2>3 DEF PushCheck
<1>9. CASE PushSlot
  <2> DEFINE run == ItemRun(Head(todo), head, seqC - 1)
  <2>1. /\ UNCHANGED <<head, cached, cpc, rt, out, holes, scratch1, rdbuf, todo, ret>>
        /\ pc = "slot" /\ pc' = "publish" /\ slots' = PutRun(head, run)
    BY <1>9 DEF PushSlot, thread, engine, history
  <2>2. Head(todo) \in Items /\ seqC - 1 \in Nat /\ head = cached
    BY <1>7, <2>1 DEF IInv, TInv, PushShape, TypeOK, ThreadOK, SInv, FlightInv
  <2>3. RunAt(head, run) /\ Len(run) = PushSlots
    BY <2>2, ItemRunAt DEF PushSlots
  <2> HIDE DEF run
  <2>4. /\ AtHome'
        /\ \A p \in 0..(cached - 1) : p \in holes \/ slots'[p % Capacity].at >= p
    <3>1. cached <= head + Capacity
        BY <2>2
    <3> QED
        BY <2>1, <2>3, <3>1, PutKeeps DEF SInv
  <2>5. \A q \in head..(head + Len(run) - 1) : slots'[q % Capacity] = run[q - head + 1]
    BY SMTT(30), <2>1, <2>3, PutRunHolds
  <2>6. Written'
    <3>0. PushSlots' = PushSlots
        BY <2>1 DEF PushSlots
    <3>1. ASSUME NEW p \in head..(head + PushSlots - 1) PROVE slots'[p % Capacity].at = p
      <4>1. Len(run) \in Nat /\ p \in head..(head + Len(run) - 1)
        BY <2>3 DEF RunAt
      <4>2. slots'[p % Capacity] = run[p - head + 1] /\ p - head + 1 \in 1..Len(run)
        <5>1. slots'[p % Capacity] = run[p - head + 1]
            BY <2>5, <4>1, Zenon
        <5>2. \A a \in Nat, n \in Nat : \A i \in a..(a + n - 1) : i - a + 1 \in 1..n
            OBVIOUS
        <5>3. head \in Nat
            BY DEF IInv, TInv, TypeOK, SharedOK
        <5> QED
            BY <4>1, <5>1, <5>2, <5>3
      <4>3. run[p - head + 1].at = head + (p - head + 1) - 1
        BY <2>3, <4>2 DEF RunAt
      <4>4. head + (p - head + 1) - 1 = p
        <5>1. head \in Nat
            BY DEF IInv, TInv, TypeOK, SharedOK
        <5>2. \A a \in Nat, q \in Int : a + (q - a + 1) - 1 = q
            OBVIOUS
        <5>3. p \in Int
            BY <4>1, <5>1
        <5> QED
            BY <5>1, <5>2, <5>3
      <4> QED
        BY <4>2, <4>3, <4>4, Zenon
    <3> QED
        BY <2>1, <3>0, <3>1 DEF Written
  <2>7. FlightInv'
    BY <2>1 DEF SInv, FlightInv
  <2> QED
    BY <2>1, <2>4, <2>6, <2>7 DEF SInv, Reaches, OutInv
<1>10. CASE PushPublish
  <2>1. /\ UNCHANGED <<slots, cpc, rt, out, holes, scratch1, rdbuf>>
        /\ pc = "publish" /\ head' = head + PushSlots /\ cached' = head' /\ NextItem
    BY <1>10 DEF PushPublish, SyncHead, PushSlots, engine, history
  <2>2. /\ Head(todo) \in Items /\ head = cached
        /\ PushSlots \in Nat \ {0} /\ head \in Nat
    BY <1>7, <2>1 DEF SInv, FlightInv, PushSlots, ItemSlots
  <2>3. ret = "write" => PushSlots = 1
    BY <1>7, <2>1 DEF SInv, FlightInv, PushSlots, ItemSlots
  <2>4. FlightInv'
    <3> HIDE DEF PushSlots
    <3>0. /\ pc' \in {"push", "run", "write"} /\ Len(todo') = Len(todo) - 1
          /\ Len(todo) \in Nat /\ \A k \in 1..Len(todo') : todo'[k] = todo[k + 1]
          /\ pc' = "push" => ret' = ret
          /\ pc' = "write" => ret = "write"
        BY <1>6, <1>7, <2>1
    <3>1. ret = "write" => \A k \in 1..Len(todo') : todo'[k] \in {"read", "prio"}
      <4>1. \A k \in 1..Len(todo') : k + 1 \in 1..Len(todo)
        BY <3>0
      <4> QED
        BY <2>1, <3>0, <4>1 DEF SInv, FlightInv
    <3>2. (ret = "write" /\ scratch1 # NoSlot) =>
              scratch1 <= cached' /\ cached' + Len(todo') <= scratch1 + RdBufCap
        BY <2>1, <2>2, <2>3, <3>0 DEF SInv, FlightInv
    <3>4. (ret = "write" /\ scratch1 # NoSlot) => cached' <= scratch1 + RdBufCap
      <4>1. Len(todo') \in Nat /\ cached' \in Nat
        BY <1>7, <2>1, <2>2, <3>0
      <4> QED
        BY <3>2, <4>1
    <3> QED
        BY <2>1, <3>0, <3>1, <3>2, <3>4 DEF SInv, FlightInv
  <2>5. Written' /\ AtHome'
    BY <1>6, <1>7, <2>1 DEF SInv, Written, AtHome
  <2>6. \A p \in cached..(cached + PushSlots - 1) :
            p \in holes' \/ slots'[p % Capacity].at = p
    BY <2>1, <2>2 DEF SInv, Written
  <2>7. \A p \in 0..(cached - 1) : p \in holes \/ slots'[p % Capacity].at >= p
    BY <2>1 DEF SInv, Reaches
  <2>8. cached' = cached + PushSlots /\ PushSlots \in Nat
    BY <2>1, <2>2
  <2> HIDE DEF PushSlots
  <2> QED
    BY <2>1, <2>4, <2>5, <2>6, <2>7, <2>8, CommitSlots
<1> QED
    BY <1>2, <1>3, <1>4, <1>5, <1>8, <1>9, <1>10
       DEF Clean, AtReturn, AtReload, WrapAlloc

(* System calls and the end write nothing.                                 *)
LEMMA EndingSlots == IInv /\ SInv /\ Ending => SInv'
<1> SUFFICES ASSUME IInv, SInv, Ending PROVE SInv'
    OBVIOUS
<1> USE DEF Pushing
<1>1. ASSUME NEW exit \in BOOLEAN, PreSyscall(exit) PROVE SInv'
    BY <1>1, QuietSlots DEF PreSyscall, thread, engine, history, SInv, FlightInv, Written
<1>2. CASE PostSyscall
    BY <1>2, QuietSlots
       DEF PostSyscall, shared, thread, engine, history, SInv, FlightInv, Written
<1>3. CASE SetTerminal
    BY <1>3, QuietSlots DEF SetTerminal, thread, engine, history, SInv, FlightInv, Written
<1>4. CASE ThreadExit
    BY <1>4, QuietSlots DEF ThreadExit, engine, SInv, FlightInv, Written
<1> QED
    BY <1>1, <1>2, <1>3, <1>4 DEF Ending

(* The engine copies slots of committed positions.                         *)
LEMMA ConsumerSlots == IInv /\ SInv /\ Consumer => SInv'
<1> SUFFICES ASSUME IInv, SInv, Consumer PROVE SInv'
    OBVIOUS
<1> USE SlotTypes, CursorTypes
<1>1. UNCHANGED <<slots, head, cached, holes, pc, ret, todo, scratch1, rdbuf>>
  <2>1. UNCHANGED <<slots, holes>>
    BY DEF Consumer, ConsumeStart, CopySlot, Recheck, RetireCheck, ProcessEvent,
           UpdateBackpressure, DrainAgain, PollDead, shared, history
  <2> QED
    BY <2>1, ConsumerFrame DEF thread, control
<1>2. AtHome' /\ Reaches' /\ Written' /\ FlightInv'
  <2>1. PushSlots' = PushSlots
    BY <1>1 DEF PushSlots
  <2> QED
    BY <1>1, <2>1 DEF SInv, AtHome, Reaches, Written, FlightInv, Pushing
<1>3. CASE CopySlot
  <2>0. /\ cpc = "copy" /\ UNCHANGED rt
        /\ out' = out \/ out' = Append(out, slots[CopyIndex])
    BY <1>3 DEF CopySlot
  <2>1. CASE out' = out
    BY <1>1, <1>2, <2>0, <2>1 DEF SInv, OutInv
  <2>2. CASE out' = Append(out, slots[CopyIndex])
    <3> DEFINE p == rt + Len(out)
    <3>1. /\ p \in 0..(cached - 1) /\ CopyIndex = p % Capacity
          /\ p % Capacity \in 0..(Capacity - 1)
      <4>1. p \in Nat /\ p < cached
        BY <2>0 DEF IInv, RInv, ConsumerInv, CursorOrder
      <4> HIDE DEF p
      <4>2. p \in Int
        BY <4>1
      <4>3. p % Capacity \in 0..(Capacity - 1)
        BY <4>2, DivMod
      <4> QED
        BY SMTT(30), <4>1, <4>3 DEF CopyIndex, p
    <3>2. \/ p \in holes
          \/ /\ slots[CopyIndex].at >= p
             /\ slots[CopyIndex].at % Capacity = p % Capacity
      <4>1. p \in Nat /\ slots[CopyIndex].at \in Int
        BY <3>1
      <4>2. p \in holes \/ slots[CopyIndex].at >= p
        BY <3>1 DEF SInv, Reaches
      <4>3. slots[CopyIndex].at = -1 \/ slots[CopyIndex].at % Capacity = p % Capacity
        BY <3>1 DEF SInv, AtHome
      <4> QED
        BY SMTT(30), <4>1, <4>2, <4>3
    <3>3. Len(out') = Len(out) + 1 /\ out'[Len(out) + 1] = slots[CopyIndex]
        BY <2>2, <3>1
    <3>4. \A k \in 1..Len(out) : out'[k] = out[k]
        BY <2>2, <3>1
    <3>5. ASSUME NEW k \in 1..Len(out')
          PROVE  \/ rt + k - 1 \in holes
                 \/ /\ out'[k].at >= rt + k - 1
                    /\ out'[k].at % Capacity = (rt + k - 1) % Capacity
      <4>1. CASE k \in 1..Len(out)
        BY <2>0, <3>4, <4>1 DEF SInv, OutInv
      <4>2. CASE k = Len(out) + 1
        <5>1. rt + k - 1 = p /\ out'[k] = slots[CopyIndex]
            BY <3>3, <4>2
        <5> QED
            BY <3>2, <5>1
      <4>3. k \in 1..Len(out) \/ k = Len(out) + 1
        BY <3>3
      <4> QED
        BY <4>1, <4>2, <4>3
    <3> QED
        BY <1>1, <1>2, <2>0, <3>5 DEF SInv, OutInv
  <2> QED
    BY <1>2, <2>0, <2>1, <2>2 DEF SInv
<1>4. CASE ~CopySlot
  <2>1. \/ cpc' \in {"copy", "check"} => out' = <<>>
        \/ UNCHANGED <<cpc, rt, out>>
    BY <1>4 DEF Consumer, ConsumeStart, Recheck, RetireCheck, ProcessEvent,
       UpdateBackpressure, DrainAgain, PollDead, IInv, RInv, ConsumerInv
  <2>2. OutInv'
    BY SMTT(30), <1>1, <2>1 DEF SInv, OutInv
  <2> QED
    BY <1>2, <2>2 DEF SInv
<1> QED
    BY <1>3, <1>4

LEMMA SInvInit == Init => SInv
<1> SUFFICES ASSUME Init PROVE SInv
    OBVIOUS
<1>1. AtHome
    BY DEF Init, AtHome, ZeroEvent, Ev
<1>2. Reaches /\ Written /\ FlightInv /\ OutInv
    BY DEF Init, Reaches, Written, FlightInv, Pushing, OutInv
<1> QED
    BY <1>1, <1>2 DEF SInv

LEMMA SInvNext == IInv /\ SInv /\ [Next]_vars => SInv'
<1> SUFFICES ASSUME IInv, SInv, [Next]_vars PROVE SInv'
    OBVIOUS
<1>1. CASE TripwireHit \/ UNCHANGED vars
  <2>1. /\ UNCHANGED <<slots, head, cached, cpc, rt, out, holes>>
        /\ UNCHANGED <<pc, ret, todo, scratch1, rdbuf>>
    BY <1>1 DEF TripwireHit, vars, shared, thread, control, engine, history
  <2>2. PushSlots' = PushSlots
    BY <2>1 DEF PushSlots
  <2> QED
    BY <2>1, <2>2, QuietSlots DEF SInv, FlightInv, Written, Pushing
<1> QED
    BY <1>1, InlineSlots, CleanSlots, EndingSlots, ConsumerSlots DEF Next, Producer

(* The second head check of consume_batch guarantees what IntactAt says of *)
(* every slot it hands on, whatever the producer did during the copy: a    *)
(* slot is the one of its position, or a hole, or was reused for a         *)
(* position that is not published yet.                                     *)
THEOREM DeliveriesIntact == Spec => DeliveredIntact
<1>1. IInv /\ SInv /\ [Next]_vars
        => [delivered' # delivered => \A k \in 1..Len(out) : IntactAt(k)]_vars
  <2> SUFFICES ASSUME IInv, SInv, Next, delivered' # delivered,
                      NEW k \in 1..Len(out)
               PROVE  IntactAt(k)
    BY DEF vars, engine
  <2>1. Recheck
    <3>1. Producer => delivered' = delivered
        BY AnyProducerMove DEF ProducerMove, engine
    <3> QED
        BY <3>1 DEF Next, Consumer, ConsumeStart, CopySlot, RetireCheck, ProcessEvent,
           UpdateBackpressure, DrainAgain, PollDead
  <2>2. cpc = "check" /\ ~LappedSince
    BY <2>1 DEF Recheck
  <2> DEFINE p == rt + k - 1
  <2>3. /\ p \in Nat /\ head \in Nat /\ rt \in Nat /\ rt <= p
        /\ head <= rt + Capacity
    BY SMTT(30), <2>2, CursorTypes DEF LappedSince
  <2>4. p \in holes \/ (out[k].at >= p /\ out[k].at % Capacity = p % Capacity)
    BY <2>2 DEF SInv, OutInv
  <2>5. out[k].at \in Int
    <3>1. out[k] \in Event
        BY CursorTypes
    <3> QED
        BY <3>1 DEF Event
  <2> HIDE DEF p
  <2>6. CASE p \notin holes /\ out[k].at # p
    <3>1. out[k].at >= p + Capacity
        BY <2>3, <2>4, <2>5, <2>6, SameSlot
    <3> QED
        BY <2>3, <2>5, <3>1 DEF IntactAt, p
  <2> QED
    BY <2>6 DEF IntactAt, p
<1> QED
    BY <1>1, IInvInit, IInvNext, SInvInit, SInvNext, PTL DEF Spec, DeliveredIntact

-----------------------------------------------------------------------------
(* Clean calls alone.                                                      *)

(* As long as no inline path has written, none has committed, abandoned or *)
(* begun a write.                                                          *)
LEMMA NoInlineMeans ==
    IInv /\ KInv => (NoInlineWrites <=> seqI = 0 /\ stat.abandoned = 0 /\ ~InFlight)
BY StatTypes DEF KInv, Counted, NoInlineWrites

LEMMA NoInlineNext ==
    IInv' /\ KInv' => (NoInlineWrites' <=> seqI' = 0 /\ stat'.abandoned = 0 /\ ~InFlight')
<1> SUFFICES ASSUME IInv', KInv'
             PROVE  NoInlineWrites' <=> seqI' = 0 /\ stat'.abandoned = 0 /\ ~InFlight'
    OBVIOUS
<1>1. /\ stat'.offered \in Nat /\ stat'.shed \in Nat /\ stat'.reent \in Nat
      /\ stat'.abandoned \in Nat /\ seqI' \in Nat
    BY DEF IInv, TInv, TypeOK, HistoryOK, ThreadOK, StatNames
<1> QED
    BY <1>1 DEF KInv, Counted, NoInlineWrites

(* Steps that push nothing.                                                *)
LEMMA CleanQuiet ==
    ASSUME IInv, CleanInv, pc # "publish", pc' \notin {"slot", "publish"},
           UNCHANGED <<tail, engine, torn>>,
           NoInlineWrites' => /\ NoInlineWrites /\ UNCHANGED <<slots, cached>>
                              /\ head' \in {head, cached}
    PROVE  CleanInv'
<1> SUFFICES ASSUME NoInlineWrites' PROVE CleanInv'
    BY DEF CleanInv
<1>1. NoInlineWrites /\ UNCHANGED <<slots, cached, head, tail, engine, torn>>
    BY DEF CleanInv
<1> QED
    BY <1>1 DEF CleanInv, engine

LEMMA InlineClean == IInv /\ KInv /\ IInv' /\ KInv' /\ CleanInv /\ Inline => CleanInv'
<1> SUFFICES ASSUME IInv, KInv, IInv', KInv', CleanInv, Inline PROVE CleanInv'
    OBVIOUS
<1> USE StatTypes, NoInlineMeans DEF InFlight, InWrite
<1>0. NoInlineWrites' <=> seqI' = 0 /\ stat'.abandoned = 0 /\ ~InFlight'
    BY NoInlineNext
<1>1. CASE BbEntry
  <2>1. /\ pc = "run" /\ UNCHANGED <<head, tail, engine, torn, cached, seqI, scratch1>>
        /\ pc' = "bb" \/ (UNCHANGED <<slots, pc>> /\ BumpSkipped("shed"))
    BY <1>1 DEF BbEntry, thread
  <2>2. BumpSkipped("shed") => stat'.abandoned = stat.abandoned
    BY Skipped
  <2> QED
    BY <1>0, <2>1, <2>2, CleanQuiet
<1>2. CASE BbCommit
  <2>1. pc = "bb" /\ pc' = "run" /\ seqI' = seqI + 1 /\ UNCHANGED <<tail, engine, torn>>
    BY <1>2 DEF BbCommit, CommitInline, history
  <2> QED
    BY <1>0, <2>1, CleanQuiet
<1>3. ASSUME NEW w \in BOOLEAN, PreWrite(w) PROVE CleanInv'
  <2>1. /\ pc = "run" /\ pc' = "write"
        /\ UNCHANGED <<head, tail, engine, torn, cached, seqI>>
        /\ \/ scratch1' = cached
           \/ /\ scratch1' = NoSlot /\ UNCHANGED slots
              /\ BumpSkipped("shed") \/ BumpSkipped("reent")
    BY <1>3 DEF PreWrite
  <2>2. BumpSkipped("shed") \/ BumpSkipped("reent") => stat'.abandoned = stat.abandoned
    BY Skipped
  <2>3. cached # NoSlot
    BY SlotTypes DEF NoSlot
  <2> QED
    BY <1>0, <2>1, <2>2, <2>3, CleanQuiet
<1>4. CASE StoreFaults
  <2>1. /\ pc = "write" /\ pc' = "run"
        /\ UNCHANGED <<slots, head, tail, engine, torn, cached, seqI, scratch1>>
        /\ stat'.abandoned = stat.abandoned + (IF scratch1 # NoSlot THEN 1 ELSE 0)
    BY <1>4 DEF StoreFaults, shared, thread, StatNames
  <2> QED
    BY <1>0, <2>1, CleanQuiet
<1>5. CASE PostWrite
  <2>1. /\ pc = "write" /\ UNCHANGED <<head, tail, engine, torn, seqI, scratch1, stat>>
        /\ pc' = "post" \/ (pc' = "run" /\ scratch1 = NoSlot /\ UNCHANGED <<slots, cached>>)
    BY <1>5 DEF PostWrite
  <2> QED
    BY <1>0, <2>1, CleanQuiet
<1>6. CASE PostCommit
  <2>1. pc = "post" /\ pc' = "run" /\ seqI' = seqI + 1 /\ UNCHANGED <<tail, engine, torn>>
    BY <1>6 DEF PostCommit, CommitInline
  <2> QED
    BY <1>0, <2>1, CleanQuiet
<1>7. CASE BlockEnd
  <2>1. /\ pc = "run" /\ UNCHANGED <<pc, slots, tail, engine, torn, seqI, scratch1, cached>>
        /\ UNCHANGED stat /\ head' = cached
    BY <1>7 DEF BlockEnd, control, history
  <2> QED
    BY <1>0, <2>1, CleanQuiet
<1> QED
    BY <1>1, <1>2, <1>3, <1>4, <1>5, <1>6, <1>7 DEF Inline

LEMMA EndingClean == IInv /\ KInv /\ IInv' /\ KInv' /\ CleanInv /\ Ending => CleanInv'
<1> SUFFICES ASSUME IInv, KInv, IInv', KInv', CleanInv, Ending PROVE CleanInv'
    OBVIOUS
<1>1. ASSUME NEW exit \in BOOLEAN, PreSyscall(exit) PROVE CleanInv'
    BY <1>1, CleanQuiet DEF PreSyscall, thread, history, NoInlineWrites
<1>2. CASE PostSyscall
    BY <1>2, CleanQuiet DEF PostSyscall, shared, thread, history, NoInlineWrites
<1>3. CASE SetTerminal
    BY <1>3, CleanQuiet DEF SetTerminal, thread, history, NoInlineWrites
<1>4. CASE ThreadExit
  <2>1. /\ stat'.offered = stat.offered /\ stat'.shed = stat.shed
        /\ stat'.reent = stat.reent
    BY <1>4, StatTypes DEF ThreadExit, StatNames
  <2> QED
    BY <1>4, <2>1, CleanQuiet DEF ThreadExit, NoInlineWrites
<1> QED
    BY <1>1, <1>2, <1>3, <1>4 DEF Ending

LEMMA CleanClean ==
    IInv /\ SInv /\ KInv /\ CleanInv /\ Clean => CleanInv'
<1> SUFFICES ASSUME IInv, SInv, KInv, CleanInv, Clean PROVE CleanInv'
    OBVIOUS
<1>1. CASE AtCall
    BY <1>1, CleanQuiet DEF AtCall, CleanCall, history, NoInlineWrites
<1>2. ASSUME NEW op, PushOne(op) PROVE CleanInv'
    BY <1>2, CleanQuiet DEF PushOne, CleanCall, history, NoInlineWrites
<1>3. ASSUME NEW it \in {"read", "prio"}, AtMemReadBuf(it) PROVE CleanInv'
  <2>1. /\ stat'.offered = stat.offered /\ stat'.shed = stat.shed
        /\ stat'.reent = stat.reent
    BY <1>3, StatTypes DEF AtMemReadBuf, Bump, StatNames
  <2> QED
    BY <1>3, <2>1, CleanQuiet DEF AtMemReadBuf, shared, NoInlineWrites
<1>4. CASE FlushReadBuf
    BY <1>4, CleanQuiet DEF FlushReadBuf, CleanCall, history, NoInlineWrites
<1>5. CASE PushCheck
  <2>1. /\ stat'.offered = stat.offered /\ stat'.shed = stat.shed
        /\ stat'.reent = stat.reent
    BY <1>5, StatTypes DEF PushCheck, StatNames
  <2>2. pc = "push" /\ UNCHANGED <<slots, head, tail, cached, engine, torn>>
    BY <1>5 DEF PushCheck, shared
  <2>3. CASE NextItem
    <3>1. pc' \notin {"slot", "publish"}
        BY <2>3, SlotTypes DEF NextItem
    <3> QED
        BY <2>1, <2>2, <3>1, CleanQuiet DEF NoInlineWrites
  <2>4. CASE ~Full(Head(todo)) /\ pc' = "slot" /\ todo' = todo
    <3>1. PushSlots' = PushSlots
        BY <2>4 DEF PushSlots
    <3>2. head - tail + PushSlots <= Capacity
      <4>1. Head(todo) \in Items
        BY <2>2, SlotTypes DEF IInv, TInv, PushShape
      <4>2. PushSlots \in Nat /\ head \in Nat /\ tail \in Nat
        BY <4>1, SlotTypes DEF PushSlots, ItemSlots
      <4>3. ~(head - tail + PushSlots > Capacity)
        BY <2>4 DEF Full, PushSlots
      <4> QED
        BY <4>2, <4>3
    <3> QED
        BY <2>1, <2>2, <2>4, <3>1, <3>2 DEF CleanInv, NoInlineWrites, engine
  <2> QED
    BY <1>5, <2>3, <2>4 DEF PushCheck
<1>6. ASSUME pc \in {"slot", "publish"}
      PROVE  /\ Head(todo) \in Items /\ PushSlots \in Nat \ {0}
             /\ head = cached /\ head \in Nat /\ tail \in Nat
  <2>1. Head(todo) \in Items
    BY <1>6, SlotTypes DEF IInv, TInv, PushShape
  <2> QED
    BY <1>6, <2>1, SlotTypes DEF PushSlots, ItemSlots, SInv, FlightInv, Pushing
<1>7. CASE PushSlot
  <2> DEFINE run == ItemRun(Head(todo), head, seqC - 1)
  <2>1. /\ UNCHANGED <<head, tail, cached, engine, torn, stat, todo>>
        /\ pc = "slot" /\ pc' = "publish" /\ slots' = PutRun(head, run)
    BY <1>7 DEF PushSlot, thread, history
  <2>2. seqC - 1 \in Nat
    BY <2>1 DEF IInv, TInv, PushShape, TypeOK, ThreadOK
  <2>3. RunAt(head, run) /\ Len(run) = PushSlots
    BY <1>6, <2>1, <2>2, ItemRunAt DEF PushSlots
  <2> HIDE DEF run
  <2>4. PushSlots' = PushSlots
    BY <2>1 DEF PushSlots
  <2>5. ASSUME NoInlineWrites, NEW i \in 0..(Capacity - 1)
        PROVE  slots'[i].at < head + PushSlots
    <3>1. \A j \in 0..(Capacity - 1) :
            \/ slots'[j] = slots[j]
            \/ \E q \in head..(head + Len(run) - 1) :
                   /\ slots'[j] = run[q - head + 1] /\ q % Capacity = j
                   /\ slots'[j].at = q
        BY <1>6, <2>1, <2>3, PutRunHolds, Zenon
    <3>2. CASE slots'[i] = slots[i]
      <4>1. slots[i].at < head + 0 /\ slots[i].at \in Int
        BY <2>1, <2>5, SlotTypes DEF CleanInv
      <4> QED
        BY <1>6, <2>1, <3>2, <4>1
    <3>3. CASE \E q \in head..(head + Len(run) - 1) : slots'[i].at = q
        BY <1>6, <2>1, <2>3, <3>3
    <3> QED
        BY <3>1, <3>2, <3>3
  <2>6. CleanInv /\ (NoInlineWrites' <=> NoInlineWrites)
    BY <2>1 DEF NoInlineWrites
  <2> QED
    BY <2>1, <2>4, <2>5, <2>6 DEF CleanInv, engine
<1>8. CASE PushPublish
  <2>1. /\ UNCHANGED <<slots, tail, engine, torn, stat>>
        /\ pc = "publish" /\ head' = head + PushSlots /\ cached' = head'
        /\ pc' \notin {"slot", "publish"}
    BY <1>8, SlotTypes DEF PushPublish, SyncHead, PushSlots, NextItem, history
  <2>2. NoInlineWrites' <=> NoInlineWrites
    BY <2>1 DEF NoInlineWrites
  <2>3. PushSlots \in Nat /\ head \in Nat /\ tail \in Nat
    BY <1>6, <2>1
  <2>4. head + PushSlots - tail <= Capacity
    <3>1. head - tail + PushSlots <= Capacity
        BY <2>1 DEF CleanInv
    <3> HIDE DEF PushSlots
    <3> QED
        BY <2>3, <3>1
  <2>5. ASSUME NoInlineWrites
        PROVE  \A i \in 0..(Capacity - 1) : slots'[i].at < head' + 0
    <3> HIDE DEF PushSlots
    <3>1. \A i \in 0..(Capacity - 1) : slots[i].at < head + PushSlots
        BY <2>1, <2>5 DEF CleanInv
    <3>2. head + PushSlots = (head + PushSlots) + 0
        BY <2>3
    <3> QED
        BY <2>1, <3>1, <3>2
  <2>6. ASSUME NoInlineWrites
        PROVE  /\ head' = cached' /\ head' - tail' <= Capacity
               /\ lapped' = 0 /\ ~torn'
               /\ cpc' \in {"copy", "check"} =>
                      \A k \in 1..Len(out') : out'[k].at <= rt' + k - 1
    <3>1. head' - tail' <= Capacity
        BY <2>1, <2>3, <2>4
    <3> QED
        BY <2>1, <2>6, <3>1 DEF CleanInv, engine
  <2>7. (IF pc' = "publish" THEN PushSlots' ELSE 0) = 0
    BY <2>1
  <2> QED
    BY <2>1, <2>2, <2>5, <2>6, <2>7 DEF CleanInv
<1> QED
    BY <1>1, <1>2, <1>3, <1>4, <1>5, <1>7, <1>8
       DEF Clean, AtReturn, AtReload, WrapAlloc

LEMMA ConsumerClean == IInv /\ SInv /\ CleanInv /\ Consumer => CleanInv'
<1> SUFFICES ASSUME IInv, SInv, CleanInv, Consumer PROVE CleanInv'
    OBVIOUS
<1> USE SlotTypes, CursorTypes
<1>1. UNCHANGED <<slots, head, cached, pc, todo, stat>>
  <2>1. UNCHANGED slots
    BY DEF Consumer, ConsumeStart, CopySlot, Recheck, RetireCheck, ProcessEvent,
           UpdateBackpressure, DrainAgain, PollDead, shared
  <2> QED
    BY <2>1, ConsumerFrame, ConsumerKeepsStat DEF thread, control
<1>2. PushSlots' = PushSlots /\ (NoInlineWrites' <=> NoInlineWrites)
    BY <1>1 DEF PushSlots, NoInlineWrites
<1>3. pc \in {"slot", "publish"} => PushSlots \in Nat
  <2>1. pc \in {"slot", "publish"} => Head(todo) \in Items
    BY DEF IInv, TInv, PushShape
  <2> QED
    BY <2>1 DEF PushSlots, ItemSlots
<1>4. ASSUME tail' \in Nat, tail <= tail',
             NoInlineWrites =>
                 /\ lapped' = 0 /\ ~torn'
                 /\ cpc' \in {"copy", "check"} =>
                        \A k \in 1..Len(out') : out'[k].at <= rt' + k - 1
      PROVE  CleanInv'
  <2> HIDE DEF PushSlots
  <2>1. pc \in {"slot", "publish"} => head - tail' + PushSlots <= Capacity
    <3>1. \A h, t, u, n \in Nat : h - t + n <= Capacity /\ t <= u => h - u + n <= Capacity
        OBVIOUS
    <3> QED
        BY <1>3, <1>4, <3>1 DEF CleanInv
  <2>2. NoInlineWrites => head - tail' <= Capacity
    BY <1>4 DEF CleanInv
  <2> QED
    BY <1>1, <1>2, <1>4, <2>1, <2>2 DEF CleanInv
<1>5. CASE ConsumeStart
  <2>1. UNCHANGED <<tail, torn, out>> /\ out = <<>>
    BY <1>5 DEF ConsumeStart, shared, history, IInv, RInv, ConsumerInv
  <2>2. NoInlineWrites => lapped' = 0
    BY <1>5 DEF ConsumeStart, CleanInv
  <2> QED
    BY <1>4, <2>1, <2>2 DEF CleanInv
<1>6. CASE CopySlot
  <2>1. /\ UNCHANGED <<tail, torn, lapped, rt>> /\ cpc = "copy"
        /\ out' = out \/ out' = Append(out, slots[CopyIndex])
    BY <1>6 DEF CopySlot, shared, history
  <2>2. ASSUME NoInlineWrites, out' = Append(out, slots[CopyIndex]),
               NEW k \in 1..Len(out')
        PROVE  out'[k].at <= rt + k - 1
    <3> DEFINE p == rt + Len(out)
    <3>1. /\ p \in Nat /\ CopyIndex = p % Capacity
          /\ tail <= p
        BY SMTT(30), <2>1 DEF IInv, RInv, ConsumerInv, CopyIndex
    <3> HIDE DEF p
    <3>2. p \in Int
        BY <3>1
    <3>3. CopyIndex \in 0..(Capacity - 1)
        BY <3>1, <3>2, DivMod
    <3>4. slots[CopyIndex].at < tail + Capacity
      <4>1. slots[CopyIndex].at < head + (IF pc = "publish" THEN PushSlots ELSE 0)
        BY <2>2, <3>3 DEF CleanInv
      <4>2. head + (IF pc = "publish" THEN PushSlots ELSE 0) <= tail + Capacity
        <5> HIDE DEF PushSlots
        <5> QED
            BY SMTT(30), <1>3, <2>2 DEF CleanInv
      <4>3. (IF pc = "publish" THEN PushSlots ELSE 0) \in Nat
        BY <1>3
      <4> QED
        BY SMTT(30), <3>3, <4>1, <4>2, <4>3
    <3>5. slots[CopyIndex].at <= p
      <4>1. slots[CopyIndex].at \in Int
        BY <3>3
      <4>2. slots[CopyIndex].at = -1 \/ slots[CopyIndex].at % Capacity = p % Capacity
        BY <3>1, <3>3 DEF SInv, AtHome
      <4>3. CASE p < slots[CopyIndex].at
        <5>1. p % Capacity = slots[CopyIndex].at % Capacity
            BY SMTT(30), <3>1, <4>1, <4>2, <4>3
        <5>2. slots[CopyIndex].at >= p + Capacity
            BY <3>2, <4>1, <4>3, <5>1, SameSlot
        <5>3. \A a, b, t \in Int : a >= b + Capacity /\ a < t + Capacity => ~(t <= b)
            OBVIOUS
        <5>4. tail \in Int
            OBVIOUS
        <5> QED
            BY <3>1, <3>2, <3>4, <4>1, <5>2, <5>3, <5>4
      <4> QED
        BY SMTT(30), <3>2, <4>1, <4>3
    <3>6. CASE k \in 1..Len(out)
      <4>1. out'[k] = out[k]
        BY <2>2, <3>3, <3>6
      <4> QED
        BY <2>1, <2>2, <3>6, <4>1 DEF CleanInv
    <3>7. CASE k = Len(out) + 1
      <4>1. out'[k] = slots[CopyIndex] /\ rt + k - 1 = p
        BY <2>2, <3>3, <3>7 DEF p
      <4> QED
        BY <3>5, <4>1
    <3>8. k \in 1..Len(out) \/ k = Len(out) + 1
        BY <2>2, <3>3
    <3> QED
        BY <3>6, <3>7, <3>8
  <2>3. NoInlineWrites => \A k \in 1..Len(out') : out'[k].at <= rt' + k - 1
    BY <2>1, <2>2 DEF CleanInv
  <2>4. NoInlineWrites => lapped' = 0 /\ ~torn'
    BY <2>1 DEF CleanInv
  <2> QED
    BY <1>4, <2>1, <2>3, <2>4
<1>7. CASE Recheck
  <2>1. /\ cpc = "check" /\ cpc' = "retire"
        /\ tail <= rt /\ Len(out) \in Nat
    BY <1>7 DEF Recheck, IInv, RInv, ConsumerInv
  <2>2. CASE LappedSince /\ tail' = head - Capacity /\ UNCHANGED torn
    <3>1. head - rt > Capacity
        BY <2>2 DEF LappedSince
    <3>2. tail' \in Nat /\ tail <= tail' /\ ~NoInlineWrites
        BY SMTT(30), <2>1, <2>2, <3>1 DEF CleanInv
    <3> QED
        BY <1>4, <3>2
  <2>3. CASE /\ tail' = rt + Len(out) /\ UNCHANGED lapped
             /\ torn' = (torn \/ \E k \in 1..Len(out) : out[k].at > rt + k - 1)
    <3>1. tail' \in Nat /\ tail <= tail'
        BY <2>1, <2>3
    <3>2. NoInlineWrites => lapped' = 0 /\ ~torn'
      <4>1. ASSUME NEW k \in 1..Len(out) PROVE out[k].at \in Int /\ rt + k - 1 \in Int
        <5>1. out[k] \in Event /\ rt \in Nat
            OBVIOUS
        <5>2. out[k].at \in Int
            BY <5>1, EventAt
        <5> QED
            BY <5>1, <5>2
      <4>2. \A a, b \in Int : a <= b => ~(a > b)
        OBVIOUS
      <4> QED
        BY <2>1, <2>3, <4>1, <4>2 DEF CleanInv
    <3> QED
        BY <1>4, <2>1, <3>1, <3>2
  <2> QED
    BY <1>7, <2>2, <2>3 DEF Recheck
<1>8. CASE RetireCheck \/ ProcessEvent \/ UpdateBackpressure \/ DrainAgain \/ PollDead
  <2>1. UNCHANGED <<tail, lapped, torn>> /\ cpc' \notin {"copy", "check"}
    BY <1>8 DEF RetireCheck, ProcessEvent, UpdateBackpressure, DrainAgain, PollDead,
                shared, history
  <2> QED
    BY <1>4, <2>1 DEF CleanInv
<1> QED
    BY <1>5, <1>6, <1>7, <1>8 DEF Consumer

LEMMA CleanInvNext ==
    /\ IInv /\ SInv /\ KInv /\ IInv' /\ KInv' /\ CleanInv
    /\ [Next]_vars
    => CleanInv'
<1> SUFFICES ASSUME IInv, SInv, KInv, IInv', KInv', CleanInv, [Next]_vars
             PROVE  CleanInv'
    OBVIOUS
<1>1. CASE TripwireHit \/ UNCHANGED vars
  <2>1. /\ UNCHANGED <<slots, head, tail, cached, engine, pc, todo, stat, torn>>
    BY <1>1 DEF TripwireHit, vars, shared, thread, control, history
  <2>2. PushSlots' = PushSlots
    BY <2>1 DEF PushSlots
  <2> QED
    BY <2>1, <2>2 DEF CleanInv, NoInlineWrites, engine
<1> QED
    BY <1>1, InlineClean, CleanClean, EndingClean, ConsumerClean DEF Next, Producer

(* The full check of the clean-call pushes is enough on its own: until an  *)
(* inline path writes, no push overwrites an unread slot, so consume_batch *)
(* never counts a lap and never hands on an event of a later position.     *)
THEOREM CleanCallsNeverLap == Spec => []CleanNeverLaps
<1>1. Init => KInv
    BY DEF Init, KInv, Counted, GuardInv, AtRun, InFlight, InWrite, StatNames
<1>2. Init => CleanInv
  <2>1. Init => \A i \in 0..(Capacity - 1) : slots[i].at < 0
    BY DEF Init, ZeroEvent, Ev
  <2> QED
    BY <2>1 DEF Init, CleanInv
<1>3. CleanInv => CleanNeverLaps
    BY DEF CleanInv, CleanNeverLaps
<1> QED
    BY <1>1, <1>2, <1>3, IInvInit, IInvNext, SInvInit, SInvNext, KInvNext, CleanInvNext,
       PTL DEF Spec

-----------------------------------------------------------------------------
(* The stream.                                                             *)

(* Where the committed stream ends: the continuations of a wide write are  *)
(* counted by the cached head before its header is committed.              *)
Base == IF pc = "post" /\ wide THEN cached - (WideSlots - 1) ELSE cached

(* Slot k of the inline write that starts at position b.                   *)
WriteEv(b, k) == Ev(b + k, IF k > 0 THEN "cont" ELSE IF wide THEN "wide" ELSE "one",
                    k, "inline", IF k = 0 THEN seqI ELSE 0)

(* What the slots about to be committed hold, if the write was not moved   *)
(* by a flush of the read buffer.                                          *)
Fresh ==
    /\ pc = "bb" => slots[cached % Capacity] = Ev(cached, "one", 0, "inline", seqI)
    /\ (InWrite /\ pc # "publish" /\ scratch1 = cached) =>
           slots[cached % Capacity] = WriteEv(cached, 0)
    /\ (pc = "post" /\ scratch1 = Base) =>
           \A p \in Base..cached : slots[p % Capacity] = WriteEv(Base, p - Base)
    /\ pc = "publish" =>
           \A p \in head..(head + PushSlots - 1) :
               slots[p % Capacity] = ItemRun(Head(todo), head, seqC - 1)[p - head + 1]

(* No slot is ahead of the cached head; and when a flush has moved the     *)
(* head under a write, the position the write will commit is not written.  *)
AtMost ==
    /\ \A i \in 0..(Capacity - 1) :
           slots[i].at <= IF pc = "publish" THEN head + PushSlots - 1 ELSE cached
    /\ (InWrite /\ pc # "publish" /\ scratch1 # NoSlot /\ scratch1 < cached) =>
           \A i \in 0..(Capacity - 1) : slots[i].at < cached
    /\ pc = "post" => /\ scratch1 # NoSlot /\ scratch1 <= Base
                      /\ scratch1 < Base =>
                            \A i \in 0..(Capacity - 1) : slots[i].at < cached

(* A run the copy loop has begun fits into its batch.                      *)
RunTailInv == /\ cpc = "copy" => Len(out) + runTail <= rcap
              /\ cpc # "copy" => runTail = 0

PInv == Fresh /\ AtMost /\ head <= Base /\ RunTailInv

LEMMA StreamTypes ==
    IInv => /\ cached \in Nat /\ head \in Nat /\ tail \in Nat /\ seqI \in Nat /\ seqC \in Nat
            /\ scratch1 \in Nat \cup {NoSlot} /\ wide \in BOOLEAN
            /\ Base \in Int /\ NoSlot \notin Nat /\ NoSlot \in Int
            /\ \A i \in 0..(Capacity - 1) : slots[i].at \in Int
BY SlotTypes DEF IInv, TInv, TypeOK, SharedOK, ThreadOK, ControlOK, Base, NoSlot

(* Steps that neither write nor commit.                                    *)
LEMMA QuietFlight ==
    ASSUME IInv, PInv, UNCHANGED <<slots, cached, scratch1, wide, seqI>>,
           UNCHANGED <<cpc, rcap, out, runTail>>,
           pc \notin {"bb", "post", "publish"}, pc' \notin {"bb", "post", "publish"},
           InWrite' => InWrite, head' \in {head, cached}
    PROVE  PInv'
<1>1. Base = cached /\ Base' = cached
    BY DEF Base
<1>2. Fresh'
    BY DEF PInv, Fresh, WriteEv
<1>3. AtMost'
    BY DEF PInv, AtMost
<1>4. head' <= Base'
    BY <1>1, StreamTypes DEF PInv
<1>5. RunTailInv'
    BY DEF PInv, RunTailInv
<1> QED
    BY <1>2, <1>3, <1>4, <1>5 DEF PInv

(* Writing a run raises no slot above its last position.                   *)
LEMMA PutAtMost ==
    ASSUME IInv, NEW b \in Nat, NEW run, RunAt(b, run), slots' = PutRun(b, run),
           NEW m \in Int, \A i \in 0..(Capacity - 1) : slots[i].at <= m,
           b + Len(run) - 1 <= m
    PROVE  \A i \in 0..(Capacity - 1) : slots'[i].at <= m
<1> SUFFICES ASSUME NEW i \in 0..(Capacity - 1) PROVE slots'[i].at <= m
    OBVIOUS
<1>0. Len(run) \in Nat
    BY DEF RunAt
<1>1. \A j \in 0..(Capacity - 1) :
          \/ slots'[j] = slots[j]
          \/ \E q \in b..(b + Len(run) - 1) :
                 /\ slots'[j] = run[q - b + 1] /\ q % Capacity = j
                 /\ slots'[j].at = q
    BY PutRunHolds, Zenon
<1>2. CASE slots'[i] = slots[i]
    BY <1>2
<1>3. CASE \E q \in b..(b + Len(run) - 1) : slots'[i].at = q
    BY <1>0, <1>3
<1> QED
    BY <1>1, <1>2, <1>3

(* An inline path fills the slot at the cached head.                       *)
LEMMA PutInlineAtMost ==
    ASSUME IInv, PInv, pc = "run", NEW k \in Kinds,
           slots' = PutRun(cached, <<Ev(cached, k, 0, "inline", seqI)>>)
    PROVE  \A i \in 0..(Capacity - 1) : slots'[i].at <= cached
<1> DEFINE run == <<Ev(cached, k, 0, "inline", seqI)>>
<1>0. cached \in Nat /\ seqI \in Nat /\ "inline" \in Domains
    BY StreamTypes DEF Domains
<1>1. RunAt(cached, run) /\ Len(run) = 1
    BY <1>0, OneRun
<1> HIDE DEF run
<1>2. slots' = PutRun(cached, run)
    BY DEF run
<1>3. \A i \in 0..(Capacity - 1) : slots[i].at <= cached
    BY DEF PInv, AtMost
<1>4. cached \in Int /\ cached + Len(run) - 1 <= cached
    BY <1>0, <1>1
<1> QED
    BY <1>0, <1>1, <1>2, <1>3, <1>4, PutAtMost

LEMMA InlineP == IInv /\ SInv /\ PInv /\ Inline => PInv'
<1> SUFFICES ASSUME IInv, SInv, PInv, Inline PROVE PInv'
    OBVIOUS
<1> USE StreamTypes
<1>0. ASSUME UNCHANGED <<cpc, rcap, out, runTail>> PROVE RunTailInv'
    BY <1>0 DEF PInv, RunTailInv
<1>1. CASE BbEntry
  <2>1. UNCHANGED <<head, cached, scratch1, wide, seqI, cpc, rcap, out, runTail>> /\ pc = "run"
    BY <1>1 DEF BbEntry, thread, engine
  <2>2. CASE UNCHANGED <<slots, pc>>
    BY <2>1, <2>2, QuietFlight DEF InWrite
  <2>3. CASE /\ slots' = PutRun(cached, <<Ev(cached, "one", 0, "inline", seqI)>>)
             /\ pc' = "bb"
    <3>0. "one" \in Kinds
        BY DEF Kinds
    <3>1. slots'[cached % Capacity] = Ev(cached, "one", 0, "inline", seqI)
        BY <2>3, <3>0, PutInline
    <3>2. \A i \in 0..(Capacity - 1) : slots'[i].at <= cached
        BY <2>1, <2>3, <3>0, PutInlineAtMost
    <3>3. Fresh'
        BY <2>1, <2>3, <3>1 DEF Fresh, InWrite
    <3>4. AtMost'
        BY <2>1, <2>3, <3>2 DEF AtMost, InWrite
    <3>5. head' <= Base'
        BY <2>1, <2>3 DEF PInv, Base
    <3> QED
        BY <1>0, <2>1, <3>3, <3>4, <3>5 DEF PInv
  <2> QED
    BY <1>1, <2>2, <2>3 DEF BbEntry
<1>2. ASSUME UNCHANGED slots, pc' = "run", cached' = cached + 1, pc \in {"bb", "post"},
             head' \in {head, cached'}, UNCHANGED <<cpc, rcap, out, runTail>>
      PROVE  PInv'
  <2>1. Fresh'
    BY <1>2 DEF Fresh, InWrite
  <2>2. AtMost'
    <3>1. \A i \in 0..(Capacity - 1) : slots[i].at <= cached
        BY <1>2 DEF PInv, AtMost
    <3>2. \A i \in 0..(Capacity - 1) : slots'[i].at <= cached'
        BY <1>2, <3>1
    <3> QED
        BY <1>2, <3>2 DEF AtMost, InWrite
  <2>3. head' <= Base'
    BY <1>2 DEF PInv, Base
  <2> QED
    BY <1>0, <1>2, <2>1, <2>2, <2>3 DEF PInv
<1>3. CASE BbCommit
    BY <1>2, <1>3 DEF BbCommit, CommitInline, engine
<1>4. ASSUME NEW w \in BOOLEAN, PreWrite(w) PROVE PInv'
  <2>1. /\ UNCHANGED <<head, cached, seqI, cpc, rcap, out, runTail>>
        /\ pc = "run" /\ pc' = "write" /\ wide' = w
    BY <1>4 DEF PreWrite, engine
  <2>2. head' <= Base'
    BY <2>1 DEF PInv, Base
  <2>3. CASE UNCHANGED slots /\ scratch1' = NoSlot
    <3>1. Fresh'
        BY <2>1, <2>3 DEF Fresh
    <3>2. AtMost'
        BY <2>1, <2>3 DEF PInv, AtMost
    <3> QED
        BY <1>0, <2>1, <2>2, <3>1, <3>2 DEF PInv
  <2>4. CASE /\ slots' = PutRun(cached, <<Ev(cached, IF w THEN "wide" ELSE "one", 0,
                                             "inline", seqI)>>)
             /\ scratch1' = cached
    <3>0. (IF w THEN "wide" ELSE "one") \in Kinds
        BY DEF Kinds
    <3>1. slots'[cached % Capacity] = Ev(cached, IF w THEN "wide" ELSE "one", 0, "inline", seqI)
        BY <2>4, <3>0, PutInline
    <3>2. \A i \in 0..(Capacity - 1) : slots'[i].at <= cached
        BY <2>1, <2>4, <3>0, PutInlineAtMost
    <3>3. Fresh'
      <4>1. WriteEv(cached, 0)' = Ev(cached, IF w THEN "wide" ELSE "one", 0, "inline", seqI)
        BY <2>1 DEF WriteEv
      <4> QED
        BY <2>1, <3>1, <4>1 DEF Fresh
    <3>4. AtMost'
        BY <2>1, <2>4, <3>2 DEF AtMost
    <3> QED
        BY <1>0, <2>1, <2>2, <3>3, <3>4 DEF PInv
  <2> QED
    BY <1>4, <2>3, <2>4 DEF PreWrite
<1>5. CASE StoreFaults
    BY <1>5, QuietFlight DEF StoreFaults, shared, thread, engine, InWrite
<1>6. CASE PostWrite
  <2>1. /\ UNCHANGED <<head, scratch1, wide, seqI, cpc, rcap, out, runTail>> /\ pc = "write"
    BY <1>6 DEF PostWrite, engine
  <2>2. CASE pc' = "run" /\ UNCHANGED <<slots, cached>>
    BY <2>1, <2>2, QuietFlight DEF InWrite
  <2>3. CASE scratch1 # NoSlot /\ pc' = "post" /\ ~wide /\ UNCHANGED <<slots, cached>>
    <3>1. Base = cached /\ Base' = cached /\ scratch1 <= cached
        BY <2>1, <2>3 DEF Base, SInv, FlightInv
    <3>2. Fresh'
      <4>1. scratch1 = cached => slots[cached % Capacity] = WriteEv(cached, 0)
        BY <2>1 DEF PInv, Fresh, InWrite
      <4>2. WriteEv(cached, 0)' = WriteEv(cached, 0)
        BY <2>1, <2>3 DEF WriteEv
      <4>3. scratch1 = cached =>
              \A p \in cached..cached : slots'[p % Capacity] = WriteEv(cached, p - cached)'
        BY <2>1, <2>3, <4>1, <4>2
      <4> QED
        BY <2>1, <2>3, <3>1, <4>3 DEF Fresh, InWrite
    <3>3. AtMost'
        BY <2>1, <2>3, <3>1 DEF PInv, AtMost, InWrite
    <3> QED
        BY <1>0, <2>1, <3>1, <3>2, <3>3 DEF PInv
  <2>4. CASE /\ scratch1 # NoSlot /\ pc' = "post" /\ wide
             /\ slots' = PutRun(scratch1 + 1, ContRun)
             /\ cached' = cached + WideSlots - 1
    <3> DEFINE n == WideSlots - 1
    <3>0. n \in Nat /\ n < Capacity /\ cached' = cached + n /\ cached \in Nat
        BY <2>4
    <3>1. /\ Base = cached /\ scratch1 <= cached
          /\ scratch1 \in Nat /\ scratch1 + 1 \in Nat
        BY <2>1, <2>4 DEF Base, SInv, FlightInv
    <3>a. Base' = cached
      <4>1. Base' = cached' - n
        BY <2>1, <2>4 DEF Base
      <4> HIDE DEF n
      <4> QED
        BY <3>0, <4>1
    <3>2. RunAt(scratch1 + 1, ContRun) /\ Len(ContRun) = n
        BY <3>1, ContRunAt
    <3>3. \A q \in (scratch1 + 1)..(scratch1 + 1 + Len(ContRun) - 1) :
              slots'[q % Capacity] = ContRun[q - (scratch1 + 1) + 1]
        BY ZenonT(30), <2>4, <3>1, <3>2, PutRunHolds
    <3>b. \A i \in 0..(Capacity - 1) :
              \/ slots'[i] = slots[i]
              \/ \E q \in (scratch1 + 1)..(scratch1 + 1 + Len(ContRun) - 1) :
                     /\ slots'[i] = ContRun[q - (scratch1 + 1) + 1] /\ q % Capacity = i
                     /\ slots'[i].at = q
      <4> DEFINE b == scratch1 + 1
                 run == ContRun
      <4>1. b \in Nat /\ RunAt(b, run) /\ slots' = PutRun(b, run)
        BY <2>4, <3>1, <3>2
      <4> HIDE DEF b, run
      <4>2. \A i \in 0..(Capacity - 1) :
              \/ slots'[i] = slots[i]
              \/ \E q \in b..(b + Len(run) - 1) :
                     /\ slots'[i] = run[q - b + 1] /\ q % Capacity = i
                     /\ slots'[i].at = q
        BY <4>1, PutRunHolds, ZenonT(60)
      <4> QED
        BY <4>2 DEF b, run
    <3>4. ASSUME scratch1 = cached, NEW p \in cached..(cached + n)
          PROVE  slots'[p % Capacity] = WriteEv(cached, p - cached)
      <4>1. CASE p = cached
        <5>1. slots[cached % Capacity] = WriteEv(cached, 0)
            BY <2>1, <3>4 DEF PInv, Fresh, InWrite
        <5>2. slots'[cached % Capacity] = slots[cached % Capacity]
          <6>1. cached \in Int
            BY <3>0
          <6>2. cached % Capacity \in 0..(Capacity - 1)
            BY <6>1, DivMod
          <6>3. ASSUME NEW q \in (scratch1 + 1)..(scratch1 + 1 + Len(ContRun) - 1),
                       q % Capacity = cached % Capacity
                PROVE  FALSE
            <7> HIDE DEF n
            <7>1. q \in Int /\ cached < q /\ q < cached + Capacity
                BY <3>0, <3>1, <3>2, <3>4
            <7>2. q >= cached + Capacity
                BY <6>1, <6>3, <7>1, SameSlot
            <7> QED
                BY <6>1, <7>1, <7>2
          <6> QED
            BY <3>b, <6>2, <6>3
        <5>3. p - cached = 0
            BY <3>0, <4>1
        <5> QED
            BY <4>1, <5>1, <5>2, <5>3
      <4>2. CASE p > cached
        <5> HIDE DEF n
        <5>1. p - cached \in 1..n /\ p \in Nat
            BY <3>0, <4>2
        <5>2. /\ p \in (scratch1 + 1)..(scratch1 + 1 + Len(ContRun) - 1)
              /\ p - (scratch1 + 1) + 1 = p - cached
            BY <3>0, <3>2, <3>4, <4>2
        <5>3. ContRun[p - cached] = Ev(cached + (p - cached), "cont", p - cached, "inline", 0)
            BY <3>4, <5>1 DEF ContRun, n
        <5>4. WriteEv(cached, p - cached)
                = Ev(cached + (p - cached), "cont", p - cached, "inline", 0)
            BY <5>1 DEF WriteEv
        <5> QED
            BY <3>3, <5>2, <5>3, <5>4
      <4>3. p = cached \/ p > cached
        BY <3>0
      <4> QED
        BY <4>1, <4>2, <4>3
    <3>5. Fresh'
      <4>1. ASSUME scratch1 = cached, NEW p \in cached..(cached + n)
            PROVE  slots'[p % Capacity] = WriteEv(Base, p - Base)'
        BY <2>1, <3>4, <3>a, <4>1 DEF WriteEv
      <4> HIDE DEF n
      <4> QED
        BY <2>1, <2>4, <3>0, <3>a, <4>1 DEF Fresh, InWrite
    <3>6. \A i \in 0..(Capacity - 1) : slots'[i].at <= cached'
      <4>1. \A i \in 0..(Capacity - 1) : slots[i].at <= cached'
        <5>1. \A i \in 0..(Capacity - 1) : slots[i].at <= cached
            BY <2>1 DEF PInv, AtMost
        <5> QED
            BY <2>4, <5>1
      <4>2. cached' \in Int /\ scratch1 + 1 + Len(ContRun) - 1 <= cached'
        <5> HIDE DEF n
        <5> QED
            BY SMTT(30), <3>0, <3>1, <3>2
      <4> QED
        BY <2>4, <3>1, <3>2, <4>1, <4>2, PutAtMost
    <3>7. scratch1 < cached => \A i \in 0..(Capacity - 1) : slots'[i].at < cached'
      <4> SUFFICES ASSUME scratch1 < cached
                   PROVE  \A i \in 0..(Capacity - 1) : slots'[i].at < cached'
        OBVIOUS
      <4>1. \A i \in 0..(Capacity - 1) : slots[i].at <= cached' - 1
        <5>1. \A i \in 0..(Capacity - 1) : slots[i].at < cached
            BY <2>1, <2>4, <3>1 DEF PInv, AtMost, InWrite
        <5> QED
            BY <2>4, <5>1
      <4>2. cached' - 1 \in Int /\ scratch1 + 1 + Len(ContRun) - 1 <= cached' - 1
        <5> HIDE DEF n
        <5> QED
            BY SMTT(30), <3>0, <3>1, <3>2
      <4>3. \A i \in 0..(Capacity - 1) : slots'[i].at <= cached' - 1
        BY <2>4, <3>1, <3>2, <4>1, <4>2, PutAtMost
      <4>4. \A i \in 0..(Capacity - 1) : slots'[i].at \in Int
        <5>1. slots' \in [0..(Capacity - 1) -> Event]
          <6>1. scratch1 + 1 \in Int /\ ContRun \in Seq(Event)
            BY <3>1, <3>2 DEF RunAt
          <6> QED
            BY <2>4, <6>1, PutRunType, SlotTypes
        <5> QED
            BY <5>1, EventAt
      <4>5. cached' \in Int
        BY <3>0
      <4>6. \A a, c \in Int : a <= c - 1 => a < c
        OBVIOUS
      <4> QED
        BY <4>3, <4>4, <4>5, <4>6
    <3>8. AtMost'
        BY <2>1, <2>4, <3>1, <3>6, <3>7, <3>a DEF AtMost, InWrite
    <3> QED
        BY <1>0, <2>1, <3>1, <3>5, <3>8, <3>a DEF PInv
  <2> QED
    BY <1>6, <2>2, <2>3, <2>4 DEF PostWrite
<1>7. CASE PostCommit
    BY <1>2, <1>7 DEF PostCommit, CommitInline, engine
<1>8. CASE BlockEnd
    BY <1>8, QuietFlight DEF BlockEnd, control, engine, InWrite
<1> QED
    BY <1>1, <1>3, <1>4, <1>5, <1>6, <1>7, <1>8 DEF Inline

(* A clean call pushes at the published head, which is the cached one.     *)
LEMMA CleanP == IInv /\ SInv /\ PInv /\ Clean => PInv'
<1> SUFFICES ASSUME IInv, SInv, PInv, Clean PROVE PInv'
    OBVIOUS
<1> USE StreamTypes
<1>1. ASSUME NEW items, CleanCall(items), pc \in {"run", "write"},
             UNCHANGED <<slots, cached, scratch1, wide, seqI, cpc, rcap, out, runTail>>
      PROVE  PInv'
  <2>1. /\ head' = cached /\ pc' = "push" /\ ret' = pc
    BY <1>1 DEF CleanCall
  <2> QED
    BY <1>1, <2>1, QuietFlight DEF InWrite
<1>2. CASE AtCall
    BY <1>1, <1>2 DEF AtCall, engine
<1>3. ASSUME NEW op, PushOne(op) PROVE PInv'
    BY <1>1, <1>3 DEF PushOne, engine
<1>4. ASSUME NEW it \in {"read", "prio"}, AtMemReadBuf(it) PROVE PInv'
    BY <1>4, QuietFlight DEF AtMemReadBuf, shared, engine, InWrite
<1>5. CASE FlushReadBuf
    BY <1>1, <1>5 DEF FlushReadBuf, engine
<1>6. ret \in {"run", "write"}
    BY DEF IInv, TInv, TypeOK, ControlOK
<1>7. CASE PushCheck
  <2>1. /\ UNCHANGED <<slots, cached, scratch1, wide, seqI, head>>
        /\ UNCHANGED <<cpc, rcap, out, runTail>> /\ pc = "push"
        /\ NextItem \/ (pc' = "slot" /\ ret' = ret)
    BY <1>7 DEF PushCheck, shared, engine
  <2>2. pc' \notin {"bb", "post", "publish"} /\ (InWrite' => InWrite)
    BY <1>6, <2>1 DEF NextItem, InWrite
  <2> QED
    BY <2>1, <2>2, QuietFlight
<1>8. ASSUME pc \in {"slot", "publish"}
      PROVE  /\ Head(todo) \in Items /\ PushSlots \in Nat \ {0}
             /\ head = cached /\ head \in Nat
  <2>1. Head(todo) \in Items
    BY <1>8, SlotTypes DEF IInv, TInv, PushShape
  <2> QED
    BY <1>8, <2>1, SlotTypes DEF PushSlots, ItemSlots, SInv, FlightInv, Pushing
<1>9. CASE PushSlot
  <2> DEFINE run == ItemRun(Head(todo), head, seqC - 1)
  <2>1. /\ UNCHANGED <<head, cached, scratch1, wide, seqI, seqC, todo>>
        /\ UNCHANGED <<cpc, rcap, out, runTail>>
        /\ pc = "slot" /\ pc' = "publish" /\ slots' = PutRun(head, run)
    BY <1>9 DEF PushSlot, thread, engine
  <2>2. seqC - 1 \in Nat
    BY <2>1 DEF IInv, TInv, PushShape, TypeOK, ThreadOK
  <2>3. RunAt(head, run) /\ Len(run) = PushSlots /\ run' = run
    BY <1>8, <2>1, <2>2, ItemRunAt DEF PushSlots
  <2>4. PushSlots' = PushSlots
    BY <2>1 DEF PushSlots
  <2>a. run = ItemRun(Head(todo), head, seqC - 1)'
    BY <2>3
  <2> HIDE DEF run
  <2>5. \A q \in head..(head + Len(run) - 1) : slots'[q % Capacity] = run[q - head + 1]
    BY ZenonT(30), <1>8, <2>1, <2>3, PutRunHolds
  <2>6. \A p \in head'..(head' + PushSlots' - 1) :
            slots'[p % Capacity] = ItemRun(Head(todo), head, seqC - 1)'[p - head' + 1]
    BY <2>1, <2>3, <2>4, <2>5, <2>a
  <2>7. Fresh'
    BY <2>1, <2>6 DEF Fresh, InWrite
  <2>8. \A i \in 0..(Capacity - 1) : slots'[i].at <= head + PushSlots - 1
    <3> HIDE DEF PushSlots
    <3>1. \A i \in 0..(Capacity - 1) : slots[i].at <= head
        BY <1>8, <2>1 DEF PInv, AtMost
    <3>2. \A i \in 0..(Capacity - 1) : slots[i].at <= head + PushSlots - 1
      <4>1. \A a, h, n \in Int : a <= h /\ n >= 1 => a <= h + n - 1
        OBVIOUS
      <4> QED
        BY <1>8, <2>1, <3>1, <4>1
    <3>3. head + PushSlots - 1 \in Int /\ head + Len(run) - 1 <= head + PushSlots - 1
        BY <1>8, <2>1, <2>3
    <3> QED
        BY <1>8, <2>1, <2>3, <3>2, <3>3, PutAtMost
  <2>9. AtMost'
    BY <2>1, <2>4, <2>8 DEF AtMost, InWrite
  <2> QED
    BY <1>8, <2>1, <2>7, <2>9 DEF PInv, Base, RunTailInv
<1>10. CASE PushPublish
  <2>1. /\ UNCHANGED <<slots, scratch1, wide, seqI, cpc, rcap, out, runTail>>
        /\ pc = "publish" /\ head' = head + PushSlots /\ cached' = head'
        /\ NextItem
    BY <1>10 DEF PushPublish, SyncHead, PushSlots, engine
  <2>2. pc' \notin {"bb", "post", "publish"} /\ (InWrite' => ret = "write")
    BY <1>6, <2>1 DEF NextItem, InWrite
  <2>3. \A i \in 0..(Capacity - 1) : slots'[i].at < cached'
    <3>1. \A i \in 0..(Capacity - 1) : slots[i].at <= head + PushSlots - 1
        BY <2>1 DEF PInv, AtMost
    <3> HIDE DEF PushSlots
    <3>2. \A a, h, n \in Int : a <= h + n - 1 => a < h + n
        OBVIOUS
    <3> QED
        BY <1>8, <2>1, <3>1, <3>2
  <2>4. AtMost'
    <3>1. cached' \in Nat
        BY <1>8, <2>1
    <3>2. \A i \in 0..(Capacity - 1) : slots'[i].at <= cached'
        BY <2>1, <2>3, <3>1
    <3> QED
        BY <2>2, <2>3, <3>2 DEF AtMost
  <2>5. InWrite' => scratch1' # cached'
    <3>1. ret = "write" /\ scratch1 # NoSlot => scratch1 <= cached
        BY <2>1 DEF SInv, FlightInv, Pushing
    <3> HIDE DEF PushSlots
    <3> QED
        BY <1>8, <2>1, <2>2, <3>1
  <2>6. Fresh'
    BY <2>2, <2>5 DEF Fresh
  <2>7. head' <= Base' /\ RunTailInv'
    BY <1>8, <2>1, <2>2 DEF Base, PInv, RunTailInv
  <2> QED
    BY <2>4, <2>6, <2>7 DEF PInv
<1> QED
    BY <1>2, <1>3, <1>4, <1>5, <1>7, <1>9, <1>10
       DEF Clean, AtReturn, AtReload, WrapAlloc

LEMMA EndingP == IInv /\ SInv /\ PInv /\ Ending => PInv'
<1> SUFFICES ASSUME IInv, SInv, PInv, Ending PROVE PInv'
    OBVIOUS
<1>1. ASSUME NEW exit \in BOOLEAN, PreSyscall(exit) PROVE PInv'
    BY <1>1, QuietFlight DEF PreSyscall, thread, engine, InWrite
<1>2. CASE PostSyscall
    BY <1>2, QuietFlight DEF PostSyscall, shared, thread, engine, InWrite
<1>3. CASE SetTerminal
    BY <1>3, QuietFlight DEF SetTerminal, thread, engine, InWrite
<1>4. CASE ThreadExit
    BY <1>4, QuietFlight DEF ThreadExit, engine, InWrite
<1> QED
    BY <1>1, <1>2, <1>3, <1>4 DEF Ending

(* The engine: the copy loop takes whole runs.                             *)
LEMMA ConsumerP == IInv /\ PInv /\ Consumer => PInv'
<1> SUFFICES ASSUME IInv, PInv, Consumer PROVE PInv'
    OBVIOUS
<1>1. UNCHANGED <<slots, head, cached, scratch1, wide, seqI, seqC, pc, ret, todo>>
  <2>1. UNCHANGED slots
    BY DEF Consumer, ConsumeStart, CopySlot, Recheck, RetireCheck, ProcessEvent,
           UpdateBackpressure, DrainAgain, PollDead, shared
  <2> QED
    BY <2>1, ConsumerFrame DEF thread, control
<1>2. Base' = Base /\ Fresh' /\ AtMost' /\ head' <= Base'
  <2>1. Base' = Base /\ (InWrite' <=> InWrite) /\ PushSlots' = PushSlots
    BY <1>1 DEF Base, InWrite, PushSlots
  <2>2. Fresh'
    <3>1. \A b, k : WriteEv(b, k)' = WriteEv(b, k)
        BY <1>1 DEF WriteEv
    <3> QED
        BY <1>1, <2>1, <3>1 DEF PInv, Fresh
  <2>3. AtMost'
    BY <1>1, <2>1 DEF PInv, AtMost
  <2> QED
    BY <1>1, <2>1, <2>2, <2>3 DEF PInv
<1>3. RunTailInv'
  <2>0. /\ out \in Seq(Event) /\ rcap \in Nat /\ runTail \in Nat /\ RunTailInv
        /\ Len(out) \in Nat
    BY DEF PInv, IInv, TInv, TypeOK, EngineOK
  <2>1. CASE ConsumeStart
    <3>1. /\ out' = <<>> /\ runTail' = 0
          /\ cpc' = "copy" => rcap' > 0
        BY <2>0, <2>1 DEF ConsumeStart, RunTailInv, IInv, RInv, ConsumerInv
    <3>2. rcap' \in Nat
        BY SMTT(30), <2>0, <2>1, StreamTypes DEF ConsumeStart, Min2
    <3> QED
        BY <3>1, <3>2 DEF RunTailInv
  <2>2. CASE CopySlot
    <3>1. cpc = "copy" /\ rcap' = rcap
        BY <2>2 DEF CopySlot
    <3>2. CASE runTail = 0 /\ cpc' = "check" /\ runTail' = runTail
        BY <3>2 DEF RunTailInv
    <3>3. CASE /\ runTail # 0 \/ Len(out) + RunSlots(slots[CopyIndex]) <= rcap
               /\ out' = Append(out, slots[CopyIndex])
               /\ runTail' = (IF runTail = 0 THEN RunSlots(slots[CopyIndex])
                                             ELSE runTail) - 1
               /\ cpc' = IF Len(out) + 1 = rcap THEN "check" ELSE "copy"
      <4>1. RunSlots(slots[CopyIndex]) \in Nat \ {0}
        BY DEF RunSlots
      <4>2. Len(out') = Len(out) + 1
        BY <2>0, <3>3
      <4> HIDE DEF RunSlots
      <4> QED
        BY <2>0, <3>1, <3>3, <4>1, <4>2 DEF RunTailInv
    <3> QED
        BY <2>2, <3>2, <3>3 DEF CopySlot
  <2>3. CASE Recheck
    BY <2>0, <2>3 DEF Recheck, RunTailInv
  <2>4. CASE RetireCheck \/ ProcessEvent \/ UpdateBackpressure \/ DrainAgain \/ PollDead
    BY <2>0, <2>4 DEF RetireCheck, ProcessEvent, UpdateBackpressure, DrainAgain, PollDead,
                    RunTailInv
  <2> QED
    BY <2>1, <2>2, <2>3, <2>4 DEF Consumer
<1> QED
    BY <1>2, <1>3 DEF PInv

LEMMA PInvInit == Init => PInv
<1> SUFFICES ASSUME Init PROVE PInv
    OBVIOUS
<1>1. \A i \in 0..(Capacity - 1) : slots[i].at = -1
    BY DEF Init, ZeroEvent, Ev
<1> QED
    BY <1>1 DEF Init, PInv, Fresh, AtMost, Base, RunTailInv, InWrite

LEMMA PInvNext == IInv /\ SInv /\ PInv /\ [Next]_vars => PInv'
<1> SUFFICES ASSUME IInv, SInv, PInv, [Next]_vars PROVE PInv'
    OBVIOUS
<1>1. CASE TripwireHit \/ UNCHANGED vars
  <2>1. /\ UNCHANGED <<slots, head, cached, scratch1, wide, seqI, seqC, pc, ret, todo>>
        /\ UNCHANGED <<cpc, rcap, out, runTail>>
    BY <1>1 DEF TripwireHit, vars, shared, thread, control, engine
  <2>2. Base' = Base /\ (InWrite' <=> InWrite) /\ PushSlots' = PushSlots
    BY <2>1 DEF Base, InWrite, PushSlots
  <2>3. Fresh'
    <3>1. \A b, k : WriteEv(b, k)' = WriteEv(b, k)
        BY <2>1 DEF WriteEv
    <3> QED
        BY <2>1, <2>2, <3>1 DEF PInv, Fresh
  <2>4. AtMost' /\ RunTailInv' /\ head' <= Base'
    BY <2>1, <2>2 DEF PInv, AtMost, RunTailInv
  <2> QED
    BY <2>3, <2>4 DEF PInv
<1> QED
    BY <1>1, InlineP, CleanP, EndingP, ConsumerP DEF Next, Producer

-----------------------------------------------------------------------------
(* An undamaged stream.                                                    *)

(* The slots of an event's run, and how many of them follow it.            *)
RunLen(e) == CASE e.kind = "snap"             -> SnapSlots
               [] e.kind \in {"wide", "cont"} -> WideSlots
               [] OTHER                       -> 1

Rem(e) == RunLen(e) - 1 - e.off

(* f lies d positions after e: in the run of e, or just behind it.         *)
Follows(e, f, d) ==
    /\ d <= Rem(e) => /\ f.off = e.off + d
                      /\ f.kind = IF e.kind = "snap" THEN "snap" ELSE "cont"
    /\ d = Rem(e) + 1 => f.off = 0

(* An event is a header or a continuation of its kind.                     *)
WellFormed(e) == /\ Rem(e) >= 0
                 /\ e.kind # "snap" => (e.kind = "cont" <=> e.off > 0)

(* The committed events that can still be read: those in the slots, and    *)
(* those copied out of slots that may have been reused since.              *)
InSlots == {e \in {slots[i] : i \in 0..(Capacity - 1)} : 0 <= e.at /\ e.at < Base}

Copied == IF cpc \in {"copy", "check"}
          THEN {out[k] : k \in {n \in 1..Len(out) : out[n].at = rt + n - 1}}
          ELSE {}

Seen == InSlots \cup Copied

(* The copied batch is what was written for its positions.                 *)
Intact == \A k \in 1..Len(out) : out[k].at = rt + k - 1

(* Runs are committed whole.                                               *)
RunsWhole == \A e \in Seen : WellFormed(e) /\ e.at + Rem(e) < Base

RunsFollow == \A e, f \in Seen : e.at < f.at => Follows(e, f, f.at - e.at)

(* The shared tail lies between two runs.                                  *)
TailAtRun == \A e \in Seen : e.at = tail => e.off = 0

(* The batch begins at the shared tail; the run being copied lacks the     *)
(* slots runTail counts.                                                   *)
CopyWhole ==
    cpc \in {"copy", "check"} =>
        /\ rt = tail
        /\ out = <<>> => runTail = 0
        /\ Intact => \A k \in 1..Len(out) : /\ Rem(out[k]) <= Len(out) - k + runTail
                                            /\ k = Len(out) => Rem(out[k]) = runTail

(* The drained batch is a sequence of whole runs.                          *)
PendingWhole ==
    /\ cpc \in {"idle", "copy", "check"} => pending = <<>>
    /\ \A k \in 1..Len(pending) :
           /\ WellFormed(pending[k])
           /\ Rem(pending[k]) <= Len(pending) - k
           /\ pending[k].at = tail - Len(pending) + k - 1
           /\ k = 1 => pending[k].off = 0 \/ pending[k].kind = "cont"
    /\ \A k, l \in 1..Len(pending) : k < l => Follows(pending[k], pending[l], l - k)

ShapeInv == RunsWhole /\ RunsFollow /\ TailAtRun /\ CopyWhole /\ PendingWhole

(* The parts of an event.                                                  *)
LEMMA EventParts ==
    ASSUME NEW e \in Event
    PROVE  /\ e.at \in Int /\ e.off \in Nat
           /\ RunLen(e) \in Nat \ {0} /\ Rem(e) = RunLen(e) - 1 - e.off /\ Rem(e) \in Int
           /\ RunLen(e) > 1 => e.kind \in {"snap", "wide", "cont"}
           /\ e.kind # "cont" => RunSlots(e) = RunLen(e)
<1>1. e.at \in Int /\ e.off \in Nat
    BY DEF Event
<1>2. RunLen(e) \in Nat \ {0} /\ (RunLen(e) > 1 => e.kind \in {"snap", "wide", "cont"})
    BY DEF RunLen
<1>3. e.kind # "cont" => RunSlots(e) = RunLen(e)
    BY DEF RunLen, RunSlots
<1> QED
    BY <1>1, <1>2, <1>3 DEF Rem

LEMMA SeenEvents ==
    IInv => /\ Seen \subseteq Event /\ out \in Seq(Event) /\ pending \in Seq(Event)
            /\ rt \in Nat /\ runTail \in Nat /\ rcap \in Nat
<1> SUFFICES ASSUME IInv
             PROVE  /\ Seen \subseteq Event /\ out \in Seq(Event) /\ pending \in Seq(Event)
                    /\ rt \in Nat /\ runTail \in Nat /\ rcap \in Nat
    OBVIOUS
<1>1. /\ out \in Seq(Event) /\ pending \in Seq(Event)
      /\ rt \in Nat /\ runTail \in Nat /\ rcap \in Nat
    BY DEF IInv, TInv, TypeOK, EngineOK
<1>2. InSlots \subseteq Event
    BY SlotTypes DEF InSlots
<1>3. Copied \subseteq Event
    BY <1>1 DEF Copied
<1> QED
    BY <1>1, <1>2, <1>3 DEF Seen

(* Nothing repairs a damaged stream.                                       *)
LEMMA DamageStays == IInv /\ [Next]_vars /\ ~Damaged' => ~Damaged
<1> SUFFICES ASSUME IInv, [Next]_vars, ~Damaged' PROVE ~Damaged
    OBVIOUS
<1> USE DEF Damaged
<1>0. lapped \in Nat
    BY DEF IInv, TInv, TypeOK, EngineOK
<1>1. CASE TripwireHit \/ UNCHANGED vars
    BY <1>1 DEF TripwireHit, vars, engine, history
<1>2. CASE Inline
    BY <1>2 DEF Inline, BbEntry, BbCommit, PreWrite, StoreFaults, PostWrite, PostCommit,
                BlockEnd, engine, history
<1>3. CASE Clean
    BY <1>3 DEF Clean, AtCall, AtReturn, AtReload, WrapAlloc, PushOne, AtMemReadBuf,
                FlushReadBuf, PushCheck, PushSlot, PushPublish, engine, history
<1>4. CASE Ending
    BY <1>4 DEF Ending, PreSyscall, PostSyscall, SetTerminal, ThreadExit, engine, history
<1>5. CASE ConsumeStart
  <2>1. UNCHANGED <<torn, holes>>
    BY <1>5 DEF ConsumeStart, history
  <2>2. lapped' >= lapped /\ lapped' \in Int
    BY SMTT(30), <1>0, <1>5, CursorTypes DEF ConsumeStart
  <2> QED
    BY <1>0, <2>1, <2>2
<1>6. CASE Recheck
  <2>1. CASE LappedSince /\ lapped' = lapped + LossSince
    <3>1. LossSince > 0
        BY <2>1, SlotTypes, SeenEvents DEF LappedSince, LossSince
    <3> QED
        BY SMTT(30), <1>0, <2>1, <3>1, SlotTypes, SeenEvents DEF LossSince
  <2> QED
    BY <1>6, <2>1 DEF Recheck
<1>7. CASE CopySlot \/ RetireCheck \/ ProcessEvent \/ UpdateBackpressure \/ DrainAgain \/ PollDead
    BY <1>7 DEF CopySlot, RetireCheck, ProcessEvent, UpdateBackpressure, DrainAgain, PollDead,
                history
<1> QED
    BY <1>1, <1>2, <1>3, <1>4, <1>5, <1>6, <1>7 DEF Next, Producer, Consumer

(* Steps after which no more events can be read than before.               *)
LEMMA ShapeKept ==
    ASSUME ShapeInv, Seen' \subseteq Seen, Base' = Base,
           UNCHANGED <<tail, cpc, rt, out, runTail, pending>>
    PROVE  ShapeInv'
<1>1. RunsWhole' /\ RunsFollow' /\ TailAtRun'
    BY DEF ShapeInv, RunsWhole, RunsFollow, TailAtRun
<1>2. CopyWhole' /\ PendingWhole'
    BY DEF ShapeInv, CopyWhole, PendingWhole, Intact
<1> QED
    BY <1>1, <1>2 DEF ShapeInv

(* A run written behind the committed stream reuses slots, and adds        *)
(* nothing that can be read.                                               *)
LEMMA PutShrinks ==
    ASSUME IInv, NEW b \in Nat, NEW run, RunAt(b, run), slots' = PutRun(b, run),
           Base <= b, Base' = Base, UNCHANGED <<cpc, rt, out>>
    PROVE  Seen' \subseteq Seen
<1>0. Len(run) \in Nat /\ Base \in Int
    BY StreamTypes DEF RunAt
<1>1. \A i \in 0..(Capacity - 1) :
          \/ slots'[i] = slots[i]
          \/ \E q \in b..(b + Len(run) - 1) :
                 /\ slots'[i] = run[q - b + 1] /\ q % Capacity = i
                 /\ slots'[i].at = q
    BY PutRunHolds, Zenon
<1>2. ASSUME NEW i \in 0..(Capacity - 1), slots'[i].at < Base
      PROVE  slots'[i] = slots[i]
  <2>1. ASSUME NEW q \in b..(b + Len(run) - 1), slots'[i].at = q PROVE FALSE
    BY <1>0, <1>2, <2>1
  <2> QED
    BY <1>1, <2>1
<1>3. InSlots' \subseteq InSlots
    BY <1>2 DEF InSlots
<1>4. Copied' = Copied
    BY DEF Copied
<1> QED
    BY <1>3, <1>4 DEF Seen

(* The n slots behind the committed stream hold one run.                   *)
NextRun(n) ==
    \A p \in Base..(Base + n - 1) :
        LET e == slots[p % Capacity]
        IN  /\ e.at = p /\ e.off = p - Base /\ RunLen(e) = n /\ WellFormed(e)
            /\ e.kind = "snap" <=> slots[Base % Capacity].kind = "snap"

NewSlots(n) == {slots[p % Capacity] : p \in Base..(Base + n - 1)}

LEMMA NewEvents ==
    ASSUME IInv, NEW n \in Nat \ {0}, NextRun(n), Base \in Nat
    PROVE  /\ \A e \in NewSlots(n) :
                 /\ e \in Event /\ e.at \in Base..(Base + n - 1) /\ e.off = e.at - Base
                 /\ RunLen(e) = n /\ WellFormed(e) /\ e = slots[e.at % Capacity]
           /\ \A e, f \in NewSlots(n) : e.kind = "snap" => f.kind = "snap"
<1>1. ASSUME NEW p \in Base..(Base + n - 1) PROVE slots[p % Capacity] \in Event
  <2>1. p \in Int
    OBVIOUS
  <2>2. p % Capacity \in 0..(Capacity - 1)
    BY <2>1, DivMod
  <2> QED
    BY <2>2, SlotTypes
<1>2. ASSUME NEW e \in NewSlots(n)
      PROVE  /\ e \in Event /\ e.at \in Base..(Base + n - 1) /\ e.off = e.at - Base
             /\ RunLen(e) = n /\ WellFormed(e) /\ e = slots[e.at % Capacity]
             /\ e.kind = "snap" <=> slots[Base % Capacity].kind = "snap"
  <2>1. PICK p \in Base..(Base + n - 1) : e = slots[p % Capacity]
    BY <1>2 DEF NewSlots
  <2>2. /\ e.at = p /\ e.off = p - Base /\ RunLen(e) = n /\ WellFormed(e)
        /\ e.kind = "snap" <=> slots[Base % Capacity].kind = "snap"
    BY <2>1 DEF NextRun
  <2> QED
    BY <1>1, <2>1, <2>2
<1> QED
    BY <1>2

LEMMA CommitSeen ==
    ASSUME IInv, AtHome, NEW n \in Nat \ {0}, Base \in Nat, Base' = Base + n,
           UNCHANGED <<slots, cpc, rt, out>>
    PROVE  Seen' \subseteq Seen \cup NewSlots(n)
<1>1. ASSUME NEW e \in InSlots' PROVE e \in InSlots \cup NewSlots(n)
  <2>1. PICK i \in 0..(Capacity - 1) : e = slots[i] /\ 0 <= e.at /\ e.at < Base + n
    BY <1>1 DEF InSlots
  <2>2. CASE e.at < Base
    BY <2>1, <2>2 DEF InSlots
  <2>3. CASE ~(e.at < Base)
    <3>1. e.at \in Base..(Base + n - 1) /\ e.at % Capacity = i
        BY SMTT(30), <2>1, <2>3, SlotTypes DEF AtHome
    <3> QED
        BY <2>1, <3>1 DEF NewSlots
  <2> QED
    BY <2>2, <2>3
<1>2. Copied' = Copied
    BY DEF Copied
<1> QED
    BY <1>1, <1>2 DEF Seen

(* Committing a run extends the stream by a run.                           *)
LEMMA CommitShape ==
    ASSUME IInv, AtHome, ShapeInv, NEW n \in Nat \ {0}, NextRun(n),
           Base \in Nat, tail <= Base, Base' = Base + n,
           UNCHANGED <<slots, tail, cpc, rt, out, runTail, pending>>
    PROVE  ShapeInv'
<1>1. Seen' \subseteq Seen \cup NewSlots(n)
    BY CommitSeen
<1>2. ASSUME NEW e \in NewSlots(n)
      PROVE  /\ e \in Event /\ e.at \in Base..(Base + n - 1) /\ e.off = e.at - Base
             /\ RunLen(e) = n /\ WellFormed(e) /\ Rem(e) = n - 1 - (e.at - Base)
  <2>1. /\ e \in Event /\ e.at \in Base..(Base + n - 1) /\ e.off = e.at - Base
        /\ RunLen(e) = n /\ WellFormed(e)
    BY NewEvents
  <2> QED
    BY <2>1, EventParts
<1>3. ASSUME NEW e \in Seen
      PROVE  /\ e \in Event /\ WellFormed(e) /\ e.at + Rem(e) < Base
             /\ e.at \in Int /\ Rem(e) \in Int /\ Rem(e) >= 0 /\ e.at < Base
  <2>1. e \in Event /\ WellFormed(e) /\ e.at + Rem(e) < Base
    BY SeenEvents DEF ShapeInv, RunsWhole
  <2>2. e.at \in Int /\ Rem(e) \in Int /\ Rem(e) >= 0
    BY <2>1, EventParts DEF WellFormed
  <2> QED
    BY <2>1, <2>2
<1>4. RunsWhole'
  <2> SUFFICES ASSUME NEW e \in Seen' PROVE WellFormed(e) /\ e.at + Rem(e) < Base + n
    BY DEF RunsWhole
  <2>1. CASE e \in Seen
    BY <1>3, <2>1
  <2>2. CASE e \in NewSlots(n)
    BY <1>2, <2>2
  <2> QED
    BY <1>1, <2>1, <2>2
<1>5. RunsFollow'
  <2> SUFFICES ASSUME NEW e \in Seen', NEW f \in Seen', e.at < f.at
               PROVE  Follows(e, f, f.at - e.at)
    BY DEF RunsFollow
  <2>1. CASE e \in Seen /\ f \in Seen
    BY <2>1 DEF ShapeInv, RunsFollow
  <2>2. CASE e \in Seen /\ f \in NewSlots(n)
    <3>1. ~(f.at - e.at <= Rem(e))
        BY <1>2, <1>3, <2>2
    <3>2. f.at - e.at = Rem(e) + 1 => f.off = 0
        BY <1>2, <1>3, <2>2
    <3> QED
        BY <3>1, <3>2 DEF Follows
  <2>3. CASE e \in NewSlots(n) /\ f \in Seen
    BY <1>2, <1>3, <2>3
  <2>4. CASE e \in NewSlots(n) /\ f \in NewSlots(n)
    <3>1. f.off = e.off + (f.at - e.at) /\ f.off > 0
        BY <1>2, <2>4
    <3>2. f.kind = IF e.kind = "snap" THEN "snap" ELSE "cont"
        BY <1>2, <2>4, <3>1, NewEvents DEF WellFormed
    <3>3. ~(f.at - e.at = Rem(e) + 1)
        BY <1>2, <2>4
    <3> QED
        BY <3>1, <3>2, <3>3 DEF Follows
  <2> QED
    BY <1>1, <2>1, <2>2, <2>3, <2>4
<1>6. TailAtRun'
  <2> SUFFICES ASSUME NEW e \in Seen', e.at = tail PROVE e.off = 0
    BY DEF TailAtRun
  <2>1. CASE e \in Seen
    BY <2>1 DEF ShapeInv, TailAtRun
  <2>2. CASE e \in NewSlots(n)
    BY <1>2, <2>2
  <2> QED
    BY <1>1, <2>1, <2>2
<1>7. CopyWhole' /\ PendingWhole'
    BY DEF ShapeInv, CopyWhole, PendingWhole, Intact
<1> QED
    BY <1>4, <1>5, <1>6, <1>7 DEF ShapeInv

-----------------------------------------------------------------------------
(* What the traced thread does to the stream.                              *)

(* The sequence numbers the committed events have used up: the clean call  *)
(* whose push is in progress has drawn its number already.                 *)
Spent == [d \in Domains |->
             IF d = "inline" THEN seqI
             ELSE IF pc \in {"slot", "publish"} THEN seqC - 1 ELSE seqC]

(* No event of a clean call has been given up after it drew its number.    *)
NoneMissed == stat.refused = 0 /\ stat.dropped = 0

Kept == Base' = Base /\ Seen' \subseteq Seen /\ (NoneMissed' => NoneMissed /\ Spent' = Spent)

(* One run is committed, numbered with the next number of its domain.      *)
Committed ==
    \E n \in Nat \ {0} :
        /\ NextRun(n) /\ Base' = Base + n /\ UNCHANGED <<slots, stat>>
        /\ slots[Base % Capacity].seq = Spent[slots[Base % Capacity].dom]
        /\ Spent' = [Spent EXCEPT ![slots[Base % Capacity].dom] = @ + 1]

StreamMove == UNCHANGED <<tail, engine>> /\ (Kept \/ Committed)

(* Steps that neither write, commit nor number.                            *)
LEMMA QuietStream ==
    ASSUME UNCHANGED <<slots, tail, engine, cached, seqI, seqC>>,
           pc # "post", pc' # "post",
           pc \notin {"slot", "publish"}, pc' \notin {"slot", "publish"},
           NoneMissed' => NoneMissed
    PROVE  StreamMove
<1>1. Base' = Base
    BY DEF Base
<1>2. Seen' = Seen
    BY <1>1 DEF Seen, InSlots, Copied, engine
<1>3. Spent' = Spent
    BY DEF Spent
<1> QED
    BY <1>1, <1>2, <1>3 DEF StreamMove, Kept

LEMMA PutInlineShrinks ==
    ASSUME IInv, NEW k \in Kinds, pc = "run", pc' # "post",
           slots' = PutRun(cached, <<Ev(cached, k, 0, "inline", seqI)>>),
           UNCHANGED <<cached, engine>>
    PROVE  Base' = Base /\ Seen' \subseteq Seen
<1> DEFINE run == <<Ev(cached, k, 0, "inline", seqI)>>
<1>0. cached \in Nat /\ seqI \in Nat /\ "inline" \in Domains
    BY StreamTypes DEF Domains
<1>1. RunAt(cached, run)
    BY <1>0, OneRun
<1> HIDE DEF run
<1>2. slots' = PutRun(cached, run)
    BY DEF run
<1>3. Base = cached /\ Base' = Base
    BY DEF Base
<1>4. Base <= cached /\ UNCHANGED <<cpc, rt, out>>
    BY <1>0, <1>3 DEF engine
<1> QED
    BY <1>0, <1>1, <1>2, <1>3, <1>4, PutShrinks

(* The slots of an inline write.                                           *)
LEMMA WriteEvParts ==
    ASSUME NEW b \in Nat, NEW k \in 0..((IF wide THEN WideSlots ELSE 1) - 1),
           wide \in BOOLEAN
    PROVE  /\ WriteEv(b, k).at = b + k /\ WriteEv(b, k).off = k
           /\ RunLen(WriteEv(b, k)) = IF wide THEN WideSlots ELSE 1
           /\ WellFormed(WriteEv(b, k)) /\ WriteEv(b, k).kind # "snap"
           /\ WriteEv(b, k).dom = "inline"
           /\ k = 0 => WriteEv(b, k).seq = seqI
<1> DEFINE e == WriteEv(b, k)
<1>1. /\ e.at = b + k /\ e.off = k /\ e.dom = "inline" /\ (k = 0 => e.seq = seqI)
      /\ e.kind = IF k > 0 THEN "cont" ELSE IF wide THEN "wide" ELSE "one"
    BY DEF WriteEv, Ev
<1> HIDE DEF e
<1>2. k > 0 => wide
    OBVIOUS
<1>3. RunLen(e) = IF wide THEN WideSlots ELSE 1
    BY <1>1, <1>2 DEF RunLen
<1>4. Rem(e) = (IF wide THEN WideSlots ELSE 1) - 1 - k
    BY <1>1, <1>3 DEF Rem
<1>5. Rem(e) >= 0
    BY <1>4
<1>6. e.kind # "snap" /\ (e.kind = "cont" <=> e.off > 0)
    BY <1>1
<1> QED
    BY <1>1, <1>3, <1>5, <1>6 DEF e, WellFormed

(* Event e is slot j of a push of it at position p, numbered s.            *)
PushedAs(e, it, p, s, j) ==
    /\ e.at = p + j - 1 /\ e.off = j - 1 /\ RunLen(e) = ItemSlots(it)
    /\ WellFormed(e) /\ (e.kind = "snap" <=> it = "snap")
    /\ e.dom = "clean" /\ (j = 1 => e.seq = s)

LEMMA ItemParts ==
    ASSUME NEW it \in Items, NEW p \in Nat, NEW s \in Nat, NEW j \in 1..ItemSlots(it)
    PROVE  PushedAs(ItemRun(it, p, s)[j], it, p, s, j)
<1> DEFINE e == ItemRun(it, p, s)[j]
<1>1. /\ e.at = p + j - 1 /\ e.off = j - 1 /\ e.dom = "clean" /\ (j = 1 => e.seq = s)
      /\ e.kind = ItemKind(it)
    BY DEF ItemRun, Ev
<1> HIDE DEF e
<1>2. /\ ItemSlots(it) \in Nat \ {0} /\ j \in Nat \ {0}
      /\ it # "snap" => ItemSlots(it) = 1
      /\ e.kind = "snap" <=> it = "snap"
      /\ e.kind \in {"one", "modload", "snap"}
    BY <1>1 DEF ItemSlots, ItemKind, Items
<1>3. RunLen(e) = ItemSlots(it)
    BY <1>2 DEF RunLen, ItemSlots
<1>4. Rem(e) = ItemSlots(it) - j
    BY <1>1, <1>2, <1>3 DEF Rem
<1>5. Rem(e) >= 0
    BY <1>2, <1>4
<1>6. e.kind # "snap" => (e.kind = "cont" <=> e.off > 0)
    BY <1>1, <1>2
<1> QED
    BY <1>1, <1>2, <1>3, <1>5, <1>6 DEF e, WellFormed, PushedAs

(* The inline paths.                                                       *)
LEMMA InlineStream == IInv /\ SInv /\ PInv /\ ~Damaged' /\ Inline => StreamMove
<1> SUFFICES ASSUME IInv, SInv, PInv, ~Damaged', Inline PROVE StreamMove
    OBVIOUS
<1> USE StreamTypes
<1>1. CASE BbEntry
  <2>1. /\ UNCHANGED <<tail, engine, cached, seqI, seqC>> /\ pc = "run"
        /\ pc' \in {"run", "bb"}
    BY <1>1 DEF BbEntry, thread
  <2>2. UNCHANGED <<stat.refused, stat.dropped>>
    BY <1>1, StatTypes DEF BbEntry, Bump, BumpSkipped, StatNames
  <2>3. (NoneMissed' => NoneMissed) /\ Spent' = Spent
    BY <2>1, <2>2 DEF NoneMissed, Spent
  <2>4. CASE UNCHANGED slots
    BY <2>1, <2>3, <2>4, QuietStream
  <2>5. CASE slots' = PutRun(cached, <<Ev(cached, "one", 0, "inline", seqI)>>)
    <3>1. "one" \in Kinds
        BY DEF Kinds
    <3>2. Base' = Base /\ Seen' \subseteq Seen
        BY <2>1, <2>5, <3>1, PutInlineShrinks
    <3> QED
        BY <2>1, <2>3, <3>2 DEF StreamMove, Kept
  <2> QED
    BY <1>1, <2>4, <2>5 DEF BbEntry
<1>2. CASE BbCommit
  <2>1. /\ UNCHANGED <<slots, tail, engine, seqC, stat>> /\ pc = "bb" /\ pc' = "run"
        /\ cached' = cached + 1 /\ seqI' = seqI + 1
    BY <1>2 DEF BbCommit, CommitInline, history
  <2>2. /\ Base = cached /\ Base' = Base + 1
        /\ slots[Base % Capacity] = Ev(cached, "one", 0, "inline", seqI)
    BY <2>1 DEF Base, PInv, Fresh
  <2> DEFINE e == slots[Base % Capacity]
  <2>3. /\ e.at = Base /\ e.off = 0 /\ e.kind = "one" /\ e.dom = "inline" /\ e.seq = seqI
    BY <2>2 DEF Ev
  <2>4. RunLen(e) = 1 /\ WellFormed(e)
    BY <2>3 DEF RunLen, WellFormed, Rem
  <2>5. NextRun(1)
    <3>1. \A p \in Base..(Base + 1 - 1) : p = Base
        BY <2>2
    <3>2. Base - Base = 0
        BY <2>2
    <3> HIDE DEF e
    <3>3. ASSUME NEW p \in Base..(Base + 1 - 1)
          PROVE  /\ e.at = p /\ e.off = p - Base /\ RunLen(e) = 1 /\ WellFormed(e)
                 /\ p = Base
        BY <2>3, <2>4, <3>1, <3>2
    <3> QED
        BY <3>3 DEF NextRun, e
  <2>6. e.seq = Spent[e.dom] /\ Spent' = [Spent EXCEPT ![e.dom] = @ + 1]
    BY <2>1, <2>3 DEF Spent, Domains
  <2>7. 1 \in Nat \ {0}
    OBVIOUS
  <2> HIDE DEF e
  <2>8. Committed
    BY <2>1, <2>2, <2>5, <2>6, <2>7 DEF Committed, e
  <2> QED
    BY <2>1, <2>8 DEF StreamMove
<1>3. ASSUME NEW w \in BOOLEAN, PreWrite(w) PROVE StreamMove
  <2>1. UNCHANGED <<tail, engine, cached, seqI, seqC>> /\ pc = "run" /\ pc' = "write"
    BY <1>3 DEF PreWrite
  <2>2. UNCHANGED <<stat.refused, stat.dropped>>
    BY <1>3, StatTypes DEF PreWrite, Bump, BumpSkipped, StatNames
  <2>3. (NoneMissed' => NoneMissed) /\ Spent' = Spent
    BY <2>1, <2>2 DEF NoneMissed, Spent
  <2>4. CASE UNCHANGED slots
    BY <2>1, <2>3, <2>4, QuietStream
  <2>5. CASE slots' = PutRun(cached, <<Ev(cached, IF w THEN "wide" ELSE "one", 0,
                                          "inline", seqI)>>)
    <3>1. (IF w THEN "wide" ELSE "one") \in Kinds
        BY DEF Kinds
    <3>2. Base' = Base /\ Seen' \subseteq Seen
        BY <2>1, <2>5, <3>1, PutInlineShrinks
    <3> QED
        BY <2>1, <2>3, <3>2 DEF StreamMove, Kept
  <2> QED
    BY <1>3, <2>4, <2>5 DEF PreWrite
<1>4. CASE StoreFaults
  <2>1. UNCHANGED <<stat.refused, stat.dropped>>
    BY <1>4, StatTypes DEF StoreFaults, StatNames
  <2> QED
    BY <1>4, <2>1, QuietStream DEF StoreFaults, shared, thread, NoneMissed
<1>5. CASE PostWrite
  <2>1. UNCHANGED <<tail, engine, seqI, seqC, scratch1, wide, stat>> /\ pc = "write"
    BY <1>5 DEF PostWrite
  <2>2. CASE pc' = "run" /\ UNCHANGED <<slots, cached>>
    BY <2>1, <2>2, QuietStream DEF NoneMissed
  <2>a. pc' \in {"run", "post"} => Spent' = Spent
    BY <2>1 DEF Spent
  <2>3. CASE pc' = "post" /\ ~wide /\ UNCHANGED <<slots, cached>>
    <3>1. Base' = Base
        BY <2>1, <2>3 DEF Base
    <3>2. Seen' = Seen
        BY <2>1, <2>3, <3>1 DEF Seen, InSlots, Copied, engine
    <3> QED
        BY <2>1, <2>3, <2>a, <3>1, <3>2 DEF StreamMove, Kept, NoneMissed
  <2>4. CASE /\ scratch1 # NoSlot /\ pc' = "post" /\ wide
             /\ slots' = PutRun(scratch1 + 1, ContRun)
             /\ cached' = cached + WideSlots - 1
             /\ holes' = holes \cup Unwritten(cached, cached')
    <3> DEFINE n == WideSlots - 1
    <3>0. n \in Nat /\ n >= 1 /\ cached' = cached + n /\ cached \in Nat
        BY <2>4
    <3>1. /\ Base = cached /\ scratch1 <= cached
          /\ scratch1 \in Nat /\ scratch1 + 1 \in Nat
        BY SMTT(30), <2>1, <2>4 DEF Base, SInv, FlightInv
    <3>2. Base' = Base
      <4>1. Base' = cached' - n
        BY <2>1, <2>4 DEF Base
      <4> HIDE DEF n
      <4> QED
        BY <3>0, <3>1, <4>1
    <3>3. RunAt(scratch1 + 1, ContRun) /\ Len(ContRun) = n
        BY <3>1, ContRunAt
    <3>4. ASSUME scratch1 + 1 < cached PROVE FALSE
      <4> DEFINE p == cached' - 1
      <4>1. p \in cached..(cached' - 1) /\ p \in Int
        <5> HIDE DEF n
        <5> QED
            BY <3>0
      <4>2. \A i \in 0..(Capacity - 1) : slots[i].at <= p - 1
        <5>1. \A i \in 0..(Capacity - 1) : slots[i].at < cached
            BY <2>1, <2>4, <3>1, <3>4 DEF PInv, AtMost, InWrite
        <5> HIDE DEF n
        <5>2. p - 1 >= cached - 1 /\ p - 1 \in Int /\ cached \in Int
            BY <3>0
        <5>3. \A a, c, m \in Int : a < c /\ m >= c - 1 => a <= m
            OBVIOUS
        <5> HIDE DEF p
        <5> QED
            BY <5>1, <5>2, <5>3
      <4>3. p - 1 \in Int /\ scratch1 + 1 + Len(ContRun) - 1 <= p - 1
        <5> HIDE DEF n
        <5> QED
            BY <3>0, <3>1, <3>3, <3>4
      <4> HIDE DEF p
      <4>4. \A i \in 0..(Capacity - 1) : slots'[i].at <= p - 1
        BY <2>4, <3>1, <3>3, <4>2, <4>3, PutAtMost
      <4>5. p % Capacity \in 0..(Capacity - 1)
        BY <4>1, DivMod
      <4>6. slots'[p % Capacity].at # p
        BY <4>1, <4>4, <4>5
      <4>7. p \in holes'
        BY <2>4, <4>1, <4>6 DEF Unwritten
      <4> QED
        BY <4>7 DEF Damaged
    <3>5. Base <= scratch1 + 1
        BY <3>1, <3>4
    <3>6. Seen' \subseteq Seen
      <4>1. UNCHANGED <<cpc, rt, out>>
        BY <2>1 DEF engine
      <4> QED
        BY <2>4, <3>1, <3>2, <3>3, <3>5, <4>1, PutShrinks
    <3> QED
        BY <2>1, <2>4, <2>a, <3>2, <3>6 DEF StreamMove, Kept, NoneMissed
  <2> QED
    BY <1>5, <2>2, <2>3, <2>4 DEF PostWrite
<1>6. CASE PostCommit
  <2>1. /\ UNCHANGED <<slots, tail, engine, seqC, stat, wide>> /\ pc = "post" /\ pc' = "run"
        /\ cached' = cached + 1 /\ seqI' = seqI + 1
        /\ holes' = holes \cup Unwritten(cached, cached')
    BY <1>6 DEF PostCommit, CommitInline
  <2> DEFINE n == IF wide THEN WideSlots ELSE 1
  <2>2. /\ n \in Nat \ {0} /\ Base = cached - (n - 1) /\ Base' = cached + 1
        /\ cached \in Nat
    BY <2>1 DEF Base
  <2>3. scratch1 = Base
    <3>1. scratch1 \in Nat /\ scratch1 <= Base
        BY <2>1 DEF PInv, AtMost
    <3>2. ASSUME scratch1 < Base PROVE FALSE
      <4>0. cached \in Int
        BY <2>2
      <4>1. cached % Capacity \in 0..(Capacity - 1)
        BY <4>0, DivMod
      <4>2. slots'[cached % Capacity].at # cached
        BY <2>1, <3>2, <4>0, <4>1 DEF PInv, AtMost
      <4>3. cached \in cached..(cached' - 1)
        BY <2>1, <2>2
      <4>4. cached \in holes'
        BY <2>1, <4>2, <4>3 DEF Unwritten
      <4> QED
        BY <4>4 DEF Damaged
    <3> QED
        BY <3>1, <3>2
  <2>4. Base \in Nat /\ Base' = Base + n
    <3>1. Base \in Nat
        BY <2>1, <2>3 DEF PInv, AtMost
    <3> HIDE DEF n
    <3> QED
        BY <2>2, <3>1
  <2>5. ASSUME NEW p \in Base..(Base + n - 1)
        PROVE  slots[p % Capacity] = WriteEv(Base, p - Base)
    <3>1. p \in Base..cached
      <4> HIDE DEF n
      <4> QED
        BY <2>2
    <3> QED
        BY <2>1, <2>3, <3>1 DEF PInv, Fresh
  <2>6. ASSUME NEW p \in Base..(Base + n - 1)
        PROVE  LET e == slots[p % Capacity]
               IN  /\ e.at = p /\ e.off = p - Base /\ RunLen(e) = n /\ WellFormed(e)
                   /\ e.kind # "snap" /\ e.dom = "inline" /\ (p = Base => e.seq = seqI)
    <3> DEFINE k == p - Base
    <3>1. k \in 0..(n - 1) /\ Base + k = p /\ (p = Base => k = 0)
      <4> HIDE DEF n
      <4> QED
        BY <2>2, <2>4
    <3> HIDE DEF k
    <3>2. /\ WriteEv(Base, k).at = Base + k /\ WriteEv(Base, k).off = k
          /\ RunLen(WriteEv(Base, k)) = n
          /\ WellFormed(WriteEv(Base, k)) /\ WriteEv(Base, k).kind # "snap"
          /\ WriteEv(Base, k).dom = "inline" /\ (k = 0 => WriteEv(Base, k).seq = seqI)
        BY <2>4, <3>1, WriteEvParts
    <3>3. slots[p % Capacity] = WriteEv(Base, k)
        BY <2>5 DEF k
    <3> QED
        BY <3>1, <3>2, <3>3 DEF k
  <2>7. Base \in Base..(Base + n - 1)
    <3> HIDE DEF n
    <3> QED
        BY <2>2, <2>4
  <2>8. NextRun(n)
    <3> HIDE DEF n
    <3> QED
        BY <2>6, <2>7 DEF NextRun
  <2>9. /\ slots[Base % Capacity].seq = Spent[slots[Base % Capacity].dom]
        /\ Spent' = [Spent EXCEPT ![slots[Base % Capacity].dom] = @ + 1]
    <3>1. slots[Base % Capacity].dom = "inline" /\ slots[Base % Capacity].seq = seqI
        BY <2>6, <2>7
    <3> QED
        BY <2>1, <3>1 DEF Spent, Domains
  <2> HIDE DEF n
  <2>10. Committed
    BY <2>1, <2>2, <2>4, <2>8, <2>9 DEF Committed
  <2> QED
    BY <2>1, <2>10 DEF StreamMove
<1>7. CASE BlockEnd
    BY <1>7, QuietStream DEF BlockEnd, control, history, NoneMissed
<1> QED
    BY <1>1, <1>2, <1>3, <1>4, <1>5, <1>6, <1>7 DEF Inline

(* Clean calls.                                                            *)
LEMMA CleanStream == IInv /\ SInv /\ PInv /\ Clean => StreamMove
<1> SUFFICES ASSUME IInv, SInv, PInv, Clean PROVE StreamMove
    OBVIOUS
<1> USE StreamTypes
<1>1. CASE AtCall
    BY <1>1, QuietStream DEF AtCall, CleanCall, history, NoneMissed
<1>2. ASSUME NEW op, PushOne(op) PROVE StreamMove
    BY <1>2, QuietStream DEF PushOne, CleanCall, history, NoneMissed
<1>3. ASSUME NEW it \in {"read", "prio"}, AtMemReadBuf(it) PROVE StreamMove
  <2>1. UNCHANGED <<stat.refused, stat.dropped>>
    BY <1>3, StatTypes DEF AtMemReadBuf, Bump, StatNames
  <2> QED
    BY <1>3, <2>1, QuietStream DEF AtMemReadBuf, shared, NoneMissed
<1>4. CASE FlushReadBuf
    BY <1>4, QuietStream DEF FlushReadBuf, CleanCall, history, NoneMissed
<1>5. ASSUME pc \in {"slot", "publish"}
      PROVE  /\ Head(todo) \in Items /\ PushSlots \in Nat \ {0}
             /\ Base = head /\ head = cached /\ head \in Nat
  <2>1. Head(todo) \in Items
    BY <1>5, SlotTypes DEF IInv, TInv, PushShape
  <2> QED
    BY <1>5, <2>1, SlotTypes DEF PushSlots, ItemSlots, SInv, FlightInv, Pushing, Base
<1>6. CASE PushCheck
  <2>1. /\ UNCHANGED <<slots, tail, engine, cached, seqI>> /\ pc = "push" /\ seqC' = seqC + 1
    BY <1>6 DEF PushCheck, shared
  <2>2. CASE stat' = [stat EXCEPT !.dropped = @ + 1] /\ NextItem
    <3>a. pc' \in {"run", "write", "push"}
        BY <2>2, SlotTypes DEF NextItem
    <3>b. stat'.dropped = stat.dropped + 1 /\ stat.dropped \in Nat
        BY <2>2, StatTypes DEF StatNames
    <3>1. pc' \in {"run", "write", "push"} /\ ~NoneMissed'
        BY <3>a, <3>b DEF NoneMissed
    <3>2. Base' = Base
        BY <2>1, <3>1 DEF Base
    <3>3. Seen' = Seen
        BY <2>1, <3>2 DEF Seen, InSlots, Copied, engine
    <3> QED
        BY <2>1, <3>1, <3>2, <3>3 DEF StreamMove, Kept
  <2>3. CASE stat' = [stat EXCEPT !.refused = @ + 1] /\ NextItem
    <3>a. pc' \in {"run", "write", "push"}
        BY <2>3, SlotTypes DEF NextItem
    <3>b. stat'.refused = stat.refused + 1 /\ stat.refused \in Nat
        BY <2>3, StatTypes DEF StatNames
    <3>1. pc' \in {"run", "write", "push"} /\ ~NoneMissed'
        BY <3>a, <3>b DEF NoneMissed
    <3>2. Base' = Base
        BY <2>1, <3>1 DEF Base
    <3>3. Seen' = Seen
        BY <2>1, <3>2 DEF Seen, InSlots, Copied, engine
    <3> QED
        BY <2>1, <3>1, <3>2, <3>3 DEF StreamMove, Kept
  <2>4. CASE pc' = "slot" /\ UNCHANGED stat
    <3>1. Base' = Base
        BY <2>1, <2>4 DEF Base
    <3>2. Seen' = Seen
        BY <2>1, <3>1 DEF Seen, InSlots, Copied, engine
    <3>3. Spent' = Spent
        BY <2>1, <2>4 DEF Spent
    <3> QED
        BY <2>1, <2>4, <3>1, <3>2, <3>3 DEF StreamMove, Kept, NoneMissed
  <2> QED
    BY <1>6, <2>2, <2>3, <2>4 DEF PushCheck
<1>7. CASE PushSlot
  <2> DEFINE run == ItemRun(Head(todo), head, seqC - 1)
  <2>1. /\ UNCHANGED <<tail, engine, cached, seqI, seqC, stat>>
        /\ pc = "slot" /\ pc' = "publish" /\ slots' = PutRun(head, run)
    BY <1>7 DEF PushSlot, thread, history
  <2>2. seqC - 1 \in Nat
    BY <2>1 DEF IInv, TInv, PushShape, TypeOK, ThreadOK
  <2>3. RunAt(head, run)
    BY <1>5, <2>1, <2>2, ItemRunAt
  <2> HIDE DEF run
  <2>4. Base' = Base /\ Spent' = Spent
    BY <2>1 DEF Base, Spent
  <2>5. UNCHANGED <<cpc, rt, out>> /\ Base <= head /\ head \in Nat
    BY <1>5, <2>1 DEF engine
  <2>6. Seen' \subseteq Seen
    BY <2>1, <2>3, <2>4, <2>5, PutShrinks
  <2> QED
    BY <2>1, <2>4, <2>6 DEF StreamMove, Kept, NoneMissed
<1>8. CASE PushPublish
  <2> DEFINE n == PushSlots
             it == Head(todo)
  <2>1. /\ UNCHANGED <<slots, tail, engine, seqI, seqC, stat>>
        /\ pc = "publish" /\ head' = head + n /\ cached' = head'
    BY <1>8 DEF PushPublish, SyncHead, PushSlots, history
  <2>2. pc' \in {"run", "write", "push"}
    BY <1>8, SlotTypes DEF PushPublish, NextItem
  <2>3. /\ n \in Nat \ {0} /\ Base = head /\ head \in Nat /\ it \in Items
        /\ n = ItemSlots(it)
    BY <1>5, <2>1 DEF PushSlots
  <2> HIDE DEF n, it
  <2>4. Base' = Base + n
    BY <2>1, <2>2, <2>3 DEF Base
  <2>5. \A p \in Base..(Base + n - 1) :
            slots[p % Capacity] = ItemRun(it, head, seqC - 1)[p - head + 1]
    BY <2>1, <2>3 DEF PInv, Fresh, n, it
  <2>6. seqC - 1 \in Nat
    <3>1. head \in Base..(Base + n - 1) /\ head - head + 1 = 1 /\ head \in Int
        BY <2>3
    <3>2. slots[head % Capacity] = ItemRun(it, head, seqC - 1)[1]
        BY <2>5, <3>1
    <3>3. ItemRun(it, head, seqC - 1)[1].seq = seqC - 1
        BY <2>3 DEF ItemRun, Ev
    <3>4. head % Capacity \in 0..(Capacity - 1)
        BY <3>1, DivMod
    <3>5. slots[head % Capacity].seq \in Nat
        BY <3>4, SlotTypes DEF Event
    <3> QED
        BY <3>2, <3>3, <3>5
  <2>7. ASSUME NEW p \in Base..(Base + n - 1)
        PROVE  LET e == slots[p % Capacity]
               IN  /\ e.at = p /\ e.off = p - Base /\ RunLen(e) = n /\ WellFormed(e)
                   /\ (e.kind = "snap" <=> it = "snap")
                   /\ e.dom = "clean" /\ (p = Base => e.seq = seqC - 1)
    <3> DEFINE j == p - head + 1
    <3>1. j \in 1..ItemSlots(it) /\ head + j - 1 = p /\ j - 1 = p - Base /\ (p = Base => j = 1)
        BY <2>3
    <3> HIDE DEF j
    <3>2. LET e == ItemRun(it, head, seqC - 1)[j]
          IN  /\ e.at = head + j - 1 /\ e.off = j - 1 /\ RunLen(e) = ItemSlots(it)
              /\ WellFormed(e) /\ (e.kind = "snap" <=> it = "snap")
              /\ e.dom = "clean" /\ (j = 1 => e.seq = seqC - 1)
      <4> DEFINE s == seqC - 1
      <4>1. s \in Nat
        BY <2>6
      <4> HIDE DEF s
      <4>2. PushedAs(ItemRun(it, head, s)[j], it, head, s, j)
        BY <2>3, <3>1, <4>1, ItemParts
      <4> QED
        BY <4>2 DEF s, PushedAs
    <3>3. slots[p % Capacity] = ItemRun(it, head, seqC - 1)[j]
        BY <2>5 DEF j
    <3> QED
        BY <2>3, <3>1, <3>2, <3>3
  <2>8. Base \in Base..(Base + n - 1)
    BY <2>3
  <2>9. NextRun(n)
    BY <2>7, <2>8 DEF NextRun
  <2>10. /\ slots[Base % Capacity].seq = Spent[slots[Base % Capacity].dom]
         /\ Spent' = [Spent EXCEPT ![slots[Base % Capacity].dom] = @ + 1]
    <3>1. slots[Base % Capacity].dom = "clean" /\ slots[Base % Capacity].seq = seqC - 1
        BY <2>7, <2>8
    <3>2. (seqC - 1) + 1 = seqC
        BY <2>6
    <3> QED
        BY <2>1, <2>2, <3>1, <3>2 DEF Spent, Domains
  <2>11. Committed
    BY <2>1, <2>3, <2>4, <2>9, <2>10 DEF Committed
  <2> QED
    BY <2>1, <2>11 DEF StreamMove
<1> QED
    BY <1>1, <1>2, <1>3, <1>4, <1>6, <1>7, <1>8
       DEF Clean, AtReturn, AtReload, WrapAlloc

LEMMA EndingStream == IInv /\ Ending => StreamMove
<1> SUFFICES ASSUME IInv, Ending PROVE StreamMove
    OBVIOUS
<1>1. ASSUME NEW exit \in BOOLEAN, PreSyscall(exit) PROVE StreamMove
    BY <1>1, QuietStream DEF PreSyscall, thread, history, NoneMissed
<1>2. CASE PostSyscall
    BY <1>2, QuietStream DEF PostSyscall, shared, thread, history, NoneMissed
<1>3. CASE SetTerminal
    BY <1>3, QuietStream DEF SetTerminal, thread, history, NoneMissed
<1>4. CASE ThreadExit
  <2>1. UNCHANGED <<stat.refused, stat.dropped>>
    BY <1>4, StatTypes DEF ThreadExit, StatNames
  <2> QED
    BY <1>4, <2>1, QuietStream DEF ThreadExit, NoneMissed
<1> QED
    BY <1>1, <1>2, <1>3, <1>4 DEF Ending

(* The thread either leaves what can be read alone, up to slots it reuses, *)
(* or commits one numbered run.                                            *)
LEMMA ProducerStream ==
    /\ IInv /\ SInv /\ PInv /\ ~Damaged'
    /\ Producer \/ UNCHANGED vars
    => StreamMove
<1> SUFFICES ASSUME IInv, SInv, PInv, ~Damaged', Producer \/ UNCHANGED vars
             PROVE  StreamMove
    OBVIOUS
<1>1. CASE TripwireHit \/ UNCHANGED vars
  <2>1. UNCHANGED <<slots, tail, engine, cached, seqI, seqC, pc, wide, stat>>
    BY <1>1 DEF TripwireHit, vars, shared, thread, control, history
  <2>2. Base' = Base /\ Spent' = Spent
    BY <2>1 DEF Base, Spent
  <2>3. Seen' = Seen
    BY <2>1, <2>2 DEF Seen, InSlots, Copied, engine
  <2> QED
    BY <2>1, <2>2, <2>3 DEF StreamMove, Kept, NoneMissed
<1> QED
    BY <1>1, InlineStream, CleanStream, EndingStream DEF Producer

LEMMA MoveShape == IInv /\ SInv /\ PInv /\ ShapeInv /\ StreamMove => ShapeInv'
<1> SUFFICES ASSUME IInv, SInv, PInv, ShapeInv, StreamMove PROVE ShapeInv'
    OBVIOUS
<1>1. UNCHANGED <<tail, cpc, rt, out, runTail, pending>>
    BY DEF StreamMove, engine
<1>2. CASE Kept
    BY <1>1, <1>2, ShapeKept DEF Kept
<1>3. CASE Committed
  <2>1. PICK n \in Nat \ {0} : NextRun(n) /\ Base' = Base + n /\ UNCHANGED slots
    BY <1>3 DEF Committed
  <2>2. AtHome /\ Base \in Nat /\ tail <= Base
    BY StreamTypes DEF SInv, PInv, IInv, RInv, CursorOrder
  <2> QED
    BY <1>1, <2>1, <2>2, CommitShape
<1> QED
    BY <1>2, <1>3 DEF StreamMove

-----------------------------------------------------------------------------
(* The engine.                                                             *)

(* A snapshot at the front of the batch is there from its header to its    *)
(* last slot.                                                              *)
LEMMA SnapHead ==
    ASSUME IInv, PendingWhole, pending # <<>>, Head(pending).kind = "snap"
    PROVE  /\ pending[1].off = 0 /\ SnapshotApplies
           /\ \A k \in 1..SnapSlots : pending[k].off = k - 1
<1> DEFINE h == pending[1]
<1>1. /\ pending \in Seq(Event) /\ Len(pending) \in Nat /\ 1 \in 1..Len(pending)
      /\ h \in Event /\ h.kind = "snap"
    BY SeenEvents
<1>2. h.off = 0 /\ Rem(h) <= Len(pending) - 1
    BY <1>1 DEF PendingWhole
<1> HIDE DEF h
<1>3. Rem(h) = SnapSlots - 1
    BY <1>1, <1>2 DEF Rem, RunLen
<1>4. Len(pending) >= SnapSlots
    BY <1>1, <1>2, <1>3
<1>5. ASSUME NEW k \in 1..SnapSlots PROVE pending[k].kind = "snap" /\ pending[k].off = k - 1
  <2>1. CASE k = 1
    BY <1>1, <1>2, <2>1 DEF h
  <2>2. CASE k > 1
    <3>1. k \in 1..Len(pending) /\ k - 1 <= Rem(h)
        BY <1>1, <1>3, <1>4
    <3>2. Follows(h, pending[k], k - 1)
        BY <1>1, <2>2, <3>1 DEF PendingWhole, h
    <3> QED
        BY <1>1, <1>2, <3>1, <3>2 DEF Follows
  <2> QED
    BY <2>1, <2>2
<1> QED
    BY <1>2, <1>4, <1>5 DEF SnapshotApplies, h

(* What ProcessEvent takes off the front of the batch.                     *)
LEMMA TakesRun ==
    ASSUME IInv, PendingWhole, pending # <<>>
    PROVE  /\ Consumed \in 1..Len(pending)
           /\ Consumed = IF pending[1].kind = "snap" THEN SnapSlots ELSE 1
           /\ Consumed <= Rem(pending[1]) + 1
           /\ pending[1].kind = "snap" => pending[1].off = 0
<1> DEFINE h == pending[1]
<1>1. /\ Len(pending) \in Nat /\ 1 \in 1..Len(pending) /\ h \in Event /\ Head(pending) = h
    BY SeenEvents
<1>2. CASE h.kind = "snap"
  <2>1. h.off = 0 /\ SnapshotApplies
    BY <1>1, <1>2, SnapHead
  <2>2. Consumed = SnapSlots /\ SnapSlots <= Len(pending)
    BY <1>1, <1>2, <2>1 DEF Consumed, SnapshotApplies
  <2>3. Rem(h) = SnapSlots - 1
    BY <1>2, <2>1 DEF Rem, RunLen
  <2> QED
    BY <1>1, <1>2, <2>1, <2>2, <2>3
<1>3. CASE h.kind # "snap"
  <2>1. Consumed = 1
    BY <1>1, <1>3 DEF Consumed
  <2>2. Rem(h) \in Int /\ Rem(h) >= 0
    BY <1>1, EventParts DEF PendingWhole, WellFormed
  <2> QED
    BY <1>1, <1>3, <2>1, <2>2
<1> QED
    BY <1>2, <1>3

LEMMA SuffixParts ==
    ASSUME NEW s \in Seq(Event), NEW c \in 1..Len(s), NEW t, t = SubSeq(s, c + 1, Len(s))
    PROVE  /\ Len(t) = Len(s) - c /\ Len(s) \in Nat /\ c \in Nat \ {0}
           /\ \A k \in 1..Len(t) : t[k] = s[k + c] /\ k + c \in 1..Len(s) /\ s[k + c] \in Event
<1>1. Len(s) \in Nat /\ c \in Nat \ {0} /\ c <= Len(s)
    OBVIOUS
<1>2. Len(t) = Len(s) - c
    BY <1>1
<1>3. ASSUME NEW k \in 1..Len(t) PROVE t[k] = s[k + c] /\ k + c \in 1..Len(s)
    BY <1>1, <1>2
<1> QED
    BY <1>1, <1>2, <1>3

LEMMA ProcessShape ==
    ASSUME IInv, ShapeInv, ProcessEvent
    PROVE  ShapeInv' /\ Seen' \subseteq Seen
<1>0. pending \in Seq(Event)
    BY SeenEvents
<1> DEFINE c == Consumed
<1>1. /\ UNCHANGED <<slots, tail, cpc, rt, out, runTail>> /\ Base' = Base
      /\ pending # <<>> /\ cpc = "process"
      /\ pending' = SubSeq(pending, c + 1, Len(pending))
  <2>1. UNCHANGED <<slots, tail, cpc, rt, out, runTail, cached, pc, wide>>
    BY DEF ProcessEvent, shared, thread, control
  <2> QED
    BY <2>1 DEF ProcessEvent, Base
<1>2. Seen' = Seen
    BY <1>1 DEF Seen, InSlots, Copied
<1>3. RunsWhole' /\ RunsFollow' /\ TailAtRun' /\ CopyWhole'
    BY <1>1, <1>2 DEF ShapeInv, RunsWhole, RunsFollow, TailAtRun, CopyWhole, Intact
<1>4. PendingWhole
    BY DEF ShapeInv
<1>5. /\ c \in 1..Len(pending) /\ c = IF pending[1].kind = "snap" THEN SnapSlots ELSE 1
      /\ c <= Rem(pending[1]) + 1 /\ (pending[1].kind = "snap" => pending[1].off = 0)
    BY <1>1, <1>4, TakesRun
<1> HIDE DEF c
<1>6. /\ Len(pending') = Len(pending) - c /\ Len(pending) \in Nat /\ c \in Nat \ {0}
      /\ \A k \in 1..Len(pending') :
            /\ pending'[k] = pending[k + c] /\ k + c \in 1..Len(pending)
            /\ pending[k + c] \in Event
  <2> DEFINE t == pending'
  <2>1. c \in 1..Len(pending) /\ t = SubSeq(pending, c + 1, Len(pending))
    BY <1>1, <1>5
  <2> HIDE DEF t
  <2>2. /\ Len(t) = Len(pending) - c /\ Len(pending) \in Nat /\ c \in Nat \ {0}
        /\ \A k \in 1..Len(t) : t[k] = pending[k + c] /\ k + c \in 1..Len(pending) /\ pending[k + c] \in Event
    BY <1>0, <2>1, SuffixParts
  <2> QED
    BY <2>2 DEF t
<1>7. ASSUME NEW k \in 1..Len(pending')
      PROVE  /\ WellFormed(pending'[k])
             /\ Rem(pending'[k]) <= Len(pending') - k
             /\ pending'[k].at = tail - Len(pending') + k - 1
             /\ k = 1 => pending'[k].off = 0 \/ pending'[k].kind = "cont"
  <2> DEFINE e == pending[k + c]
  <2>1. /\ WellFormed(e) /\ Rem(e) <= Len(pending) - (k + c)
        /\ e.at = tail - Len(pending) + (k + c) - 1
    BY <1>4, <1>6 DEF PendingWhole
  <2>2. ASSUME k = 1 PROVE e.off = 0 \/ e.kind = "cont"
    <3> DEFINE h == pending[1]
    <3>1. h \in Event /\ 1 \in 1..Len(pending) /\ 1 < k + c /\ (k + c) - 1 = c
        BY <1>0, <1>6, <2>2
    <3>2. Follows(h, e, c)
        BY <1>4, <1>6, <3>1 DEF PendingWhole
    <3>3. WellFormed(h) /\ Rem(h) \in Int
        BY <1>4, <3>1, EventParts DEF PendingWhole
    <3>4. CASE h.kind = "snap"
      <4>1. Rem(h) = SnapSlots - 1
        BY <1>5, <3>4 DEF Rem, RunLen
      <4>2. c = Rem(h) + 1
        BY <1>5, <3>4, <4>1
      <4> QED
        BY <3>2, <4>2 DEF Follows
    <3>5. CASE h.kind # "snap"
      <4> HIDE DEF e, h
      <4>1. c = 1
        BY <1>5, <3>5 DEF h
      <4>2. Rem(h) >= 0
        BY <3>3 DEF WellFormed
      <4>3. c <= Rem(h) \/ c = Rem(h) + 1
        BY <3>3, <4>1, <4>2
      <4> QED
        BY <3>2, <3>5, <4>3 DEF Follows
    <3> QED
        BY <3>4, <3>5
  <2>3. e = pending'[k] /\ Rem(e) \in Int
    BY <1>6, EventParts
  <2> HIDE DEF e
  <2>4. /\ Len(pending) - (k + c) = Len(pending') - k
        /\ tail - Len(pending) + (k + c) - 1 = tail - Len(pending') + k - 1
    BY <1>6, SlotTypes
  <2> QED
    BY <2>1, <2>2, <2>3, <2>4
<1>8. ASSUME NEW k \in 1..Len(pending'), NEW l \in 1..Len(pending'), k < l
      PROVE  Follows(pending'[k], pending'[l], l - k)
  <2>1. /\ k + c \in 1..Len(pending) /\ l + c \in 1..Len(pending)
        /\ k + c < l + c /\ (l + c) - (k + c) = l - k
    BY <1>6, <1>8
  <2>2. Follows(pending[k + c], pending[l + c], (l + c) - (k + c))
    BY <1>4, <2>1 DEF PendingWhole
  <2> QED
    BY <1>6, <2>1, <2>2
<1>9. PendingWhole'
    BY <1>1, <1>7, <1>8 DEF PendingWhole
<1> QED
    BY <1>2, <1>3, <1>9 DEF ShapeInv

(* Appending to a sequence, and what a suffix of one holds.                *)
LEMMA AppendParts ==
    ASSUME NEW s \in Seq(Event), NEW e \in Event, NEW t, t = Append(s, e)
    PROVE  /\ Len(s) \in Nat /\ Len(t) = Len(s) + 1 /\ t[Len(s) + 1] = e /\ t # <<>>
           /\ \A k \in 1..Len(s) : t[k] = s[k] /\ s[k] \in Event
           /\ \A k \in 1..Len(t) : k \in 1..Len(s) \/ k = Len(s) + 1
OBVIOUS

(* Where the next slot to copy is.                                         *)
LEMMA CopyPlace ==
    ASSUME IInv, PInv, ShapeInv, cpc = "copy"
    PROVE  /\ rt + Len(out) \in Nat /\ rt + Len(out) < Base
           /\ CopyIndex = (rt + Len(out)) % Capacity
           /\ slots[CopyIndex] \in Event
           /\ slots[CopyIndex].at = rt + Len(out) => slots[CopyIndex] \in Seen
<1> DEFINE p == rt + Len(out)
<1>1. p \in Nat /\ p < Base
  <2>1. /\ Len(out) \in Nat /\ rt \in Nat /\ rcap \in Nat /\ head \in Nat /\ Base \in Int
        /\ Len(out) < rcap /\ rt + rcap <= head /\ head <= Base
    BY SeenEvents, StreamTypes DEF IInv, RInv, ConsumerInv, PInv
  <2> QED
    BY <2>1
<1>2. CopyIndex = p % Capacity
    BY DEF CopyIndex
<1> HIDE DEF p
<1>3. p \in Int
    BY <1>1
<1>4. CopyIndex \in 0..(Capacity - 1)
    BY <1>2, <1>3, DivMod
<1>5. slots[CopyIndex] \in Event
    BY <1>4, SlotTypes
<1>6. slots[CopyIndex].at = p => slots[CopyIndex] \in Seen
    BY <1>1, <1>4 DEF Seen, InSlots
<1> QED
    BY <1>1, <1>2, <1>5, <1>6 DEF p

(* The copy loop takes the next slot of its run, or the header of the next *)
(* one.                                                                    *)
LEMMA CopyShape ==
    ASSUME IInv, SInv, PInv, ShapeInv, CopySlot
    PROVE  ShapeInv' /\ Seen' \subseteq Seen
<1> DEFINE n == Len(out)
           ev == slots[CopyIndex]
           p == rt + n
<1>1. /\ UNCHANGED <<slots, tail, rt, pending>> /\ Base' = Base /\ cpc = "copy"
      /\ cpc' \in {"copy", "check"}
  <2>1. UNCHANGED <<slots, tail, rt, pending, cached, pc, wide>>
    BY DEF CopySlot, shared, thread, control
  <2> QED
    BY <2>1 DEF CopySlot, Base
<1>2. PendingWhole'
    BY <1>1 DEF ShapeInv, PendingWhole
<1>3. CASE UNCHANGED <<out, runTail>>
  <2>1. Seen' = Seen
    BY <1>1, <1>3 DEF Seen, InSlots, Copied
  <2>2. CopyWhole'
    BY <1>1, <1>3 DEF ShapeInv, CopyWhole, Intact
  <2> QED
    BY <1>1, <1>2, <2>1, <2>2 DEF ShapeInv, RunsWhole, RunsFollow, TailAtRun
<1>4. ASSUME runTail # 0 \/ n + RunSlots(ev) <= rcap,
             out' = Append(out, ev),
             runTail' = (IF runTail = 0 THEN RunSlots(ev) ELSE runTail) - 1
      PROVE  ShapeInv' /\ Seen' \subseteq Seen
  <2>1. /\ p \in Nat /\ ev \in Event /\ (ev.at = p => ev \in Seen)
    BY <1>1, CopyPlace
  <2>2. out \in Seq(Event) /\ rt \in Nat /\ runTail \in Nat
    BY SeenEvents
  <2>3. /\ n \in Nat /\ Len(out') = n + 1 /\ out'[n + 1] = ev /\ out' # <<>>
        /\ \A k \in 1..n : out'[k] = out[k] /\ out[k] \in Event
        /\ \A k \in 1..Len(out') : k \in 1..n \/ k = n + 1
    BY <1>4, <2>1, <2>2, AppendParts
  <2>4. /\ p = rt + n /\ rt + (n + 1) - 1 = p /\ n + 1 \in 1..(n + 1)
        /\ \A k \in 1..n : k \in 1..(n + 1)
        /\ n = 0 => out = <<>> /\ p = rt
        /\ n # 0 => n \in 1..n
    BY <2>2, <2>3
  <2>5. rt = tail
    BY <1>1 DEF ShapeInv, CopyWhole
  <2>6. /\ runTail' \in Int /\ RunSlots(ev) \in Nat \ {0}
        /\ runTail <= runTail' + 1
    <3>1. RunSlots(ev) \in Nat \ {0}
        BY DEF RunSlots
    <3> HIDE DEF ev
    <3> QED
        BY <1>4, <2>2, <3>1
  <2>7. n = Len(out)
    OBVIOUS
  <2> HIDE DEF ev, n, p
  <2>8. Copied' \subseteq Copied \cup {e \in {ev} : ev.at = p}
    <3>1. ASSUME NEW k \in 1..Len(out'), out'[k].at = rt + k - 1
          PROVE  out'[k] \in Copied \cup {e \in {ev} : ev.at = p}
      <4>1. CASE k \in 1..n
        BY <1>1, <2>3, <2>7, <3>1, <4>1 DEF Copied
      <4>2. CASE k = n + 1
        BY <2>3, <2>4, <3>1, <4>2
      <4> QED
        BY <2>3, <4>1, <4>2
    <3>2. Copied' = {out'[k] : k \in {m \in 1..Len(out') : out'[m].at = rt + m - 1}}
        BY <1>1 DEF Copied
    <3>3. ASSUME NEW e \in Copied' PROVE e \in Copied \cup {f \in {ev} : ev.at = p}
      <4>1. PICK k \in 1..Len(out') : e = out'[k] /\ out'[k].at = rt + k - 1
        BY <3>2, <3>3
      <4> QED
        BY <3>1, <4>1
    <3> QED
        BY <3>3
  <2>9. Seen' \subseteq Seen
    <3>1. InSlots' = InSlots
        BY <1>1 DEF InSlots
    <3> QED
        BY <2>1, <2>8, <3>1 DEF Seen
  <2>10. RunsWhole' /\ RunsFollow' /\ TailAtRun'
    BY <1>1, <2>9 DEF ShapeInv, RunsWhole, RunsFollow, TailAtRun
  <2>11. ASSUME Intact' PROVE Intact /\ ev.at = p
    <3>1. \A k \in 1..(n + 1) : out'[k].at = rt + k - 1
        BY <1>1, <2>3, <2>11 DEF Intact
    <3>2. Intact
        BY <2>3, <2>4, <2>7, <3>1 DEF Intact
    <3> QED
        BY <2>3, <2>4, <3>1, <3>2
  <2>12. ASSUME Intact' PROVE Rem(ev) = runTail' /\ runTail' >= 0
    <3> USE <2>11, <2>12
    <3>1. ev \in Seen /\ WellFormed(ev) /\ Rem(ev) >= 0
        BY <2>1 DEF ShapeInv, RunsWhole, WellFormed
    <3>a. Rem(ev) = RunLen(ev) - 1 - ev.off /\ RunLen(ev) \in Nat /\ ev.off \in Nat
        BY <2>1, EventParts
    <3>2. ASSUME ev.off = 0, runTail = 0 PROVE Rem(ev) = runTail'
      <4>1. ev.kind # "cont"
        BY <3>1, <3>2 DEF WellFormed
      <4>2. RunSlots(ev) = RunLen(ev)
        BY <2>1, <4>1, EventParts
      <4> QED
        BY <1>4, <3>2, <3>a, <4>2
    <3>3. CASE n = 0
      <4>1. out = <<>> /\ p = tail
        BY <2>4, <2>5, <3>3
      <4>2. ev.off = 0 /\ runTail = 0
        BY <1>1, <3>1, <4>1 DEF ShapeInv, TailAtRun, CopyWhole
      <4> QED
        BY <3>1, <3>2, <4>2
    <3>4. CASE n # 0
      <4> DEFINE u == out[n]
      <4>1. n \in 1..Len(out) /\ u \in Event
        BY <2>3, <2>4, <2>7, <3>4
      <4>2. u.at = rt + n - 1 /\ Rem(u) = runTail
        BY <1>1, <2>7, <4>1 DEF Intact, ShapeInv, CopyWhole
      <4>3. u \in Seen
        BY <1>1, <4>1, <4>2 DEF Seen, Copied
      <4> HIDE DEF u
      <4>a. Rem(u) = RunLen(u) - 1 - u.off /\ RunLen(u) \in Nat /\ u.off \in Nat
        BY <4>1, EventParts
      <4>4. u.at < ev.at /\ ev.at - u.at = 1
        BY <2>2, <2>3, <2>4, <4>2
      <4>5. Follows(u, ev, 1)
        BY <3>1, <4>3, <4>4 DEF ShapeInv, RunsFollow
      <4>6. CASE runTail = 0
        <5>1. ev.off = 0
            BY <4>2, <4>5, <4>6 DEF Follows
        <5> QED
            BY <3>1, <3>2, <4>6, <5>1
      <4>7. CASE runTail # 0
        <5>1. /\ ev.off = u.off + 1
              /\ ev.kind = IF u.kind = "snap" THEN "snap" ELSE "cont"
            BY <2>2, <4>2, <4>5, <4>7 DEF Follows
        <5>2. u.kind \in {"snap", "wide", "cont"}
          <6>1. RunLen(u) > 1
            BY <2>2, <4>2, <4>7, <4>a
          <6> QED
            BY <4>1, <6>1, EventParts
        <5>3. RunLen(ev) = RunLen(u)
            BY <5>1, <5>2 DEF RunLen
        <5>4. Rem(ev) = Rem(u) - 1
            BY <3>a, <4>a, <5>1, <5>3
        <5> QED
            BY <1>4, <2>2, <3>1, <4>2, <4>7, <5>4
      <4> QED
        BY <4>6, <4>7
    <3> QED
        BY <3>3, <3>4
  <2>13. ASSUME Intact', NEW k \in 1..Len(out')
         PROVE  /\ Rem(out'[k]) <= Len(out') - k + runTail'
                /\ k = Len(out') => Rem(out'[k]) = runTail'
    <3>0. Rem(ev) = runTail' /\ runTail' >= 0
        BY <2>12, <2>13
    <3>1. CASE k = n + 1
      <4>1. out'[k] = ev /\ Len(out') = k /\ k \in Int
        BY <2>3, <3>1
      <4>a. \A r, j, a \in Int : r = a => r <= j - j + a
        OBVIOUS
      <4>b. runTail' \in Int
        BY <2>6
      <4>2. Rem(ev) <= k - k + runTail'
        BY <3>0, <4>1, <4>a, <4>b
      <4> QED
        BY <3>0, <4>1, <4>2
    <3>2. CASE k \in 1..n
      <4>1. out'[k] = out[k] /\ out[k] \in Event /\ Len(out') = n + 1 /\ k # n + 1
        BY <2>3, <3>2
      <4>2. Rem(out[k]) <= n - k + runTail
        BY <1>1, <2>7, <2>11, <2>13, <3>2 DEF ShapeInv, CopyWhole
      <4>3. Rem(out[k]) \in Int
        BY <4>1, EventParts
      <4>4. \A r, m, j, a, b \in Int : r <= m - j + a /\ a <= b + 1 => r <= (m + 1) - j + b
        OBVIOUS
      <4>5. n \in Int /\ k \in Int /\ runTail \in Int /\ runTail' \in Int
        BY <2>2, <2>3, <2>6
      <4>6. Rem(out[k]) <= (n + 1) - k + runTail'
        BY <2>6, <4>2, <4>3, <4>4, <4>5
      <4> QED
        BY <4>1, <4>6
    <3> QED
        BY <2>3, <3>1, <3>2
  <2>14. CopyWhole'
    BY <1>1, <2>3, <2>5, <2>13 DEF CopyWhole
  <2> QED
    BY <1>2, <2>9, <2>10, <2>14 DEF ShapeInv
<1> QED
    BY <1>3, <1>4 DEF CopySlot

LEMMA PlacesApart ==
    \A a, b, r \in Int : a < b => /\ r + a - 1 < r + b - 1
                                  /\ (r + b - 1) - (r + a - 1) = b - a
OBVIOUS

(* consume_batch hands on what it copied, if nothing says it is damaged.   *)
LEMMA RecheckShape ==
    ASSUME IInv, SInv, PInv, ShapeInv, ~Damaged, ~Damaged', Recheck
    PROVE  /\ ShapeInv'
           /\ pending' = out /\ Seen' \subseteq Seen /\ Intact
           /\ rt = tail /\ tail' = tail + Len(out)
<1> USE SeenEvents, StreamTypes
<1>1. /\ UNCHANGED <<slots, holes>> /\ Base' = Base /\ cpc = "check" /\ cpc' = "retire"
  <2>1. UNCHANGED <<slots, holes, cached, pc, wide>>
    BY DEF Recheck, thread, control
  <2> QED
    BY <2>1 DEF Recheck, Base
<1>2. ~LappedSince
  <2>1. CASE LappedSince
    <3>1. lapped' = lapped + LossSince /\ LossSince > 0 /\ lapped \in Nat /\ LossSince \in Int
      <4>1. lapped \in Nat /\ head \in Nat /\ rt \in Nat
        BY DEF IInv, TInv, TypeOK, EngineOK, SharedOK
      <4> QED
        BY SMTT(30), <2>1, <4>1 DEF Recheck, LappedSince, LossSince
    <3> HIDE DEF LossSince
    <3>2. lapped' > 0
        BY <3>1
    <3> QED
        BY <3>2 DEF Damaged
  <2> QED
    BY <2>1
<1>3. /\ tail' = rt + Len(out) /\ pending' = out
      /\ \A k \in 1..Len(out) : ~(out[k].at > rt + k - 1)
  <2>1. torn' = (torn \/ \E k \in 1..Len(out) : out[k].at > rt + k - 1)
    BY <1>2 DEF Recheck
  <2> QED
    BY <1>2, <2>1 DEF Recheck, Damaged
<1>4. rt = tail /\ runTail = 0
    BY <1>1 DEF ShapeInv, CopyWhole, PInv, RunTailInv
<1>5. Intact
  <2> SUFFICES ASSUME NEW k \in 1..Len(out) PROVE out[k].at = rt + k - 1
    BY DEF Intact
  <2>1. out[k] \in Event
    OBVIOUS
  <2>2. out[k].at \in Int /\ rt + k - 1 \in Int
    <3>1. rt \in Nat /\ k \in Int
        OBVIOUS
    <3>2. out[k].at \in Int
        BY <2>1, EventParts, ZenonT(20)
    <3>3. \A a \in Nat, b \in Int : a + b - 1 \in Int
        OBVIOUS
    <3> QED
        BY <3>1, <3>2, <3>3, ZenonT(20)
  <2>3. holes = {}
    BY DEF Damaged
  <2>4. out[k].at >= rt + k - 1
    BY <1>1, <2>3 DEF SInv, OutInv
  <2>5. ~(out[k].at > rt + k - 1)
    BY <1>3
  <2> HIDE DEF Damaged
  <2>6. \A a, b \in Int : a >= b /\ ~(a > b) => a = b
    BY SMTT(30)
  <2> QED
    BY <2>2, <2>4, <2>5, <2>6
<1>6. \A k \in 1..Len(out) : out[k] \in Seen
    BY <1>1, <1>5 DEF Intact, Seen, Copied
<1>7. Seen' \subseteq Seen
    BY <1>1 DEF Seen, InSlots, Copied
<1>8. RunsWhole' /\ RunsFollow'
    BY <1>1, <1>7 DEF ShapeInv, RunsWhole, RunsFollow
<1>9. TailAtRun'
  <2> SUFFICES ASSUME NEW e \in Seen', e.at = tail' PROVE e.off = 0
    BY DEF TailAtRun
  <2> DEFINE n == Len(out)
  <2>0. n \in Nat
    OBVIOUS
  <2>1. CASE n = 0
    <3>1. tail' = tail
        BY <1>3, <1>4, <2>1
    <3> QED
        BY <1>7, <3>1 DEF ShapeInv, TailAtRun
  <2>2. CASE n # 0
    <3>1. n \in 1..Len(out) /\ out[n] \in Event
        BY <2>0, <2>2
    <3>2. out[n].at = rt + n - 1 /\ Rem(out[n]) = 0 /\ out[n] \in Seen
        BY <1>1, <1>4, <1>5, <1>6, <3>1 DEF Intact, ShapeInv, CopyWhole
    <3>3. out[n].at < e.at /\ e.at - out[n].at = 1
        BY SMTT(30), <1>3, <2>0, <3>2
    <3>4. Follows(out[n], e, 1)
        BY <1>7, <3>2, <3>3 DEF ShapeInv, RunsFollow
    <3> QED
        BY <3>2, <3>4 DEF Follows
  <2> QED
    BY <2>1, <2>2
<1>10. CopyWhole'
    BY <1>1 DEF CopyWhole
<1>11. ASSUME NEW k \in 1..Len(out)
       PROVE  /\ WellFormed(out[k]) /\ Rem(out[k]) <= Len(out) - k
              /\ out[k].at = tail' - Len(out) + k - 1
              /\ k = 1 => out[k].off = 0
  <2>1. WellFormed(out[k])
    BY <1>6 DEF ShapeInv, RunsWhole
  <2>2. Rem(out[k]) <= Len(out) - k
    <3>1. Rem(out[k]) <= Len(out) - k + runTail
        BY <1>1, <1>5 DEF ShapeInv, CopyWhole
    <3> QED
        BY <1>4, <3>1
  <2>3. out[k].at = tail' - Len(out) + k - 1
    BY SMTT(30), <1>3, <1>5 DEF Intact
  <2>4. k = 1 => out[k].off = 0
    <3>1. k = 1 => out[k].at = tail
        BY <1>4, <1>5 DEF Intact
    <3> QED
        BY <1>6, <3>1 DEF ShapeInv, TailAtRun
  <2> QED
    BY <2>1, <2>2, <2>3, <2>4
<1>12. ASSUME NEW k \in 1..Len(out), NEW l \in 1..Len(out), k < l
       PROVE  Follows(out[k], out[l], l - k)
  <2>1. out[k].at < out[l].at /\ out[l].at - out[k].at = l - k
    <3>1. out[k].at = rt + k - 1 /\ out[l].at = rt + l - 1
        BY <1>5 DEF Intact
    <3>2. rt \in Int /\ k \in Int /\ l \in Int
        OBVIOUS
    <3> QED
        BY <1>12, <3>1, <3>2, PlacesApart
  <2> QED
    BY <1>6, <2>1 DEF ShapeInv, RunsFollow
<1>13. PendingWhole'
    BY <1>1, <1>3, <1>11, <1>12 DEF PendingWhole
<1> QED
    BY <1>3, <1>4, <1>5, <1>7, <1>8, <1>9, <1>10, <1>13 DEF ShapeInv

LEMMA ConsumerShape ==
    ASSUME IInv, SInv, PInv, ShapeInv, ~Damaged, ~Damaged', Consumer
    PROVE  ShapeInv' /\ Seen' \subseteq Seen
<1> USE SeenEvents, StreamTypes
<1>0. Base' = Base
    BY ConsumerFrame DEF Base, thread, control
<1>1. CASE ConsumeStart
  <2>1. /\ UNCHANGED <<slots, tail, out, runTail, pending>> /\ cpc = "idle" /\ out = <<>>
        /\ runTail = 0
    BY <1>1 DEF ConsumeStart, shared, IInv, RInv, ConsumerInv, PInv, RunTailInv
  <2>2. Seen' \subseteq Seen
    <3>1. InSlots' = InSlots
        BY <1>0, <2>1 DEF InSlots
    <3>2. \A k : k \notin 1..Len(out')
        BY <2>1
    <3>3. Copied' = {}
        BY <3>2 DEF Copied
    <3> QED
        BY <3>1, <3>3 DEF Seen
  <2>3. cpc' = "copy" => rt' = tail
    <3>1. CASE UNCHANGED <<rt, rcap, lapped>> /\ cpc' = "retire"
        BY <3>1
    <3>2. CASE \E t \in {head - Capacity, tail} : rt' = t /\ lapped' = lapped + (t - tail)
      <4>1. PICK t \in {head - Capacity, tail} : rt' = t /\ lapped' = lapped + (t - tail)
        BY <3>2
      <4>2. lapped = 0 /\ ~(lapped' > 0) /\ head \in Nat /\ tail \in Nat
        BY DEF Damaged, IInv, TInv, TypeOK, EngineOK, SharedOK
      <4>3. t >= tail
        BY <1>1, <4>1, <4>2 DEF ConsumeStart
      <4> QED
        BY <4>1, <4>2, <4>3
    <3> QED
        BY <1>1, <3>1, <3>2 DEF ConsumeStart
  <2>4. CopyWhole' /\ PendingWhole'
    BY <1>1, <2>1, <2>3 DEF ConsumeStart, ShapeInv, CopyWhole, PendingWhole, Intact
  <2>5. RunsWhole' /\ RunsFollow' /\ TailAtRun'
    BY <1>0, <2>1, <2>2 DEF ShapeInv, RunsWhole, RunsFollow, TailAtRun
  <2> QED
    BY <2>2, <2>4, <2>5 DEF ShapeInv
<1>2. ASSUME UNCHANGED <<slots, tail, rt, out, runTail, pending>>,
             cpc \notin {"copy", "check"}, cpc' \notin {"copy", "check"},
             cpc' = "idle" => pending = <<>>
      PROVE  ShapeInv' /\ Seen' \subseteq Seen
  <2>1. Seen' = Seen
    BY <1>0, <1>2 DEF Seen, InSlots, Copied
  <2>2. CopyWhole' /\ PendingWhole'
    BY <1>2 DEF ShapeInv, CopyWhole, PendingWhole
  <2> QED
    BY <1>0, <1>2, <2>1, <2>2 DEF ShapeInv, RunsWhole, RunsFollow, TailAtRun
<1>3. CASE RetireCheck
    BY <1>2, <1>3 DEF RetireCheck, shared
<1>4. CASE UpdateBackpressure
    BY <1>2, <1>4 DEF UpdateBackpressure
<1>5. CASE DrainAgain
    BY <1>2, <1>5 DEF DrainAgain, shared
<1>6. CASE PollDead
    BY <1>2, <1>6 DEF PollDead, shared, ShapeInv, PendingWhole
<1> QED
    BY <1>1, <1>3, <1>4, <1>5, <1>6, CopyShape, RecheckShape, ProcessShape DEF Consumer

(* The shape of an undamaged stream is kept.                               *)
WInv == ~Damaged => ShapeInv

LEMMA WInvInit == Init => WInv
<1> SUFFICES ASSUME Init PROVE ShapeInv
    BY DEF WInv
<1>1. Seen = {}
  <2>1. \A i \in 0..(Capacity - 1) : slots[i].at = -1
    BY DEF Init, ZeroEvent, Ev
  <2>2. InSlots = {}
    BY <2>1 DEF InSlots
  <2>3. Copied = {}
    BY DEF Init, Copied
  <2> QED
    BY <2>2, <2>3 DEF Seen
<1> QED
    BY <1>1 DEF Init, ShapeInv, RunsWhole, RunsFollow, TailAtRun, CopyWhole, PendingWhole

LEMMA WInvNext == IInv /\ SInv /\ PInv /\ WInv /\ [Next]_vars => WInv'
<1> SUFFICES ASSUME IInv, SInv, PInv, WInv, [Next]_vars, ~Damaged' PROVE ShapeInv'
    BY DEF WInv
<1>1. ~Damaged /\ ShapeInv
    BY DamageStays DEF WInv
<1> QED
    BY <1>1, ProducerStream, MoveShape, ConsumerShape DEF Next

(* On an undamaged stream apply_reg_snapshot always finds the whole run    *)
(* it looks for: the producer commits snapshots whole, consume_batch ends  *)
(* no batch inside a run although it cannot tell a header from a           *)
(* continuation, and the event loop steps from run to run, for every ring  *)
(* size, batch limit and snapshot length.                                  *)
THEOREM SnapshotsArriveWhole == Spec => []SnapshotsWhole
<1>1. IInv /\ WInv => SnapshotsWhole
    BY SnapHead DEF WInv, ShapeInv, SnapshotsWhole
<1> QED
    BY <1>1, IInvInit, IInvNext, SInvInit, SInvNext, PInvInit, PInvNext, WInvInit, WInvNext,
       PTL DEF Spec

-----------------------------------------------------------------------------
(* Sequence numbers.                                                       *)

(* N[p] is how many numbers of each domain the events before position p    *)
(* have used up.  A header carries the next number of its domain, and its  *)
(* run uses up that one.                                                   *)
NumberedBy(N, e) ==
    IF e.off = 0
    THEN /\ e.seq = N[e.at][e.dom]
         /\ \A j \in 1..RunLen(e) : N[e.at + j] = [N[e.at] EXCEPT ![e.dom] = @ + 1]
    ELSE N[e.at + 1] = N[e.at]

(* The position of the event the engine handles next.                      *)
NextAt == tail - Len(pending)

Numberings == [Nat -> [Domains -> Nat]]

(* The stream is numbered through, from what the engine handles next up to *)
(* what the thread numbers next; the engine has seen no gap, and expects   *)
(* what comes.                                                             *)
Numbers(N) ==
    /\ \A e \in Seen : NumberedBy(N, e)
    /\ N[Base] = Spent
    /\ Len(pending) <= tail
    /\ \A k \in 1..Len(pending) : NumberedBy(N, pending[k])
    /\ \A d \in Domains : expected[d] \in {-1, N[NextAt][d]}
    /\ gaps = 0

GInv == ~Damaged /\ NoneMissed => \E N \in Numberings : Numbers(N)

LEMMA SeenAt == IInv => \A e \in Seen : e \in Event /\ e.at \in Nat
<1> SUFFICES ASSUME IInv, NEW e \in Seen PROVE e \in Event /\ e.at \in Nat
    OBVIOUS
<1>1. e \in Event /\ rt \in Nat /\ out \in Seq(Event)
    BY SeenEvents
<1>2. e.at \in Int
    BY <1>1, EventParts
<1>3. CASE e \in InSlots
  <2>1. 0 <= e.at
    BY <1>3 DEF InSlots
  <2>2. e.at \in Nat
    BY <1>2, <2>1
  <2> QED
    BY <1>1, <2>2
<1>4. CASE e \in Copied
  <2>1. PICK n \in 1..Len(out) : e = out[n] /\ out[n].at = rt + n - 1
    BY <1>4 DEF Copied
  <2> QED
    BY <1>1, <2>1
<1> QED
    BY <1>1, <1>3, <1>4 DEF Seen

(* Numbering the events behind position b leaves those before it alone.    *)
LEMMA NumberKept ==
    ASSUME NEW e \in Event, e.at \in Nat, WellFormed(e), NEW b \in Int, e.at + Rem(e) < b,
           NEW N, NEW M, \A p \in 0..b : M[p] = N[p], NumberedBy(N, e)
    PROVE  NumberedBy(M, e)
<1>1. /\ RunLen(e) \in Nat \ {0} /\ Rem(e) = RunLen(e) - 1 - e.off /\ e.off \in Nat
      /\ Rem(e) \in Int /\ Rem(e) >= 0
    BY EventParts DEF WellFormed
<1>2. e.at \in 0..b /\ e.at + 1 \in 0..b
    BY <1>1
<1>3. ASSUME e.off = 0, NEW j \in 1..RunLen(e) PROVE e.at + j \in 0..b
    BY <1>1, <1>3
<1> HIDE DEF RunLen
<1>4. CASE e.off = 0
    BY <1>2, <1>3, <1>4 DEF NumberedBy
<1>5. CASE e.off # 0
    BY <1>2, <1>5 DEF NumberedBy
<1> QED
    BY <1>4, <1>5

(* The drained batch lies before the shared tail.                          *)
LEMMA PendingPlaces ==
    ASSUME IInv, ShapeInv, Len(pending) <= tail, NEW k \in 1..Len(pending)
    PROVE  /\ pending[k] \in Event /\ pending[k].at = NextAt + k - 1
           /\ pending[k].at \in Nat /\ WellFormed(pending[k])
           /\ pending[k].at + Rem(pending[k]) < tail
           /\ NextAt \in Nat /\ NextAt <= tail
<1>1. pending \in Seq(Event) /\ tail \in Nat
    BY SeenEvents, StreamTypes
<1>2. pending[k] \in Event /\ Len(pending) \in Nat
    BY <1>1
<1>3. /\ pending[k].at = tail - Len(pending) + k - 1 /\ WellFormed(pending[k])
      /\ Rem(pending[k]) <= Len(pending) - k /\ Rem(pending[k]) \in Int
    BY <1>2, EventParts DEF ShapeInv, PendingWhole
<1> QED
    BY <1>1, <1>2, <1>3 DEF NextAt

LEMMA CommitNumbers ==
    ASSUME IInv, AtHome, ShapeInv, NEW n \in Nat \ {0}, NextRun(n),
           Base \in Nat, tail <= Base, Base' = Base + n, UNCHANGED <<slots, tail, engine>>,
           slots[Base % Capacity].seq = Spent[slots[Base % Capacity].dom],
           Spent' = [Spent EXCEPT ![slots[Base % Capacity].dom] = @ + 1],
           NEW N \in Numberings, Numbers(N)
    PROVE  \E M \in Numberings : Numbers(M)'
<1> DEFINE h == slots[Base % Capacity]
           S == Spent'
<1>1. Base \in Int /\ Base % Capacity \in 0..(Capacity - 1) /\ h \in Event
  <2>1. Base \in Int
    OBVIOUS
  <2> QED
    BY <2>1, DivMod, SlotTypes
<1>2. Spent \in [Domains -> Nat] /\ h.dom \in Domains
    BY <1>1 DEF Numbers, Numberings, Event
<1>3. S \in [Domains -> Nat]
    BY <1>2
<1>4. PICK M : M = [p \in Nat |-> IF p <= Base THEN N[p] ELSE S]
    OBVIOUS
<1> HIDE DEF S
<1>5. /\ M \in Numberings
      /\ \A p \in 0..Base : M[p] = N[p]
      /\ \A p \in Nat : p > Base => M[p] = S
    BY <1>1, <1>3, <1>4 DEF Numberings
<1>6. \A e \in Seen : NumberedBy(M, e)
  <2> TAKE e \in Seen
  <2>1. e \in Event /\ e.at \in Nat /\ WellFormed(e) /\ e.at + Rem(e) < Base
    BY SeenAt DEF ShapeInv, RunsWhole
  <2>2. NumberedBy(N, e)
    BY DEF Numbers
  <2> QED
    BY <1>1, <1>5, <2>1, <2>2, NumberKept
<1>7. \A e \in NewSlots(n) : NumberedBy(M, e)
  <2> TAKE e \in NewSlots(n)
  <2>1. /\ e \in Event /\ e.at \in Base..(Base + n - 1) /\ e.off = e.at - Base
        /\ RunLen(e) = n /\ e = slots[e.at % Capacity]
    BY NewEvents
  <2>2. CASE e.off = 0
    <3>1. e.at = Base
        BY <1>1, <2>1, <2>2
    <3>5. e = h
        BY <2>1, <3>1
    <3>2. M[Base] = Spent
        BY <1>1, <1>5 DEF Numbers
    <3>3. \A j \in 1..n : M[Base + j] = S
        BY <1>1, <1>5
    <3>4. S = [Spent EXCEPT ![h.dom] = @ + 1] /\ h.seq = Spent[h.dom]
        BY DEF S
    <3> HIDE DEF h
    <3> QED
        BY <2>1, <2>2, <3>1, <3>2, <3>3, <3>4, <3>5 DEF NumberedBy
  <2>3. CASE e.off # 0
    <3>1. e.at > Base /\ e.at \in Nat /\ e.at + 1 \in Nat /\ e.at + 1 > Base
        BY <1>1, <2>1, <2>3
    <3> QED
        BY <1>5, <2>3, <3>1 DEF NumberedBy
  <2> QED
    BY <2>2, <2>3
<1>8. \A e \in Seen' : NumberedBy(M, e)
  <2>1. UNCHANGED <<cpc, rt, out>>
    BY DEF engine
  <2> QED
    BY <1>6, <1>7, <2>1, CommitSeen
<1>9. M[Base'] = Spent'
  <2>1. Base + n \in Nat /\ Base + n > Base
    BY <1>1
  <2> QED
    BY <1>5, <2>1 DEF S
<1>10. UNCHANGED <<pending, expected, gaps>> /\ NextAt' = NextAt
    BY DEF engine, NextAt
<1>11. Len(pending) <= tail /\ \A k \in 1..Len(pending) : NumberedBy(M, pending[k])
  <2>1. Len(pending) <= tail
    BY DEF Numbers
  <2>2. ASSUME NEW k \in 1..Len(pending) PROVE NumberedBy(M, pending[k])
    <3>1. /\ pending[k] \in Event /\ pending[k].at \in Nat /\ WellFormed(pending[k])
          /\ pending[k].at + Rem(pending[k]) < tail
        BY <2>1, PendingPlaces
    <3>2. pending[k].at + Rem(pending[k]) < Base
      <4>1. \A a, b, c, d \in Int : a + b < c /\ c <= d => a + b < d
        OBVIOUS
      <4>2. pending[k].at \in Int /\ Rem(pending[k]) \in Int
        BY <3>1, EventParts, ZenonT(20)
      <4>3. tail \in Int /\ Base \in Int
        BY SMTT(30), StreamTypes
      <4> QED
        BY <3>1, <4>1, <4>2, <4>3
    <3>3. NumberedBy(N, pending[k])
        BY DEF Numbers
    <3> QED
        BY <1>1, <1>5, <3>1, <3>2, <3>3, NumberKept
  <2> QED
    BY <2>1, <2>2
<1>12. M[NextAt] = N[NextAt]
  <2>1. NextAt \in 0..Base
    BY SMTT(30), <1>11, SeenEvents, StreamTypes DEF NextAt
  <2> QED
    BY <1>5, <2>1
<1>13. Numbers(M)'
  <2>1. \A d \in Domains : expected[d] \in {-1, M[NextAt][d]}
    BY <1>12 DEF Numbers
  <2>2. gaps = 0
    BY DEF Numbers
  <2>3. (\A e \in Seen : NumberedBy(M, e))'
    BY <1>8 DEF NumberedBy, RunLen
  <2>4. (\A k \in 1..Len(pending) : NumberedBy(M, pending[k]))'
    BY <1>10, <1>11
  <2> QED
    BY <1>9, <1>10, <1>11, <2>1, <2>2, <2>3, <2>4 DEF Numbers
<1> QED
    BY <1>5, <1>13

(* What the thread does short of committing a run changes no number.       *)
LEMMA KeptNumbers ==
    ASSUME Kept, UNCHANGED <<tail, engine>>, NoneMissed', NEW N, Numbers(N)
    PROVE  Numbers(N)'
<1>1. Seen' \subseteq Seen /\ Base' = Base /\ Spent' = Spent
    BY DEF Kept
<1>2. UNCHANGED <<pending, expected, gaps>> /\ NextAt' = NextAt
    BY DEF engine, NextAt
<1>3. (\A e \in Seen : NumberedBy(N, e))'
    BY <1>1 DEF Numbers, NumberedBy, RunLen
<1>4. (\A k \in 1..Len(pending) : NumberedBy(N, pending[k]))'
  <2>1. \A k \in 1..Len(pending) : NumberedBy(N, pending[k])
    BY DEF Numbers
  <2> QED
    BY <1>2, <2>1
<1>5. N[Base'] = Spent' /\ Len(pending') <= tail'
    BY <1>1, <1>2 DEF Numbers
<1>6. gaps' = 0 /\ \A d \in Domains : expected'[d] \in {-1, N[NextAt'][d]}
    BY <1>2 DEF Numbers
<1> QED
    BY <1>3, <1>4, <1>5, <1>6 DEF Numbers

LEMMA ProducerNumbers ==
    ASSUME IInv, SInv, PInv, ShapeInv, StreamMove, NoneMissed', GInv, ~Damaged
    PROVE  \E M \in Numberings : Numbers(M)'
<1>1. CASE Kept
  <2>1. NoneMissed
    BY <1>1 DEF Kept
  <2>2. PICK N \in Numberings : Numbers(N)
    BY <2>1 DEF GInv
  <2> QED
    BY <1>1, <2>2, KeptNumbers DEF StreamMove
<1>2. CASE Committed
  <2>1. PICK n \in Nat \ {0} :
            /\ NextRun(n) /\ Base' = Base + n /\ UNCHANGED <<slots, stat>>
            /\ slots[Base % Capacity].seq = Spent[slots[Base % Capacity].dom]
            /\ Spent' = [Spent EXCEPT ![slots[Base % Capacity].dom] = @ + 1]
    BY <1>2 DEF Committed
  <2>2. NoneMissed
    BY <2>1 DEF NoneMissed
  <2>3. PICK N \in Numberings : Numbers(N)
    BY <2>2 DEF GInv
  <2>4. AtHome /\ Base \in Nat /\ tail <= Base
    BY StreamTypes DEF SInv, PInv, IInv, RInv, CursorOrder
  <2>5. UNCHANGED <<slots, tail, engine>>
    BY <2>1 DEF StreamMove
  <2> QED
    BY <2>1, <2>3, <2>4, <2>5, CommitNumbers
<1> QED
    BY <1>1, <1>2 DEF StreamMove

(* The engine numbers nothing, and forgets where it was only by handing on *)
(* what it has checked.                                                    *)
LEMMA ConsumerSpent == Consumer => Base' = Base /\ Spent' = Spent /\ (NoneMissed' <=> NoneMissed)
BY ConsumerFrame, ConsumerKeepsStat DEF Base, Spent, NoneMissed, thread, control

LEMMA RecheckNumbers ==
    ASSUME IInv, ShapeInv, Consumer, Recheck, NEW N, Numbers(N), Seen' \subseteq Seen,
           pending' = out, Intact, rt = tail, tail' = tail + Len(out)
    PROVE  Numbers(N)'
<1>1. UNCHANGED <<expected, gaps>> /\ cpc = "check" /\ pending = <<>>
    BY DEF Recheck, ShapeInv, PendingWhole
<1>2. Len(out) \in Nat /\ tail \in Nat
    BY SeenEvents, StreamTypes
<1>3. Len(pending') <= tail' /\ NextAt' = NextAt
    BY <1>1, <1>2 DEF NextAt
<1>4. \A k \in 1..Len(out) : out[k] \in Seen
    BY <1>1 DEF Intact, Seen, Copied
<1>5. (\A k \in 1..Len(pending) : NumberedBy(N, pending[k]))'
    BY <1>4 DEF Numbers, NumberedBy, RunLen
<1>6. (\A e \in Seen : NumberedBy(N, e))'
    BY DEF Numbers, NumberedBy, RunLen
<1> QED
    BY <1>1, <1>3, <1>5, <1>6, ConsumerSpent DEF Numbers

LEMMA ProcessNumbers ==
    ASSUME IInv, ShapeInv, Consumer, ProcessEvent, NEW N \in Numberings, Numbers(N),
           Seen' \subseteq Seen
    PROVE  Numbers(N)'
<1> DEFINE c == Consumed
           h == pending[1]
<1>1. /\ pending \in Seq(Event) /\ Len(pending) \in Nat /\ 1 \in 1..Len(pending)
      /\ h \in Event /\ Head(pending) = h /\ pending # <<>>
    BY SeenEvents DEF ProcessEvent
<1>2. /\ pending' = SubSeq(pending, c + 1, Len(pending)) /\ tail' = tail
      /\ IF h.kind = "cont"
         THEN UNCHANGED <<expected, gaps>>
         ELSE /\ gaps' = IF expected[h.dom] \in {-1, h.seq} THEN gaps ELSE gaps + 1
              /\ expected' = [expected EXCEPT ![h.dom] = h.seq + 1]
    BY <1>1 DEF ProcessEvent, shared
<1>3. /\ c \in 1..Len(pending) /\ c = IF h.kind = "snap" THEN SnapSlots ELSE 1
      /\ h.kind = "snap" => h.off = 0
    BY <1>1, TakesRun DEF ShapeInv
<1>4. /\ h.at = NextAt /\ WellFormed(h) /\ NextAt \in Nat
    BY <1>1, PendingPlaces DEF Numbers
<1>5. NumberedBy(N, h)
    BY <1>1 DEF Numbers
<1> HIDE DEF c, h
<1>6. /\ Len(pending') = Len(pending) - c /\ c \in Nat \ {0}
      /\ \A k \in 1..Len(pending') : pending'[k] = pending[k + c] /\ k + c \in 1..Len(pending)
  <2> DEFINE t == pending'
  <2>1. t = SubSeq(pending, c + 1, Len(pending))
    BY <1>2
  <2> HIDE DEF t
  <2>2. /\ Len(t) = Len(pending) - c /\ c \in Nat \ {0}
        /\ \A k \in 1..Len(t) : /\ t[k] = pending[k + c] /\ k + c \in 1..Len(pending)
                                /\ pending[k + c] \in Event
    <3>1. pending \in Seq(Event) /\ c \in 1..Len(pending)
        BY <1>1, <1>3
    <3> QED
        BY <2>1, <3>1, SuffixParts
  <2> QED
    BY <2>2 DEF t
<1>7. NextAt' = NextAt + c /\ Len(pending') <= tail'
  <2>1. tail \in Nat /\ Len(pending) <= tail
    BY StreamTypes DEF Numbers
  <2>2. Len(pending') = Len(pending) - c /\ tail' = tail /\ c \in Nat /\ Len(pending) \in Nat
    BY <1>1, <1>2, <1>6
  <2>3. /\ tail - (Len(pending) - c) = tail - Len(pending) + c
        /\ Len(pending) - c <= tail
    BY <2>1, <2>2
  <2> QED
    BY <2>2, <2>3 DEF NextAt
<1>8. (\A k \in 1..Len(pending) : NumberedBy(N, pending[k]))'
  <2>1. \A k \in 1..Len(pending') : NumberedBy(N, pending'[k])
    BY <1>6 DEF Numbers
  <2> QED
    BY <2>1 DEF NumberedBy, RunLen
<1>9. (\A e \in Seen : NumberedBy(N, e))'
    BY DEF Numbers, NumberedBy, RunLen
<1>10. /\ h.dom \in Domains /\ h.seq \in Nat /\ N[NextAt] \in [Domains -> Nat]
       /\ expected \in [Domains -> Nat \cup {-1}]
    BY <1>1, <1>4 DEF Numberings, Event, IInv, TInv, TypeOK, EngineOK
<1>11. \A d \in Domains : expected[d] \in {-1, N[NextAt][d]}
    BY DEF Numbers
<1>12. gaps' = 0 /\ \A d \in Domains : expected'[d] \in {-1, N[NextAt + c][d]}
  <2>1. CASE h.kind = "cont"
    <3>1. h.off > 0 /\ c = 1
        BY <1>3, <1>4, <2>1 DEF WellFormed
    <3>2. N[NextAt + c] = N[NextAt]
        BY <1>4, <1>5, <3>1 DEF NumberedBy
    <3> QED
        BY <1>2, <1>11, <2>1, <3>2 DEF Numbers
  <2>2. CASE h.kind # "cont"
    <3>1. h.off = 0 /\ c \in 1..RunLen(h)
      <4>1. h.off \in Nat /\ RunLen(h) \in Nat \ {0}
        BY <1>1, EventParts DEF h
      <4>2. h.off = 0
        BY <1>3, <1>4, <2>2, <4>1 DEF WellFormed
      <4>3. h.kind = "snap" => RunLen(h) = SnapSlots
        BY DEF RunLen
      <4> QED
        BY <1>3, <4>1, <4>2, <4>3
    <3>2. /\ h.seq = N[NextAt][h.dom]
          /\ N[NextAt + c] = [N[NextAt] EXCEPT ![h.dom] = @ + 1]
        BY <1>4, <1>5, <3>1 DEF NumberedBy
    <3>3. gaps' = gaps /\ expected' = [expected EXCEPT ![h.dom] = h.seq + 1]
        BY <1>2, <1>10, <1>11, <2>2, <3>2
    <3>4. \A d \in Domains : expected'[d] \in {-1, N[NextAt + c][d]}
      <4> TAKE d \in Domains
      <4>1. CASE d = h.dom
        BY <1>10, <3>2, <3>3, <4>1
      <4>2. CASE d # h.dom
        BY <1>10, <1>11, <3>2, <3>3, <4>2
      <4> QED
        BY <4>1, <4>2
    <3> QED
        BY <3>3, <3>4 DEF Numbers
  <2> QED
    BY <2>1, <2>2
<1>13. N[Base'] = Spent'
    BY ConsumerSpent DEF Numbers
<1>14. \A d \in Domains : expected'[d] \in {-1, N[NextAt'][d]}
    BY <1>7, <1>12
<1> QED
    BY <1>7, <1>8, <1>9, <1>12, <1>13, <1>14 DEF Numbers

LEMMA ConsumerNumbers ==
    ASSUME IInv, SInv, PInv, ShapeInv, ~Damaged, ~Damaged', Consumer,
           NEW N \in Numberings, Numbers(N)
    PROVE  Numbers(N)'
<1>1. Seen' \subseteq Seen
    BY ConsumerShape
<1>2. CASE Recheck
  <2>1. pending' = out /\ Intact /\ rt = tail /\ tail' = tail + Len(out)
    BY <1>2, RecheckShape
  <2> QED
    BY <1>1, <1>2, <2>1, RecheckNumbers
<1>3. CASE ProcessEvent
    BY <1>1, <1>3, ProcessNumbers
<1>4. ASSUME UNCHANGED <<tail, pending, expected, gaps>> PROVE Numbers(N)'
  <2>1. NextAt' = NextAt
    BY <1>4 DEF NextAt
  <2>2. (\A e \in Seen : NumberedBy(N, e))'
    BY <1>1 DEF Numbers, NumberedBy, RunLen
  <2>3. (\A k \in 1..Len(pending) : NumberedBy(N, pending[k]))'
    <3>1. \A k \in 1..Len(pending) : NumberedBy(N, pending[k])
        BY DEF Numbers
    <3> QED
        BY <1>4, <3>1
  <2>4. N[Base'] = Spent' /\ Len(pending') <= tail'
    BY <1>4, ConsumerSpent DEF Numbers
  <2>5. gaps' = 0 /\ \A d \in Domains : expected'[d] \in {-1, N[NextAt'][d]}
    BY <1>4, <2>1 DEF Numbers
  <2> QED
    BY <2>2, <2>3, <2>4, <2>5 DEF Numbers
<1>5. CASE ConsumeStart \/ CopySlot \/ RetireCheck \/ UpdateBackpressure \/ DrainAgain \/ PollDead
  <2>1. UNCHANGED <<tail, pending, expected, gaps>>
    BY <1>5 DEF ConsumeStart, CopySlot, RetireCheck, UpdateBackpressure, DrainAgain, PollDead,
                shared
  <2> QED
    BY <1>4, <2>1
<1> QED
    BY <1>2, <1>3, <1>5 DEF Consumer

LEMMA GInvInit == Init => GInv
<1> SUFFICES ASSUME Init PROVE \E N \in Numberings : Numbers(N)
    BY DEF GInv
<1> DEFINE N == [p \in Nat |-> [d \in Domains |-> 0]]
<1>1. N \in Numberings
    BY DEF Numberings
<1>2. Base = 0 /\ Spent = [d \in Domains |-> 0]
    BY DEF Init, Base, Spent
<1>3. N[Base] = Spent
    BY <1>2
<1> HIDE DEF N
<1>4. Seen = {}
  <2>1. \A i \in 0..(Capacity - 1) : slots[i].at = -1
    BY DEF Init, ZeroEvent, Ev
  <2>2. InSlots = {}
    BY <2>1 DEF InSlots
  <2>3. Copied = {}
    BY DEF Init, Copied
  <2> QED
    BY <2>2, <2>3 DEF Seen
<1>5. Numbers(N)
    BY <1>3, <1>4 DEF Init, Numbers
<1> QED
    BY <1>1, <1>5

LEMMA GInvNext == IInv /\ SInv /\ PInv /\ WInv /\ GInv /\ [Next]_vars => GInv'
<1> SUFFICES ASSUME IInv, SInv, PInv, WInv, GInv, [Next]_vars, ~Damaged', NoneMissed'
             PROVE  \E M \in Numberings : Numbers(M)'
    BY DEF GInv, Numberings
<1>1. ~Damaged /\ ShapeInv
    BY DamageStays DEF WInv
<1>2. CASE Producer \/ UNCHANGED vars
    BY <1>1, <1>2, ProducerStream, ProducerNumbers
<1>3. CASE Consumer
  <2>1. NoneMissed
    BY <1>3, ConsumerSpent
  <2>2. PICK N \in Numberings : Numbers(N)
    BY <1>1, <2>1 DEF GInv
  <2> QED
    BY <1>1, <1>3, <2>2, ConsumerNumbers
<1> QED
    BY <1>2, <1>3 DEF Next

(* The engine's gap counter never rises without a cause it can name: a     *)
(* push refused by a full ring, a read dropped under backpressure, or a    *)
(* lapped, torn or holed stream.  Two domains are numbered independently   *)
(* by two code paths, a wide write numbers only its header, and the event  *)
(* loop skips continuations: all the same no sampling, shedding or batch   *)
(* boundary makes the check of run_headless cry wolf.                      *)
THEOREM GapsAlwaysExplained == Spec => []GapsExplained
<1>1. IInv /\ GInv => GapsExplained
  <2> SUFFICES ASSUME IInv, GInv, gaps > 0, ~Damaged
               PROVE  stat.refused > 0 \/ stat.dropped > 0
    BY DEF GapsExplained
  <2>1. stat.refused \in Nat /\ stat.dropped \in Nat
    BY StatTypes
  <2>2. ~NoneMissed
    BY DEF GInv, Numbers
  <2> QED
    BY <2>1, <2>2 DEF NoneMissed
<1> QED
    BY <1>1, IInvInit, IInvNext, SInvInit, SInvNext, PInvInit, PInvNext, WInvInit, WInvNext,
       GInvInit, GInvNext, PTL DEF Spec
=============================================================================
