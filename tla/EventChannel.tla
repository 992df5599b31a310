---------------------------- MODULE EventChannel ----------------------------
(***************************************************************************)
(* What a thread's ring promises the engine, seen from outside: a lossy    *)
(* channel.  Events are published in order; each published event is taken  *)
(* by the consumer or reported lost, never both; nothing is published once *)
(* the producer has declared the channel closed.                           *)
(***************************************************************************)
EXTENDS Naturals

VARIABLES published, taken, lost, closed

chan == <<published, taken, lost, closed>>

Init == published = 0 /\ taken = 0 /\ lost = 0 /\ closed = FALSE

Publish == /\ ~closed
           /\ published' \in Nat /\ published' > published
           /\ UNCHANGED <<taken, lost, closed>>

Take == /\ taken' \in Nat /\ taken' > taken
        /\ taken' + lost <= published
        /\ UNCHANGED <<published, lost, closed>>

Lose == /\ lost' \in Nat /\ lost' > lost
        /\ taken + lost' <= published
        /\ UNCHANGED <<published, taken, closed>>

Close == closed' = TRUE /\ UNCHANGED <<published, taken, lost>>

Next == Publish \/ Take \/ Lose \/ Close

Spec == Init /\ [][Next]_chan

=============================================================================
