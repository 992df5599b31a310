-------------------------- MODULE CtlSafety_proofs --------------------------
(* Proofs about the control ring.  The argument is in three layers: which  *)
(* entries are allocated (AllocInv), who owns an entry and what it holds   *)
(* (EntryInv, OwnerInv), and what the engine has read (ReadInv).           *)
EXTENDS RtmapCtl, FiniteSetTheorems, TLAPS

\* the threads that found the array full and have not undone their fetch_add
Undoing == {t \in Threads : tpc[t] = "undo"}

\* thread_count without the overshoot: the number of entries ever handed out
Allocated == threadCount - Cardinality(Undoing)

\* an entry that some thread has left, so that another may have reclaimed it
Left(i) == \E t \in Threads : tpc[t] = "done" /\ slot[t] = i

Naming(i) == \E t \in Threads : tpc[t] = "name" /\ slot[t] = i

(* The overshoot happens only once the array is full, so a fresh entry is  *)
(* always one past the last entry in use.                                  *)
AllocInv ==
    /\ Allocated <= MaxThreads
    /\ Undoing # {} => Allocated = MaxThreads
    /\ \A i \in Entries : state[i] # "EMPTY" => i < Allocated
    /\ \A t \in Threads : slot[t] # NoEntry => slot[t] < Allocated

(* An entry once published holds an id and a name; it is DEAD or being     *)
(* reclaimed only after some owner left it, and until then it is whole.    *)
EntryInv ==
    \A i \in Entries :
        /\ entryTid[i] # None => slot[entryTid[i]] = i
        /\ state[i] # "EMPTY" =>
              /\ entryTid[i] \in Threads /\ entryName[i] \in Threads
              /\ (entryName[i] = entryTid[i] /\ ~Naming(i)) \/ Left(i)
        /\ state[i] \in {"DEAD", "INITIALIZING"} => Left(i)

(* A thread has an entry from the moment it is given one; while it fills   *)
(* the entry, the entry is not ACTIVE and holds what was written so far.   *)
OwnerInv ==
    \A t \in Threads :
        /\ tpc[t] \in {"new", "scan", "undo"} => slot[t] = NoEntry
        /\ tpc[t] \in {"tid", "name", "publish"} =>
              slot[t] \in Entries /\ state[slot[t]] \in {"EMPTY", "INITIALIZING"}
        /\ tpc[t] \in {"name", "publish"} => entryTid[slot[t]] = t
        /\ tpc[t] = "publish" => entryName[slot[t]] = t

RegInv == RegistryOK /\ AllocInv /\ EntryInv /\ OwnerInv
          /\ OneOwner /\ ActiveEntryWhole

(* The engine reads entries that have been published, and the id it keeps  *)
(* belongs to the entry it reads.                                          *)
ReadInv ==
    /\ epc \in {"open", "push", "mark", "find", "reopen"} =>
          idx \in Entries /\ state[idx] # "EMPTY"
    /\ epc = "push" => nm \in Threads /\ (nm = entryTid[idx] \/ Left(idx))
    /\ epc = "reopen" => nm \in Threads /\ slot[nm] = idx
                         /\ (nm = entryTid[idx] \/ Left(idx))

CInv == RegInv /\ PollOK /\ ReadInv /\ MixedOnlyByReclaim

-----------------------------------------------------------------------------
LEMMA UndoingFinite == IsFiniteSet(Undoing) /\ Cardinality(Undoing) \in Nat
  BY ThreadsAssumption, FS_Subset, FS_CardinalityType DEF Undoing

LEMMA EntriesNat == \A i \in Entries : i \in Nat /\ i < MaxThreads /\ i # NoEntry
  BY MaxThreadsAssumption DEF Entries, NoEntry

LEMMA CInvInit == Init => CInv
<1> SUFFICES ASSUME Init PROVE CInv
  OBVIOUS
<1>0. Undoing = {}
  BY DEF Undoing, Init
<1>1. Undoing = {} /\ Allocated = 0
  BY <1>0, FS_EmptySet DEF Allocated, Init
<1>2. RegistryOK /\ PollOK
  <2>1. RegistryOK
    BY MaxThreadsAssumption DEF Init, RegistryOK
  <2>2. PollOK
    BY Zenon DEF Init, PollOK
  <2> QED
    BY <2>1, <2>2
<1>3. AllocInv
  BY <1>1, MaxThreadsAssumption DEF AllocInv, Init, NoEntry
<1>4. EntryInv /\ OwnerInv
  BY DEF EntryInv, OwnerInv, Init
<1>5. OneOwner /\ ActiveEntryWhole
  BY DEF OneOwner, ActiveEntryWhole, Registered, Owns, Init
<1>6. ReadInv /\ MixedOnlyByReclaim
  BY DEF ReadInv, MixedOnlyByReclaim, Init
<1> QED
  BY <1>2, <1>3, <1>4, <1>5, <1>6 DEF CInv, RegInv

-----------------------------------------------------------------------------
(* The threads.  Only FetchAdd and UndoFetch change the allocation.        *)

LEMMA SameAlloc ==
    ASSUME RegInv, UNCHANGED threadCount, Undoing' = Undoing
    PROVE  Allocated' = Allocated
  BY DEF Allocated

LEMMA ThreadInitInv ==
    ASSUME RegInv, NEW t \in Threads, ThreadInit(t)
    PROVE  RegInv'
<1> USE DEF RegInv, ThreadInit, Goto, ctl
<1>1. RegistryOK'
  BY DEF RegistryOK
<1>2. Undoing' = Undoing
  BY DEF RegistryOK, Undoing
<1>3. AllocInv'
  BY <1>2, SameAlloc DEF AllocInv
<1>4. OwnerInv'
  BY DEF OwnerInv, RegistryOK
<1>5. \A i \in Entries : Naming(i)' = Naming(i) /\ Left(i)' = Left(i)
  BY DEF RegistryOK, Naming, Left
<1>6. EntryInv'
  BY <1>5 DEF EntryInv
<1>7. \A u \in Threads, i \in Entries : Owns(u, i)' = Owns(u, i) /\ Registered(u, i)' = Registered(u, i)
  BY EntriesNat DEF RegistryOK, OwnerInv, Owns, Registered
<1>8. OneOwner' /\ ActiveEntryWhole'
  BY <1>7 DEF OneOwner, ActiveEntryWhole
<1> QED
  BY <1>1, <1>3, <1>4, <1>6, <1>8

LEMMA ScanEntryInv ==
    ASSUME RegInv, NEW t \in Threads, ScanEntry(t)
    PROVE  RegInv'
<1> USE DEF RegInv, ScanEntry, Goto, Reclaimable
<1>1. scan[t] \in Entries
  BY MaxThreadsAssumption DEF RegistryOK, Entries
<1>2. RegistryOK'
  <2>1. scan[t] + 1 \in 0..MaxThreads /\ 0 \in 0..MaxThreads
    BY MaxThreadsAssumption DEF RegistryOK
  <2>2. scan' \in [Threads -> 0..MaxThreads]
    BY <2>1 DEF RegistryOK
  <2> QED
    BY <1>1, <2>2 DEF RegistryOK
<1>3. Undoing' = Undoing
  BY DEF RegistryOK, Undoing
<1>4. Allocated' = Allocated
  BY <1>3, SameAlloc
<1>5. CASE ~Reclaimable(state[scan[t]])
  <2>1. UNCHANGED <<state, entryTid, entryName, slot, tpc>>
    BY <1>5
  <2>2. AllocInv' /\ EntryInv' /\ OwnerInv' /\ OneOwner' /\ ActiveEntryWhole'
    BY <2>1, <1>3, <1>4 DEF AllocInv, EntryInv, OwnerInv, OneOwner, ActiveEntryWhole,
       Owns, Registered, Naming, Left
  <2> QED
    BY <1>2, <2>2
<1>6. CASE Reclaimable(state[scan[t]])
  <2> DEFINE e == scan[t]
  <2>1. /\ state[e] = "DEAD" /\ e \in Entries
        /\ state' = [state EXCEPT ![e] = "INITIALIZING"]
        /\ slot' = [slot EXCEPT ![t] = e] /\ tpc' = [tpc EXCEPT ![t] = "tid"]
        /\ UNCHANGED <<entryTid, entryName>>
    BY <1>1, <1>6
  <2>2. \A u \in Threads : ~Owns(u, e)
    BY <2>1 DEF OwnerInv, ActiveEntryWhole, Registered, Owns
  <2> HIDE DEF e
  <2>3. AllocInv'
    BY <2>1, <1>3, <1>4 DEF AllocInv, RegistryOK
  <2>4. OwnerInv'
    BY <2>1, <2>2 DEF OwnerInv, RegistryOK, Owns
  <2>5. slot[t] = NoEntry
    BY DEF OwnerInv
  <2>6. \A i \in Entries : Left(i)' = Left(i) /\ Naming(i)' = Naming(i)
    BY <2>1, EntriesNat DEF Left, Naming, RegistryOK
  <2>7. \A i \in Entries : entryTid[i] # None => entryTid[i] # t
    BY <2>5, EntriesNat DEF EntryInv
  <2>8. EntryInv'
    BY <2>1, <2>6, <2>7 DEF EntryInv, RegistryOK
  <2>9. \A u \in Threads, i \in Entries :
          /\ Registered(u, i)' = Registered(u, i)
          /\ Owns(u, i)' = (Owns(u, i) \/ (u = t /\ i = e))
    BY <2>1 DEF Owns, Registered, RegistryOK, OwnerInv
  <2>10. OneOwner'
    BY <2>2, <2>9 DEF OneOwner
  <2>11. ActiveEntryWhole'
    BY <2>1, <2>2, <2>9 DEF ActiveEntryWhole, RegistryOK, Registered
  <2> QED
    BY <1>2, <2>3, <2>4, <2>8, <2>10, <2>11
<1> QED
  BY <1>5, <1>6

LEMMA FetchAddInv ==
    ASSUME RegInv, NEW t \in Threads, FetchAdd(t)
    PROVE  RegInv'
<1> USE DEF RegInv, FetchAdd, Goto, NoFreshEntry
<1>1. Cardinality(Undoing) \in Nat /\ IsFiniteSet(Undoing) /\ threadCount \in Nat
  BY UndoingFinite DEF RegistryOK
<1>2. slot[t] = NoEntry /\ t \notin Undoing
  BY DEF OwnerInv, Undoing
<1>3. scan' \in [Threads -> 0..MaxThreads]
  BY MaxThreadsAssumption DEF RegistryOK
<1>4. \A i \in Entries : entryTid[i] # None => entryTid[i] # t
  BY <1>2, EntriesNat DEF EntryInv
<1>5. CASE NoFreshEntry
  <2>1. /\ tpc' = [tpc EXCEPT ![t] = "undo"] /\ threadCount' = threadCount + 1
        /\ UNCHANGED <<state, entryTid, entryName, terminal, slot>>
    BY <1>5
  <2>2. Undoing' = Undoing \cup {t}
    BY <2>1 DEF Undoing, RegistryOK
  <2>3. Cardinality(Undoing') = Cardinality(Undoing) + 1
    BY <1>1, <1>2, <2>2, FS_AddElement
  <2>4. Allocated' = Allocated
    BY <1>1, <2>1, <2>3 DEF Allocated
  <2>5. Allocated = MaxThreads
    <3>1. CASE Undoing = {}
      <4>1. Allocated = threadCount
        BY <1>1, <3>1, FS_EmptySet DEF Allocated
      <4> QED
        BY <1>1, <1>5, <4>1, MaxThreadsAssumption DEF AllocInv
    <3> QED
      BY <3>1 DEF AllocInv
  <2>6. RegistryOK'
    BY <1>1, <1>3, <2>1 DEF RegistryOK
  <2>7. AllocInv'
    BY <2>1, <2>4, <2>5, MaxThreadsAssumption DEF AllocInv
  <2>8. OwnerInv'
    BY <1>2, <2>1 DEF OwnerInv, RegistryOK
  <2>9. \A i \in Entries : Naming(i)' = Naming(i) /\ Left(i)' = Left(i)
    BY <2>1 DEF RegistryOK, Naming, Left
  <2>10. EntryInv'
    BY <2>1, <2>9 DEF EntryInv
  <2>11. \A u \in Threads, i \in Entries : Owns(u, i)' = Owns(u, i) /\ Registered(u, i)' = Registered(u, i)
    BY <1>2, <2>1, EntriesNat DEF RegistryOK, Owns, Registered
  <2>12. OneOwner' /\ ActiveEntryWhole'
    BY <2>1, <2>11 DEF OneOwner, ActiveEntryWhole
  <2> QED
    BY <2>6, <2>7, <2>8, <2>10, <2>12
<1>6. CASE ~NoFreshEntry
  <2> DEFINE e == threadCount
  <2>1. /\ tpc' = [tpc EXCEPT ![t] = "tid"] /\ threadCount' = threadCount + 1
        /\ slot' = [slot EXCEPT ![t] = e]
        /\ UNCHANGED <<state, entryTid, entryName, terminal>>
    BY <1>6
  <2>2. e \in Entries
    BY <1>1, <1>6, MaxThreadsAssumption DEF Entries
  <2>3. Undoing' = Undoing
    BY <2>1, <1>2 DEF Undoing, RegistryOK
  <2>4. Undoing = {}
    BY <1>1, <1>6, MaxThreadsAssumption DEF AllocInv, Allocated
  <2>5. Allocated = e /\ Allocated' = e + 1
    BY <1>1, <2>1, <2>3, <2>4, FS_EmptySet DEF Allocated
  <2>6. state[e] = "EMPTY" /\ \A u \in Threads : slot[u] # e
    BY <2>2, <2>5, EntriesNat DEF AllocInv
  <2>7. RegistryOK'
    BY <1>1, <1>3, <2>1, <2>2 DEF RegistryOK
  <2> HIDE DEF e
  <2>8. AllocInv'
    <3>1. Allocated' <= MaxThreads /\ \A i : i < Allocated /\ i \in Int => i < Allocated'
      BY <2>2, <2>5, EntriesNat, MaxThreadsAssumption
    <3>2. \A i \in Entries : i \in Int
      BY EntriesNat
    <3>3. \A i \in Entries : state'[i] # "EMPTY" => i < Allocated'
      BY <2>1, <3>1, <3>2 DEF AllocInv
    <3>4. \A u \in Threads : slot'[u] # NoEntry => slot'[u] < Allocated'
      <4> TAKE u \in Threads
      <4>1. CASE u = t
        BY <4>1, <2>1, <2>2, <2>5, EntriesNat DEF RegistryOK
      <4>2. CASE u # t
        BY <4>2, <2>1, <3>1, <3>2 DEF RegistryOK, AllocInv
      <4> QED
        BY <4>1, <4>2
    <3> QED
      BY <2>3, <2>4, <3>1, <3>3, <3>4 DEF AllocInv
  <2>9. OwnerInv'
    BY <2>1, <2>2, <2>6 DEF OwnerInv, RegistryOK
  <2>10. \A i \in Entries : Left(i)' = Left(i) /\ Naming(i)' = Naming(i)
    BY <1>2, <2>1, EntriesNat DEF Left, Naming, RegistryOK
  <2>11. EntryInv'
    BY <1>4, <2>1, <2>10 DEF EntryInv, RegistryOK
  <2>12. \A u \in Threads, i \in Entries :
          /\ Registered(u, i)' = Registered(u, i)
          /\ Owns(u, i)' = (Owns(u, i) \/ (u = t /\ i = e))
    BY <1>2, <2>1 DEF Owns, Registered, RegistryOK
  <2>13. OneOwner'
    BY <2>6, <2>12 DEF OneOwner, Owns
  <2>14. ActiveEntryWhole'
    BY <2>1, <2>12 DEF ActiveEntryWhole
  <2> QED
    BY <2>7, <2>8, <2>9, <2>11, <2>13, <2>14
<1> QED
  BY <1>5, <1>6

LEMMA UndoFetchInv ==
    ASSUME RegInv, NEW t \in Threads, UndoFetch(t)
    PROVE  RegInv'
<1> USE DEF RegInv, UndoFetch, Goto
<1>1. Cardinality(Undoing) \in Nat /\ IsFiniteSet(Undoing) /\ threadCount \in Nat
  BY UndoingFinite DEF RegistryOK
<1>2. slot[t] = NoEntry /\ t \in Undoing
  BY DEF OwnerInv, Undoing
<1>3. Undoing' = Undoing \ {t}
  BY DEF Undoing, RegistryOK
<1>4. Cardinality(Undoing') = Cardinality(Undoing) - 1
  BY <1>1, <1>2, <1>3, FS_RemoveElement
<1>5. Allocated' = Allocated
  BY <1>1, <1>4 DEF Allocated
<1>6. Allocated = MaxThreads
  BY <1>2 DEF AllocInv
<1>7. threadCount' \in Nat
  <2>1. Cardinality(Undoing') \in Nat
    BY <1>1, <1>3, FS_RemoveElement, FS_CardinalityType
  <2> QED
    BY <1>1, <1>4, <1>6, <2>1, MaxThreadsAssumption DEF Allocated
<1>8. RegistryOK'
  BY <1>7 DEF RegistryOK
<1>9. AllocInv'
  BY <1>5, <1>6, MaxThreadsAssumption DEF AllocInv
<1>10. OwnerInv'
  BY <1>2 DEF OwnerInv, RegistryOK
<1>11. \A i \in Entries : Naming(i)' = Naming(i) /\ Left(i)' = Left(i)
  BY DEF RegistryOK, Naming, Left
<1>12. EntryInv'
  BY <1>11 DEF EntryInv
<1>13. \A u \in Threads, i \in Entries : Owns(u, i)' = Owns(u, i) /\ Registered(u, i)' = Registered(u, i)
  BY <1>2, EntriesNat DEF RegistryOK, Owns, Registered
<1>14. OneOwner' /\ ActiveEntryWhole'
  BY <1>13 DEF OneOwner, ActiveEntryWhole
<1> QED
  BY <1>8, <1>9, <1>10, <1>12, <1>14

LEMMA WriteTidInv ==
    ASSUME RegInv, NEW t \in Threads, WriteTid(t)
    PROVE  RegInv'
<1> USE DEF RegInv, WriteTid, Goto
<1> DEFINE e == slot[t]
<1>1. /\ e \in Entries /\ state[e] \in {"EMPTY", "INITIALIZING"} /\ Owns(t, e)
      /\ \A u \in Threads : Owns(u, e) => u = t
  BY DEF OwnerInv, OneOwner, Owns
<1>2. /\ entryTid' = [entryTid EXCEPT ![e] = t] /\ tpc' = [tpc EXCEPT ![t] = "name"]
      /\ UNCHANGED <<state, entryName, slot, threadCount>>
  OBVIOUS
<1>3. RegistryOK'
  BY <1>1 DEF RegistryOK
<1>4. AllocInv'
  <2>1. Undoing' = Undoing
    BY DEF RegistryOK, Undoing
  <2> QED
    BY <2>1, SameAlloc DEF AllocInv
<1>5. \A i \in Entries : Left(i)' = Left(i) /\ (i # e => Naming(i)' = Naming(i))
  BY <1>2 DEF Left, Naming, RegistryOK
<1>6. \A u \in Threads \ {t} : tpc[u] \in {"tid", "name", "publish"} => slot[u] # e
  BY <1>1 DEF Owns
<1>7. OwnerInv'
  BY <1>1, <1>2, <1>6 DEF OwnerInv, RegistryOK
<1>8. EntryInv'
  BY <1>1, <1>2, <1>5, NoneAssumption DEF EntryInv, RegistryOK
<1>9. \A u \in Threads, i \in Entries : Owns(u, i)' = Owns(u, i) /\ Registered(u, i)' = Registered(u, i)
  BY <1>2 DEF RegistryOK, Owns, Registered
<1>10. \A u \in Threads : ~Registered(u, e)
  BY <1>1 DEF Registered
<1>11. OneOwner' /\ ActiveEntryWhole'
  <2> HIDE DEF e
  <2>1. OneOwner'
    BY <1>9 DEF OneOwner
  <2>2. ActiveEntryWhole'
    BY <1>1, <1>2, <1>9, <1>10 DEF ActiveEntryWhole, RegistryOK
  <2> QED
    BY <2>1, <2>2
<1> QED
  BY <1>3, <1>4, <1>7, <1>8, <1>11

LEMMA WriteNameInv ==
    ASSUME RegInv, NEW t \in Threads, WriteName(t)
    PROVE  RegInv'
<1> USE DEF RegInv, WriteName, Goto
<1> DEFINE e == slot[t]
<1>1. /\ e \in Entries /\ state[e] \in {"EMPTY", "INITIALIZING"} /\ Owns(t, e)
      /\ \A u \in Threads : Owns(u, e) => u = t
  BY DEF OwnerInv, OneOwner, Owns
<1>2. /\ entryName' = [entryName EXCEPT ![e] = t] /\ tpc' = [tpc EXCEPT ![t] = "publish"]
      /\ UNCHANGED <<state, entryTid, slot, threadCount>>
  OBVIOUS
<1>3. RegistryOK'
  BY <1>1 DEF RegistryOK
<1>4. AllocInv'
  <2>1. Undoing' = Undoing
    BY DEF RegistryOK, Undoing
  <2> QED
    BY <2>1, SameAlloc DEF AllocInv
<1>5. \A i \in Entries : Left(i)' = Left(i) /\ (i # e => Naming(i)' = Naming(i))
  BY <1>2 DEF Left, Naming, RegistryOK
<1>6. \A u \in Threads \ {t} : tpc[u] \in {"tid", "name", "publish"} => slot[u] # e
  BY <1>1 DEF Owns
<1>7. OwnerInv'
  BY <1>1, <1>2, <1>6 DEF OwnerInv, RegistryOK
<1>8. EntryInv'
  BY <1>1, <1>2, <1>5 DEF EntryInv, RegistryOK
<1>9. \A u \in Threads, i \in Entries : Owns(u, i)' = Owns(u, i) /\ Registered(u, i)' = Registered(u, i)
  BY <1>2 DEF RegistryOK, Owns, Registered
<1>10. \A u \in Threads : ~Registered(u, e)
  BY <1>1 DEF Registered
<1>11. OneOwner' /\ ActiveEntryWhole'
  <2> HIDE DEF e
  <2>1. OneOwner'
    BY <1>9 DEF OneOwner
  <2>2. ActiveEntryWhole'
    BY <1>1, <1>2, <1>9, <1>10 DEF ActiveEntryWhole, RegistryOK
  <2> QED
    BY <2>1, <2>2
<1> QED
  BY <1>3, <1>4, <1>7, <1>8, <1>11

LEMMA PublishInv ==
    ASSUME RegInv, NEW t \in Threads, Publish(t)
    PROVE  RegInv'
<1> USE DEF RegInv, Publish, Goto
<1> DEFINE e == slot[t]
<1>1. /\ e \in Entries /\ entryTid[e] = t /\ entryName[e] = t /\ Owns(t, e)
      /\ \A u \in Threads : Owns(u, e) => u = t
  BY DEF OwnerInv, OneOwner, Owns
<1>2. /\ state' = [state EXCEPT ![e] = "ACTIVE"] /\ tpc' = [tpc EXCEPT ![t] = "run"]
      /\ UNCHANGED <<entryName, entryTid, slot, threadCount>>
  OBVIOUS
<1>3. RegistryOK'
  BY <1>1 DEF RegistryOK
<1>4. AllocInv'
  <2>1. Undoing' = Undoing
    BY DEF RegistryOK, Undoing
  <2>2. e < Allocated
    BY <1>1, EntriesNat DEF AllocInv
  <2> QED
    BY <1>1, <1>2, <2>1, <2>2, SameAlloc DEF AllocInv, RegistryOK
<1>5. \A i \in Entries : Left(i)' = Left(i) /\ Naming(i)' = Naming(i)
  BY <1>2 DEF Left, Naming, RegistryOK
<1>6. ~Naming(e)
  BY <1>1 DEF Naming, Owns
<1>7. \A u \in Threads \ {t} : tpc[u] \in {"tid", "name", "publish"} => slot[u] # e
  BY <1>1 DEF Owns
<1>8. OwnerInv'
  BY <1>1, <1>2, <1>7 DEF OwnerInv, RegistryOK
<1>9. EntryInv'
  BY <1>1, <1>2, <1>5, <1>6 DEF EntryInv, RegistryOK
<1>10. \A u \in Threads, i \in Entries :
         /\ Owns(u, i)' = Owns(u, i)
         /\ Registered(u, i)' = (Registered(u, i) \/ (u = t /\ i = e))
  BY <1>1, <1>2 DEF RegistryOK, Owns, Registered
<1>11. OneOwner' /\ ActiveEntryWhole'
  <2>0. \A u \in Threads : Registered(u, e) => u = t
    BY <1>1 DEF Registered
  <2> HIDE DEF e
  <2>1. OneOwner'
    BY <1>10 DEF OneOwner
  <2>2. ActiveEntryWhole'
    <3> SUFFICES ASSUME NEW i \in Entries
                 PROVE  /\ \A u \in Threads : Registered(u, i)' =>
                               state'[i] = "ACTIVE" /\ entryTid'[i] = u /\ entryName'[i] = u
                        /\ state'[i] = "ACTIVE" => \E u \in Threads : Registered(u, i)'
      BY DEF ActiveEntryWhole
    <3>1. CASE i = e
      BY <3>1, <1>1, <1>2, <1>10, <2>0 DEF RegistryOK
    <3>2. CASE i # e
      <4>1. \A u \in Threads : Registered(u, i)' = Registered(u, i)
        BY <3>2, <1>10 DEF Registered, Owns
      <4>2. state'[i] = state[i]
        BY <3>2, <1>1, <1>2 DEF RegistryOK
      <4> QED
        BY <1>2, <4>1, <4>2 DEF ActiveEntryWhole
    <3> QED
      BY <3>1, <3>2
  <2> QED
    BY <2>1, <2>2
<1> QED
  BY <1>3, <1>4, <1>8, <1>9, <1>11

LEMMA SetTerminalInv ==
    ASSUME RegInv, NEW t \in Threads, SetTerminal(t)
    PROVE  RegInv'
<1> USE DEF RegInv, SetTerminal, Goto
<1>1. RegistryOK'
  BY DEF RegistryOK
<1>2. Undoing' = Undoing
  BY DEF RegistryOK, Undoing
<1>3. AllocInv'
  BY <1>2, SameAlloc DEF AllocInv
<1>4. OwnerInv'
  BY DEF OwnerInv, RegistryOK
<1>5. \A i \in Entries : Naming(i)' = Naming(i) /\ Left(i)' = Left(i)
  BY DEF RegistryOK, Naming, Left
<1>6. EntryInv'
  BY <1>5 DEF EntryInv
<1>7. \A u \in Threads, i \in Entries : Owns(u, i)' = Owns(u, i) /\ Registered(u, i)' = Registered(u, i)
  BY DEF RegistryOK, Owns, Registered
<1>8. OneOwner' /\ ActiveEntryWhole'
  BY <1>7 DEF OneOwner, ActiveEntryWhole
<1> QED
  BY <1>1, <1>3, <1>4, <1>6, <1>8

LEMMA MarkDeadInv ==
    ASSUME RegInv, NEW t \in Threads, MarkDead(t)
    PROVE  RegInv'
<1> USE DEF RegInv, MarkDead, Goto, DeadEntry
<1> DEFINE e == slot[t]
<1>1. /\ tpc[t] = "exit" /\ tpc' = [tpc EXCEPT ![t] = "done"]
      /\ UNCHANGED <<entryName, entryTid, slot, threadCount>>
  OBVIOUS
<1>2. RegistryOK'
  BY DEF RegistryOK
<1>3. Undoing' = Undoing
  BY DEF RegistryOK, Undoing
<1>4. \A i \in Entries : Naming(i)' = Naming(i) /\ Left(i)' = (Left(i) \/ i = e)
  BY <1>1 DEF Naming, Left, RegistryOK
<1>5. \A u \in Threads, i \in Entries :
        /\ Owns(u, i)' = (Owns(u, i) /\ u # t)
        /\ Registered(u, i)' = (Registered(u, i) /\ u # t)
  BY <1>1 DEF RegistryOK, Owns, Registered
<1>6. OneOwner'
  BY <1>5 DEF OneOwner
<1>7. CASE e = NoEntry
  <2>1. UNCHANGED state
    BY <1>7
  <2>2. AllocInv'
    BY <1>1, <2>1, <1>3, SameAlloc DEF AllocInv
  <2>3. OwnerInv'
    BY <1>1, <2>1 DEF OwnerInv, RegistryOK
  <2>4. EntryInv'
    BY ZenonT(30), <1>1, <1>4, <2>1 DEF EntryInv
  <2>5. \A i \in Entries : ~Registered(t, i)
    BY <1>7, EntriesNat DEF Registered, Owns
  <2>6. ActiveEntryWhole'
    <3> SUFFICES ASSUME NEW i \in Entries
                 PROVE  /\ \A u \in Threads : Registered(u, i)' =>
                               state'[i] = "ACTIVE" /\ entryTid'[i] = u /\ entryName'[i] = u
                        /\ state'[i] = "ACTIVE" => \E u \in Threads : Registered(u, i)'
      BY DEF ActiveEntryWhole
    <3>1. \A u \in Threads : Registered(u, i)' = Registered(u, i)
      BY <1>5, <2>5 DEF Registered, Owns
    <3> QED
      BY <1>1, <2>1, <3>1 DEF ActiveEntryWhole
  <2> QED
    BY <1>2, <1>6, <2>2, <2>3, <2>4, <2>6
<1>8. CASE e # NoEntry
  <2>1. e \in Entries /\ state' = [state EXCEPT ![e] = "DEAD"]
    BY <1>8 DEF RegistryOK
  <2>2. Registered(t, e) /\ \A u \in Threads : Owns(u, e) => u = t
    BY <1>1, <2>1 DEF Registered, Owns, OneOwner
  <2>3. state[e] = "ACTIVE"
    BY <2>1, <2>2 DEF ActiveEntryWhole
  <2>4. \A u \in Threads \ {t} : tpc[u] \in {"tid", "name", "publish"} => slot[u] # e
    BY <2>2 DEF Owns
  <2>5. OwnerInv'
    BY <1>1, <2>1, <2>4 DEF OwnerInv, RegistryOK
  <2>6. \A i \in Entries : state'[i] # "EMPTY" => state[i] # "EMPTY"
    BY <2>1, <2>3 DEF RegistryOK
  <2>7. AllocInv'
    BY <1>1, <1>3, <2>6, SameAlloc DEF AllocInv
  <2>8. EntryInv'
    <3>1. \A i \in Entries : state'[i] \in {"DEAD", "INITIALIZING"} => Left(i)'
      BY <1>4, <2>1 DEF EntryInv, RegistryOK
    <3>2. \A i \in Entries : state'[i] # "EMPTY" =>
              /\ entryTid'[i] \in Threads /\ entryName'[i] \in Threads
              /\ (entryName'[i] = entryTid'[i] /\ ~Naming(i)') \/ Left(i)'
      BY <1>1, <1>4, <2>6 DEF EntryInv
    <3>3. \A i \in Entries : entryTid'[i] # None => slot'[entryTid'[i]] = i
      BY <1>1 DEF EntryInv
    <3> QED
      BY <3>1, <3>2, <3>3 DEF EntryInv
  <2>9. \A u \in Threads : Registered(u, e) => u = t
    BY <2>2 DEF Registered
  <2>10. \A i \in Entries : Registered(t, i) => i = e
    BY DEF Registered, Owns
  <2> HIDE DEF e
  <2>11. ActiveEntryWhole'
    <3> SUFFICES ASSUME NEW i \in Entries
                 PROVE  /\ \A u \in Threads : Registered(u, i)' =>
                               state'[i] = "ACTIVE" /\ entryTid'[i] = u /\ entryName'[i] = u
                        /\ state'[i] = "ACTIVE" => \E u \in Threads : Registered(u, i)'
      BY DEF ActiveEntryWhole
    <3>1. CASE i = e
      BY <3>1, <1>5, <2>1, <2>9 DEF RegistryOK
    <3>2. CASE i # e
      <4>1. \A u \in Threads : Registered(u, i)' = Registered(u, i)
        BY <3>2, <1>5, <2>10 DEF Registered, Owns
      <4>2. state'[i] = state[i]
        BY <3>2, <2>1 DEF RegistryOK
      <4> QED
        BY <1>1, <4>1, <4>2 DEF ActiveEntryWhole
    <3> QED
      BY <3>1, <3>2
  <2> QED
    BY <1>2, <1>6, <2>5, <2>7, <2>8, <2>11
<1> QED
  BY <1>7, <1>8

-----------------------------------------------------------------------------
(* What the registry's steps leave alone, and the engine relies on: a      *)
(* published entry stays so, a thread that left an entry stays gone, and   *)
(* an id changes only in an entry that some thread has left.               *)

RegStable ==
    /\ \A i \in Entries : state[i] # "EMPTY" => state'[i] # "EMPTY"
    /\ \A i \in Entries : Left(i) => Left(i)'
    /\ \A i \in Entries : state[i] # "EMPTY" /\ entryTid'[i] # entryTid[i] => Left(i)
    /\ \A t \in Threads : slot[t] # NoEntry => slot'[t] = slot[t]

LEMMA ThreadStable ==
    ASSUME RegInv, NEW t \in Threads, Thread(t)
    PROVE  RegStable
<1> USE DEF RegInv
<1> DEFINE StableState == \A i \in Entries : state[i] # "EMPTY" => state'[i] # "EMPTY"
           StableLeft == \A i \in Entries : Left(i) => Left(i)'
           StableTid == \A i \in Entries : state[i] # "EMPTY" /\ entryTid'[i] # entryTid[i] => Left(i)
           StableSlot == \A u \in Threads : slot[u] # NoEntry => slot'[u] = slot[u]
<1>1. CASE ThreadInit(t)
  BY <1>1 DEF ThreadInit, Goto, ctl, RegStable, Left, RegistryOK
<1>2. CASE ScanEntry(t)
  <2>1. scan[t] \in Entries /\ slot[t] = NoEntry
    BY <1>2, MaxThreadsAssumption DEF ScanEntry, RegistryOK, Entries, OwnerInv
  <2>2. StableState /\ StableTid
    BY <1>2, <2>1 DEF ScanEntry, RegistryOK
  <2>3. StableLeft /\ StableSlot
    BY <1>2, <2>1, EntriesNat DEF ScanEntry, Goto, RegistryOK, Left
  <2> QED
    BY <2>2, <2>3 DEF RegStable
<1>3. CASE FetchAdd(t)
  <2>1. slot[t] = NoEntry
    BY <1>3 DEF FetchAdd, OwnerInv
  <2>2. StableLeft /\ StableSlot
    BY <1>3, <2>1, EntriesNat DEF FetchAdd, Goto, RegistryOK, Left
  <2> QED
    BY <1>3, <2>2 DEF FetchAdd, RegStable
<1>4. CASE UndoFetch(t)
  BY <1>4 DEF UndoFetch, Goto, RegStable, Left, RegistryOK
<1>5. CASE WriteTid(t)
  <2>1. slot[t] \in Entries /\ state[slot[t]] \in {"EMPTY", "INITIALIZING"}
    BY <1>5 DEF WriteTid, OwnerInv
  <2>2. StableLeft
    BY <1>5 DEF WriteTid, Goto, RegistryOK, Left
  <2>3. StableTid
    BY <1>5, <2>1 DEF WriteTid, RegistryOK, EntryInv
  <2> QED
    BY <1>5, <2>2, <2>3 DEF WriteTid, RegStable
<1>6. CASE WriteName(t)
  BY <1>6 DEF WriteName, Goto, RegStable, Left, RegistryOK
<1>7. CASE Publish(t)
  <2>1. slot[t] \in Entries
    BY <1>7 DEF Publish, OwnerInv
  <2>2. StableLeft
    BY <1>7 DEF Publish, Goto, RegistryOK, Left
  <2> QED
    BY <1>7, <2>1, <2>2 DEF Publish, RegStable, RegistryOK
<1>8. CASE SetTerminal(t)
  BY <1>8 DEF SetTerminal, Goto, RegStable, Left, RegistryOK
<1>9. CASE MarkDead(t)
  <2>1. StableLeft
    BY <1>9 DEF MarkDead, Goto, RegistryOK, Left
  <2>2. StableState
    BY <1>9 DEF MarkDead, RegistryOK
  <2> QED
    BY <1>9, <2>1, <2>2 DEF MarkDead, RegStable
<1> QED
  BY <1>1, <1>2, <1>3, <1>4, <1>5, <1>6, <1>7, <1>8, <1>9 DEF Thread

LEMMA ThreadInv ==
    ASSUME CInv, NEW t \in Threads, Thread(t)
    PROVE  CInv'
<1> USE DEF CInv
<1>1. RegInv'
  BY ThreadInitInv, ScanEntryInv, FetchAddInv, UndoFetchInv, WriteTidInv, WriteNameInv,
     PublishInv, SetTerminalInv, MarkDeadInv DEF Thread
<1>2. UNCHANGED <<epc, known, count, idx, st, nm, last, copies, opened, ended, swept, passed>>
  BY DEF Thread, ThreadInit, ScanEntry, FetchAdd, UndoFetch, WriteTid, WriteName,
         Publish, SetTerminal, MarkDead, poll, rings, history
<1>3. RegStable
  BY ThreadStable
<1>4. PollOK'
  BY <1>2 DEF PollOK
<1>5. ReadInv'
  BY <1>2, <1>3, EntriesNat DEF ReadInv, RegStable
<1>6. MixedOnlyByReclaim'
  <2> SUFFICES ASSUME NEW r \in opened, r[1] # r[2]
               PROVE  \E u \in Threads : tpc'[u] = "done" /\ slot'[u] = slot'[r[2]] /\ slot'[u] # NoEntry
    BY <1>2 DEF MixedOnlyByReclaim
  <2>1. r[2] \in Threads
    BY DEF PollOK
  <2>2. PICK u \in Threads : tpc[u] = "done" /\ slot[u] = slot[r[2]] /\ slot[u] # NoEntry
    BY DEF MixedOnlyByReclaim
  <2>3. slot[u] \in Entries /\ Left(slot[u])
    BY <2>2 DEF Left, RegInv, RegistryOK
  <2>4. Left(slot[u])'
    BY <1>3, <2>2, <2>3 DEF RegStable
  <2>5. slot'[r[2]] = slot[u]
    BY <1>3, <2>1, <2>2 DEF RegStable
  <2> QED
    BY <1>3, <2>2, <2>3, <2>4, <2>5 DEF Left, RegStable
<1> QED
  BY <1>1, <1>4, <1>5, <1>6

-----------------------------------------------------------------------------
(* The engine: it writes nothing the threads read.                         *)

LEMMA PollSame ==
    ASSUME RegInv, UNCHANGED <<ctl, threads>>
    PROVE  /\ RegInv'
           /\ \A i \in Entries : Left(i)' = Left(i)
  BY DEF RegInv, ctl, threads, RegistryOK, AllocInv, Allocated, Undoing, EntryInv,
         Naming, Left, OwnerInv, OneOwner, ActiveEntryWhole, Owns, Registered

\* a name read from a published entry is the one that goes with its id, or
\* the entry has changed hands
LEMMA NameReadWhole ==
    ASSUME RegInv, NEW i \in Entries, state[i] # "EMPTY", NEW n \in NameRead(i), n # None
    PROVE  n \in Threads /\ (n = entryTid[i] \/ Left(i))
<1>1. CASE Naming(i)
  BY <1>1 DEF NameRead, Naming, RegInv, EntryInv
<1>2. CASE ~Naming(i)
  <2>1. n = entryName[i]
    BY <1>2 DEF NameRead, Naming
  <2> QED
    BY <2>1 DEF RegInv, EntryInv
<1> QED
  BY <1>1, <1>2

\* the pair kept by PushRing
LEMMA PushRingInv ==
    ASSUME CInv, UNCHANGED <<ctl, threads>>, NEW n \in Threads, NEW t \in Threads,
           PushRing(n, t), n # t => Left(slot[t]) /\ slot[t] # NoEntry
    PROVE  /\ MixedOnlyByReclaim'
           /\ copies' \in [Threads \X Threads -> Nat]
           /\ opened' \in SUBSET (Threads \X Threads)
           /\ ended' \in SUBSET Threads
<1> USE DEF CInv, PushRing
<1>1. <<n, t>> \in Threads \X Threads
  OBVIOUS
<1>2. copies' \in [Threads \X Threads -> Nat]
  <2> DEFINE c == <<n, t>>
  <2>1. copies \in [Threads \X Threads -> Nat] /\ copies' = [copies EXCEPT ![c] = copies[c] + 1]
    BY DEF PollOK
  <2>2. copies[c] + 1 \in Nat
    BY <1>1, <2>1
  <2> QED
    BY <1>1, <2>1, <2>2
<1>3. opened' \in SUBSET (Threads \X Threads)
  BY <1>1 DEF PollOK
<1>4. ended' \in SUBSET Threads
  BY DEF PollOK
<1>5. MixedOnlyByReclaim'
  <2> SUFFICES ASSUME NEW r \in opened', r[1] # r[2]
               PROVE  \E u \in Threads : tpc[u] = "done" /\ slot[u] = slot[r[2]] /\ slot[u] # NoEntry
    BY DEF MixedOnlyByReclaim, threads
  <2>1. CASE r \in opened
    BY <2>1 DEF MixedOnlyByReclaim
  <2>2. CASE r = <<n, t>>
    BY <2>2 DEF Left
  <2> QED
    BY <2>1, <2>2
<1> QED
  BY <1>2, <1>3, <1>4, <1>5

LEMMA EndRingInv ==
    ASSUME PollOK, NEW t \in Threads, EndRing(t)
    PROVE  copies' \in [Threads \X Threads -> Nat] /\ ended' \in SUBSET Threads
<1>1. PICK n \in Threads : copies[<<n, t>>] > 0 /\ copies' = [copies EXCEPT ![<<n, t>>] = @ - 1]
  BY DEF EndRing
<1> DEFINE c == <<n, t>>
<1>2. c \in Threads \X Threads /\ copies \in [Threads \X Threads -> Nat]
  BY DEF PollOK
<1>3. copies[c] - 1 \in Nat
  BY <1>1, <1>2
<1> QED
  BY <1>1, <1>2, <1>3 DEF EndRing, PollOK

LEMMA LoadInv ==
    ASSUME CInv, PollStart \/ FirstLoad \/ FirstEnd \/ SecondLoad \/ SecondEnd
    PROVE  CInv'
<1> USE DEF CInv
<1>1. /\ UNCHANGED <<state, entryTid, entryName, threadCount, terminal, tpc, scan, slot>>
      /\ UNCHANGED <<copies, opened, ended>>
  BY DEF PollStart, FirstLoad, FirstEnd, SecondLoad, SecondEnd, ctl, threads, rings
<1>2. RegInv' /\ \A i \in Entries : Left(i)' = Left(i)
  BY <1>1, PollSame DEF ctl, threads
<1>3. MixedOnlyByReclaim'
  BY <1>1 DEF MixedOnlyByReclaim
<1>4. CASE PollStart
  <2>1. last' \in BOOLEAN
    BY <1>4 DEF PollStart
  <2>2. PollOK'
    BY <1>1, <1>4, <2>1 DEF PollStart, PollOK, RegInv, RegistryOK, history
  <2> QED
    BY <1>2, <1>3, <1>4, <2>2 DEF PollStart, ReadInv
<1>5. CASE FirstLoad
  <2>1. known \in Nat /\ (known < MaxThreads => known \in Entries)
    BY MaxThreadsAssumption DEF PollOK, Entries
  <2>2. st' \in {"EMPTY", "INITIALIZING", "ACTIVE", "DEAD"}
    BY <1>5, <2>1 DEF FirstLoad, PollOK, RegInv, RegistryOK
  <2>3. passed' \in SUBSET Entries
    BY <1>5, <2>1 DEF FirstLoad, PollOK
  <2>4. PollOK'
    BY <1>1, <1>5, <2>1, <2>2, <2>3 DEF FirstLoad, PollOK
  <2>5. ReadInv'
    BY <1>1, <1>5, <2>1 DEF FirstLoad, ReadInv, Skipped
  <2> QED
    BY <1>2, <1>3, <2>4, <2>5
<1>6. CASE FirstEnd
  BY <1>1, <1>2, <1>3, <1>6 DEF FirstEnd, PollOK, ReadInv, history
<1>7. CASE SecondLoad
  <2>1. idx \in Nat /\ (idx < MaxThreads => idx \in Entries)
    BY MaxThreadsAssumption DEF PollOK, Entries
  <2>2. st' \in {"EMPTY", "INITIALIZING", "ACTIVE", "DEAD"}
    BY <1>7, <2>1 DEF SecondLoad, PollOK, RegInv, RegistryOK
  <2>3. PollOK'
    BY <1>1, <1>7, <2>1, <2>2 DEF SecondLoad, PollOK, history
  <2>4. ReadInv'
    BY <1>1, <1>7, <2>1 DEF SecondLoad, ReadInv
  <2> QED
    BY <1>2, <1>3, <2>3, <2>4
<1>8. CASE SecondEnd
  <2>1. swept' \in BOOLEAN
    BY <1>8 DEF SecondEnd, PollOK
  <2> QED
    BY <1>1, <1>2, <1>3, <1>8, <2>1 DEF SecondEnd, PollOK, ReadInv
<1> QED
  BY <1>4, <1>5, <1>6, <1>7, <1>8

LEMMA FirstLoopInv ==
    ASSUME CInv, FirstOpen \/ FirstPush \/ FirstMark
    PROVE  CInv'
<1> USE DEF CInv
<1>1. UNCHANGED <<state, entryTid, entryName, threadCount, terminal, tpc, scan, slot>>
  BY DEF FirstOpen, FirstPush, FirstMark, ctl, threads
<1>2. RegInv' /\ \A i \in Entries : Left(i)' = Left(i)
  BY <1>1, PollSame DEF ctl, threads
<1>3. idx \in Entries /\ state[idx] # "EMPTY"
  BY DEF FirstOpen, FirstPush, FirstMark, ReadInv
<1>4. entryTid[idx] \in Threads /\ slot[entryTid[idx]] = idx
  BY <1>3, NoneAssumption DEF RegInv, EntryInv
<1>5. CASE FirstOpen
  <2>1. nm' \in Threads \cup {None} /\ (nm' # None => nm' \in Threads /\ (nm' = entryTid[idx] \/ Left(idx)))
    BY <1>3, <1>5, NameReadWhole DEF FirstOpen
  <2>2. PollOK'
    BY <1>5, <2>1 DEF FirstOpen, PollOK, rings, history
  <2>3. ReadInv'
    BY <1>1, <1>2, <1>3, <1>5, <2>1 DEF FirstOpen, ReadInv
  <2>4. MixedOnlyByReclaim'
    BY <1>1, <1>5 DEF FirstOpen, MixedOnlyByReclaim, rings
  <2> QED
    BY <1>2, <2>2, <2>3, <2>4
<1>6. CASE FirstPush
  <2>1. nm \in Threads /\ (nm = entryTid[idx] \/ Left(idx))
    BY <1>6 DEF FirstPush, ReadInv
  <2>2. /\ MixedOnlyByReclaim' /\ copies' \in [Threads \X Threads -> Nat]
        /\ opened' \in SUBSET (Threads \X Threads) /\ ended' \in SUBSET Threads
    <3>1. nm # entryTid[idx] => Left(slot[entryTid[idx]]) /\ slot[entryTid[idx]] # NoEntry
      BY <1>3, <1>4, <2>1, EntriesNat
    <3> QED
      BY <1>1, <1>4, <1>6, <2>1, <3>1, PushRingInv DEF FirstPush, ctl, threads
  <2>3. PollOK'
    BY <1>6, <2>2 DEF FirstPush, PollOK, history
  <2>4. ReadInv'
    BY <1>1, <1>3, <1>6 DEF FirstPush, ReadInv
  <2> QED
    BY <1>2, <2>2, <2>3, <2>4
<1>7. CASE FirstMark
  <2>1. copies' \in [Threads \X Threads -> Nat] /\ ended' \in SUBSET Threads
    BY <1>4, <1>7, EndRingInv DEF FirstMark, PollOK
  <2>2. PollOK'
    BY <1>7, <2>1 DEF FirstMark, PollOK, history
  <2> QED
    BY <1>1, <1>2, <1>7, <2>2 DEF FirstMark, ReadInv, MixedOnlyByReclaim
<1> QED
  BY <1>5, <1>6, <1>7

LEMMA SecondLoopInv ==
    ASSUME CInv, SecondFind \/ SecondOpen
    PROVE  CInv'
<1> USE DEF CInv
<1>1. UNCHANGED <<state, entryTid, entryName, threadCount, terminal, tpc, scan, slot>>
  BY DEF SecondFind, SecondOpen, ctl, threads
<1>2. RegInv' /\ \A i \in Entries : Left(i)' = Left(i)
  BY <1>1, PollSame DEF ctl, threads
<1>3. idx \in Entries /\ state[idx] # "EMPTY"
  BY DEF SecondFind, SecondOpen, ReadInv
<1>4. entryTid[idx] \in Threads /\ slot[entryTid[idx]] = idx
  BY <1>3, NoneAssumption DEF RegInv, EntryInv
<1>5. CASE SecondFind
  <2>1. copies' \in [Threads \X Threads -> Nat] /\ ended' \in SUBSET Threads
    BY <1>4, <1>5, EndRingInv DEF SecondFind, PollOK
  <2>2. PollOK'
    BY <1>4, <1>5, <2>1 DEF SecondFind, PollOK, history
  <2>3. ReadInv'
    BY <1>1, <1>3, <1>4, <1>5 DEF SecondFind, ReadInv
  <2> QED
    BY <1>1, <1>2, <1>5, <2>2, <2>3 DEF SecondFind, MixedOnlyByReclaim
<1>6. CASE SecondOpen
  <2>1. nm \in Threads /\ slot[nm] = idx /\ (nm = entryTid[idx] \/ Left(idx))
    BY <1>6 DEF SecondOpen, ReadInv
  <2>2. PICK n \in NameRead(idx) : IF n = None THEN UNCHANGED rings ELSE PushRing(n, nm)
    BY <1>6 DEF SecondOpen
  <2>3. /\ MixedOnlyByReclaim' /\ copies' \in [Threads \X Threads -> Nat]
        /\ opened' \in SUBSET (Threads \X Threads) /\ ended' \in SUBSET Threads
    <3>1. CASE n = None
      BY <1>1, <2>2, <3>1 DEF rings, MixedOnlyByReclaim, PollOK
    <3>2. CASE n # None
      <4>1. n \in Threads /\ (n = entryTid[idx] \/ Left(idx))
        BY <1>3, <3>2, NameReadWhole
      <4>2. n # nm => Left(slot[nm]) /\ slot[nm] # NoEntry
        BY <1>3, <2>1, <4>1, EntriesNat
      <4> QED
        BY <1>1, <2>1, <2>2, <3>2, <4>1, <4>2, PushRingInv DEF ctl, threads
    <3> QED
      BY <3>1, <3>2
  <2>4. PollOK'
    BY <1>6, <2>3 DEF SecondOpen, PollOK, history
  <2>5. ReadInv'
    BY <1>6 DEF SecondOpen, ReadInv
  <2> QED
    BY <1>2, <2>3, <2>4, <2>5
<1> QED
  BY <1>5, <1>6

LEMMA RetireInv ==
    ASSUME CInv, NEW n \in Threads, NEW t \in Threads, Retire(n, t)
    PROVE  CInv'
<1> USE DEF CInv
<1>1. UNCHANGED <<state, entryTid, entryName, threadCount, terminal, tpc, scan, slot>>
  BY DEF Retire, ctl, threads
<1>2. RegInv' /\ \A i \in Entries : Left(i)' = Left(i)
  BY <1>1, PollSame DEF ctl, threads
<1>3. copies' \in [Threads \X Threads -> Nat] /\ ended' \in SUBSET Threads
  BY EndRingInv DEF Retire, EndRing
<1>4. PollOK'
  BY <1>3 DEF Retire, PollOK, poll, history
<1>5. ReadInv' /\ MixedOnlyByReclaim'
  BY <1>1, <1>2 DEF Retire, poll, ReadInv, MixedOnlyByReclaim
<1> QED
  BY <1>2, <1>4, <1>5

LEMMA CInvNext == CInv /\ [Next]_vars => CInv'
<1> SUFFICES ASSUME CInv, [Next]_vars PROVE CInv'
  OBVIOUS
<1>1. CASE UNCHANGED vars
  <2>1. UNCHANGED <<ctl, threads>> /\ UNCHANGED <<poll, rings, history>>
    BY <1>1 DEF vars
  <2>2. RegInv' /\ \A i \in Entries : Left(i)' = Left(i)
    BY <2>1, PollSame DEF CInv
  <2> QED
    BY <2>1, <2>2 DEF CInv, ctl, threads, poll, rings, PollOK, ReadInv, MixedOnlyByReclaim, history
<1>2. ASSUME NEW t \in Threads, Thread(t) PROVE CInv'
  BY <1>2, ThreadInv
<1>3. CASE Poll
  BY <1>3, LoadInv, FirstLoopInv, SecondLoopInv DEF Poll
<1>4. ASSUME NEW n \in Threads, NEW t \in Threads, Retire(n, t) PROVE CInv'
  BY <1>4, RetireInv
<1> QED
  BY <1>1, <1>2, <1>3, <1>4 DEF Next

LEMMA CInvAlways == Spec => []CInv
<1>1. CInv /\ [Next]_vars => CInv'
  BY CInvNext
<1>2. Init => CInv
  BY CInvInit
<1> QED
  BY <1>1, <1>2, PTL DEF Spec

-----------------------------------------------------------------------------
(* The types of the control ring and of the engine's poll hold for any     *)
(* number of threads and entries: in particular poll_new_rings never keeps *)
(* a ring without a name or an id.                                         *)
THEOREM CtlTypeCorrect == Spec => []TypeOK
<1>1. CInv => TypeOK
  BY DEF CInv, RegInv, TypeOK
<1> QED
  BY <1>1, CInvAlways, PTL

(* rtmap_ctl_register_thread never gives one entry to two live threads.    *)
THEOREM EntriesExclusive == Spec => []OneOwner
<1>1. CInv => OneOwner
  BY DEF CInv, RegInv
<1> QED
  BY <1>1, CInvAlways, PTL

(* An ACTIVE entry belongs to a live registered thread and holds its id    *)
(* and its name, until that thread calls rtmap_ctl_mark_dead.              *)
THEOREM ActiveEntriesWhole == Spec => []ActiveEntryWhole
<1>1. CInv => ActiveEntryWhole
  BY DEF CInv, RegInv
<1> QED
  BY <1>1, CInvAlways, PTL

(* poll_new_rings keeps a ring under the id of another thread only if the  *)
(* entry was reclaimed while it was being read.                            *)
THEOREM MixedRingsReclaimed == Spec => []MixedOnlyByReclaim
<1>1. CInv => MixedOnlyByReclaim
  BY DEF CInv
<1> QED
  BY <1>1, CInvAlways, PTL

-----------------------------------------------------------------------------
(* What the engine finds: an entry that served one thread only is opened   *)
(* or passed over before the first loop has left it behind.                *)

AllDone == \A t \in Threads : tpc[t] = "done"

\* the entry of a thread that SweepFinds may miss, or whose ring is open
Excused(t) == \/ <<t, t>> \in opened
              \/ slot[t] \in passed
              \/ \E u \in Threads \ {t} : slot[u] = slot[t]

Fixing(i) == \E t \in Threads : slot[t] = i /\ tpc[t] \in {"tid", "name", "publish"}

(* A name is that of some owner of the entry, and an INITIALIZING entry    *)
(* has an owner that is still at work.                                     *)
NamesInv ==
    \A i \in Entries :
        /\ entryName[i] # None => slot[entryName[i]] = i
        /\ state[i] = "INITIALIZING" => Fixing(i)

(* The first loop stays among the entries that have been handed out, also  *)
(* when the count it has loaded was an overshoot.                          *)
Ahead == /\ known <= Allocated
         /\ count <= Allocated \/ Allocated = MaxThreads

(* The first loop is at the entry of thread t and has read that it is      *)
(* published, and then t's name.                                           *)
Reading(t) == /\ epc \in {"open", "push"} /\ idx = slot[t]
              /\ epc = "push" => nm = t

Unmissed ==
    \A t \in Threads : slot[t] # NoEntry => Excused(t) \/ slot[t] >= known \/ Reading(t)

(* In a poll begun after the last exit nothing stops the first loop short  *)
(* of the count, which is exact then.                                      *)
LastInv ==
    /\ last => AllDone
    /\ last /\ epc # "idle" => count = threadCount
    /\ last /\ epc \in {"second", "find", "reopen"} => known >= count
    /\ swept => AllDone /\ SweepFinds

VInv == NamesInv /\ Ahead /\ Unmissed /\ LastInv

LEMMA VInvInit == Init => VInv
<1> SUFFICES ASSUME Init PROVE VInv
  OBVIOUS
<1>1. Undoing = {}
  BY DEF Undoing, Init
<1>2. Allocated = 0
  BY <1>1, FS_EmptySet DEF Allocated, Init
<1>3. NamesInv /\ Unmissed /\ LastInv
  BY DEF Init, NamesInv, Unmissed, LastInv
<1> QED
  BY <1>2, <1>3 DEF VInv, Ahead, Init

LEMMA AllocTypes ==
    ASSUME RegInv
    PROVE  /\ Allocated \in Int /\ Allocated <= MaxThreads /\ MaxThreads \in Nat
           /\ Cardinality(Undoing) \in Nat /\ IsFiniteSet(Undoing) /\ threadCount \in Nat
           /\ \A t \in Threads : slot[t] \in Int
           /\ \A t \in Threads : slot[t] # NoEntry => slot[t] \in Entries /\ slot[t] < Allocated
<1>1. Cardinality(Undoing) \in Nat /\ IsFiniteSet(Undoing) /\ threadCount \in Nat
  BY UndoingFinite DEF RegInv, RegistryOK
<1>2. \A t \in Threads : slot[t] \in Entries \cup {NoEntry}
  BY DEF RegInv, RegistryOK
<1>3. \A t \in Threads : slot[t] \in Int
  BY <1>2, EntriesNat DEF NoEntry
<1> QED
  BY <1>1, <1>2, <1>3, MaxThreadsAssumption DEF RegInv, AllocInv, Allocated

(* An entry a thread is given is either fresh, or some other thread has    *)
(* had it before.                                                          *)
LEMMA ThreadTakes ==
    ASSUME RegInv, NEW t \in Threads, Thread(t)
    PROVE  /\ tpc[t] # "done" /\ Allocated' \in {Allocated, Allocated + 1}
           /\ \A u \in Threads : u # t => slot'[u] = slot[u]
           /\ slot'[t] = slot[t] \/
              /\ slot[t] = NoEntry
              /\ slot'[t] = Allocated \/ \E u \in Threads \ {t} : slot[u] = slot'[t]
<1> USE DEF RegInv
<1>0. Allocated \in Int /\ MaxThreads \in Nat /\ Cardinality(Undoing) \in Nat
      /\ IsFiniteSet(Undoing) /\ threadCount \in Nat
  BY AllocTypes
<1>1. ASSUME UNCHANGED threadCount, Undoing' = Undoing PROVE Allocated' \in {Allocated, Allocated + 1}
  BY <1>0, <1>1 DEF Allocated
<1>2. CASE ThreadInit(t) \/ WriteTid(t) \/ WriteName(t) \/ Publish(t) \/ SetTerminal(t) \/ MarkDead(t)
  <2>1. UNCHANGED <<threadCount, slot>> /\ tpc[t] \notin {"done", "undo"}
    BY <1>2 DEF ThreadInit, WriteTid, WriteName, Publish, SetTerminal, MarkDead, ctl
  <2>2. Undoing' = Undoing
    BY <1>2 DEF ThreadInit, WriteTid, WriteName, Publish, SetTerminal, MarkDead, Goto, Undoing,
                RegistryOK
  <2> QED
    BY <1>1, <2>1, <2>2
<1>3. CASE ScanEntry(t)
  <2>1. Undoing' = Undoing /\ UNCHANGED threadCount /\ tpc[t] = "scan"
    BY <1>3 DEF ScanEntry, Goto, Undoing, RegistryOK
  <2>2. scan[t] \in Entries /\ slot[t] = NoEntry
    BY <1>3, MaxThreadsAssumption DEF ScanEntry, RegistryOK, Entries, OwnerInv
  <2>3. CASE slot' = slot
    BY <1>1, <2>1, <2>3
  <2>4. CASE Reclaimable(state[scan[t]]) /\ slot' = [slot EXCEPT ![t] = scan[t]]
    <3>1. Left(scan[t])
      BY <2>2, <2>4 DEF EntryInv, Reclaimable
    <3>2. PICK u \in Threads : tpc[u] = "done" /\ slot[u] = scan[t]
      BY <3>1 DEF Left
    <3>3. u # t
      BY <2>1, <3>2
    <3> QED
      BY <1>1, <2>1, <2>2, <2>4, <3>2, <3>3 DEF RegistryOK
  <2> QED
    BY <1>3, <2>3, <2>4 DEF ScanEntry
<1>4. CASE FetchAdd(t)
  <2>1. tpc[t] = "scan" /\ slot[t] = NoEntry /\ threadCount' = threadCount + 1 /\ t \notin Undoing
    BY <1>4 DEF FetchAdd, OwnerInv, Undoing
  <2>2. CASE NoFreshEntry /\ Goto(t, "undo") /\ UNCHANGED slot
    <3>1. Undoing' = Undoing \cup {t}
      BY <2>2 DEF Goto, Undoing, RegistryOK
    <3>2. Cardinality(Undoing') = Cardinality(Undoing) + 1
      BY <1>0, <2>1, <3>1, FS_AddElement
    <3>3. Allocated' \in {Allocated, Allocated + 1}
      BY <1>0, <2>1, <3>2 DEF Allocated
    <3> QED
      BY <2>1, <2>2, <3>3
  <2>3. CASE ~NoFreshEntry /\ Goto(t, "tid") /\ slot' = [slot EXCEPT ![t] = threadCount]
    <3>1. Undoing' = Undoing
      BY <2>1, <2>3 DEF Goto, Undoing, RegistryOK
    <3>2. Undoing = {}
      BY <1>0, <2>3, MaxThreadsAssumption DEF NoFreshEntry, AllocInv, Allocated
    <3>3. Allocated = threadCount /\ Allocated' \in {Allocated, Allocated + 1}
      BY <1>0, <2>1, <3>1, <3>2, FS_EmptySet DEF Allocated
    <3> QED
      BY <2>1, <2>3, <3>3 DEF RegistryOK
  <2> QED
    BY <1>4, <2>2, <2>3 DEF FetchAdd
<1>5. CASE UndoFetch(t)
  <2>1. Undoing' = Undoing \ {t} /\ t \in Undoing /\ threadCount' = threadCount - 1
        /\ UNCHANGED slot /\ tpc[t] = "undo"
    BY <1>5 DEF UndoFetch, Goto, Undoing, RegistryOK
  <2>2. Cardinality(Undoing') = Cardinality(Undoing) - 1
    BY <1>0, <2>1, FS_RemoveElement
  <2>3. Allocated' \in {Allocated, Allocated + 1}
    BY <1>0, <2>1, <2>2 DEF Allocated
  <2> QED
    BY <2>1, <2>3
<1> QED
  BY <1>2, <1>3, <1>4, <1>5 DEF Thread

(* Names and states of entries, as the threads write them.                 *)
LEMMA ThreadNames ==
    ASSUME RegInv, NamesInv, NEW t \in Threads, Thread(t)
    PROVE  NamesInv'
<1> USE DEF RegInv
<1> SUFFICES ASSUME NEW i \in Entries
             PROVE  /\ entryName'[i] # None => slot'[entryName'[i]] = i
                    /\ state'[i] = "INITIALIZING" => Fixing(i)'
  BY DEF NamesInv
<1>0. /\ entryName[i] # None => slot[entryName[i]] = i
      /\ state[i] = "INITIALIZING" => Fixing(i)
      /\ i # NoEntry /\ entryName[i] \in Threads \cup {None}
      /\ tpc \in [Threads -> {"new", "scan", "undo", "tid", "name", "publish",
                              "run", "exit", "done"}]
      /\ slot \in [Threads -> Entries \cup {NoEntry}]
      /\ state \in [Entries -> {"EMPTY", "INITIALIZING", "ACTIVE", "DEAD"}]
  BY EntriesNat DEF NamesInv, RegistryOK
<1>1. RegStable
  BY ThreadStable
<1>2. entryName'[i] # None => slot'[entryName'[i]] = i
  <2>1. CASE entryName'[i] = entryName[i]
    BY <1>0, <1>1, <2>1 DEF RegStable
  <2>2. CASE WriteName(t) /\ entryName'[i] # entryName[i]
    BY <1>0, <2>2 DEF WriteName, RegistryOK
  <2>3. UNCHANGED entryName \/ WriteName(t)
    BY DEF Thread, ThreadInit, ScanEntry, FetchAdd, UndoFetch, WriteTid, Publish, SetTerminal,
           MarkDead, ctl
  <2> QED
    BY <2>1, <2>2, <2>3
<1>3. ASSUME Fixing(i), state'[i] = "INITIALIZING" PROVE Fixing(i)'
  <2>1. PICK u \in Threads : slot[u] = i /\ tpc[u] \in {"tid", "name", "publish"}
    BY <1>3 DEF Fixing
  <2>2. slot'[u] = i
    BY <1>0, <1>1, <2>1 DEF RegStable
  <2>3. tpc'[u] \in {"tid", "name", "publish"}
    <3>1. CASE u # t
      <4>1. tpc'[u] = tpc[u]
        BY <1>0, <3>1 DEF Thread, ThreadInit, ScanEntry, FetchAdd, UndoFetch, WriteTid, WriteName,
               Publish, SetTerminal, MarkDead, Goto
      <4> QED
        BY <2>1, <4>1
    <3>2. CASE u = t
      <4>1. WriteTid(t) \/ WriteName(t) \/ Publish(t)
        BY <2>1, <3>2 DEF Thread, ThreadInit, ScanEntry, FetchAdd, UndoFetch, SetTerminal, MarkDead
      <4>2. ~Publish(t)
        BY <1>0, <1>3, <2>1, <3>2 DEF Publish
      <4> QED
        BY <1>0, <3>2, <4>1, <4>2 DEF WriteTid, WriteName, Goto
    <3> QED
      BY <3>1, <3>2
  <2> QED
    BY <2>1, <2>2, <2>3 DEF Fixing
<1>4. ASSUME state[i] # "INITIALIZING", state'[i] = "INITIALIZING" PROVE Fixing(i)'
  <2>1. ScanEntry(t) /\ Reclaimable(state[scan[t]]) /\ scan[t] = i
    BY <1>0, <1>4 DEF Thread, ThreadInit, ScanEntry, FetchAdd, UndoFetch, WriteTid, WriteName,
           Publish, SetTerminal, MarkDead, ctl
  <2>2. slot'[t] = i /\ tpc'[t] = "tid"
    BY <1>0, <2>1 DEF ScanEntry, Goto
  <2> QED
    BY <2>2 DEF Fixing
<1> QED
  BY <1>0, <1>2, <1>3, <1>4

LEMMA ThreadV ==
    ASSUME CInv, VInv, CInv', NEW t \in Threads, Thread(t)
    PROVE  VInv'
<1>1. UNCHANGED <<epc, known, count, idx, nm, last, opened, swept, passed>>
  BY DEF Thread, ThreadInit, ScanEntry, FetchAdd, UndoFetch, WriteTid, WriteName,
         Publish, SetTerminal, MarkDead, poll, rings, history
<1>2. /\ tpc[t] # "done" /\ Allocated' \in {Allocated, Allocated + 1}
      /\ \A u \in Threads : u # t => slot'[u] = slot[u]
      /\ slot'[t] = slot[t] \/
         /\ slot[t] = NoEntry
         /\ slot'[t] = Allocated \/ \E u \in Threads \ {t} : slot[u] = slot'[t]
  BY ThreadTakes DEF CInv
<1>3. NamesInv'
  BY ThreadNames DEF CInv, VInv
<1>4. /\ Allocated \in Int /\ Allocated' \in Int /\ Allocated' <= MaxThreads
      /\ MaxThreads \in Nat /\ known \in Nat /\ count \in Nat
  <2>1. Allocated \in Int /\ MaxThreads \in Nat /\ known \in Nat /\ count \in Nat
    BY AllocTypes DEF CInv, PollOK
  <2>2. Allocated' <= MaxThreads
    BY DEF CInv, RegInv, AllocInv
  <2> QED
    BY <1>2, <2>1, <2>2
<1>5. Ahead'
  BY <1>1, <1>2, <1>4 DEF VInv, Ahead
<1>6. ~last /\ ~swept
  BY <1>2 DEF VInv, LastInv, AllDone
<1>7. LastInv'
  BY <1>1, <1>6 DEF LastInv
<1>8. Unmissed'
  <2> SUFFICES ASSUME NEW v \in Threads, slot'[v] # NoEntry, ~Excused(v)'
               PROVE  slot'[v] >= known \/ Reading(v)'
    BY <1>1 DEF Unmissed
  <2>1. CASE slot'[v] = slot[v]
    <3>1. ~Excused(v)
      BY <1>1, <1>2, <2>1 DEF Excused
    <3> QED
      BY <1>1, <2>1, <3>1 DEF VInv, Unmissed, Reading
  <2>2. CASE slot'[v] # slot[v]
    <3>1. v = t /\ slot'[t] = Allocated
      BY <1>1, <1>2, <2>2 DEF Excused
    <3> QED
      BY <1>4, <3>1 DEF VInv, Ahead
  <2> QED
    BY <2>1, <2>2
<1> QED
  BY <1>3, <1>5, <1>7, <1>8 DEF VInv

(* The engine.                                                             *)
LEMMA PollSameV ==
    ASSUME VInv, UNCHANGED <<ctl, threads>>
    PROVE  NamesInv' /\ Allocated' = Allocated /\ (AllDone' <=> AllDone)
  BY DEF VInv, NamesInv, Fixing, Allocated, Undoing, AllDone, ctl, threads

\* the rings ever opened are kept, and so is the excuse of a thread
LEMMA ExcusedStays ==
    ASSUME UNCHANGED slot, opened \subseteq opened', passed \subseteq passed'
    PROVE  \A t \in Threads : Excused(t) => Excused(t)'
  BY DEF Excused

LEMMA PollMonotone ==
    ASSUME Poll
    PROVE  UNCHANGED <<ctl, threads>> /\ opened \subseteq opened' /\ passed \subseteq passed'
  BY DEF Poll, PollStart, FirstLoad, FirstEnd, FirstOpen, FirstPush, FirstMark, SecondLoad,
         SecondEnd, SecondFind, SecondOpen, EndRing, PushRing, rings, history

(* The entry of a thread that shares it with nobody, once published, holds *)
(* that thread's name and id, and the name is read whole.                  *)
LEMMA OwnEntry ==
    ASSUME CInv, VInv, NEW t \in Threads, slot[t] \in Entries, state[slot[t]] # "EMPTY",
           ~Excused(t)
    PROVE  entryTid[slot[t]] = t /\ NameRead(slot[t]) = {t}
<1> DEFINE i == slot[t]
<1> USE DEF CInv, RegInv, VInv
<1>1. \A u \in Threads : slot[u] = i => u = t
  BY DEF Excused
<1>2. /\ entryTid[i] \in Threads /\ entryName[i] \in Threads
      /\ slot[entryTid[i]] = i
  BY NoneAssumption DEF EntryInv
<1>3. entryTid[i] = t /\ entryName[i] = t
  BY <1>1, <1>2, NoneAssumption DEF NamesInv
<1>4. ~Naming(i)
  <2> SUFFICES ASSUME NEW u \in Threads, tpc[u] = "name", slot[u] = i PROVE FALSE
    BY DEF Naming
  <2>1. u = t /\ state[i] \in {"EMPTY", "INITIALIZING"}
    BY <1>1 DEF OwnerInv
  <2>2. Left(i)
    BY <2>1 DEF EntryInv
  <2> QED
    BY <1>1, <2>1, <2>2 DEF Left
<1> QED
  BY <1>3, <1>4 DEF NameRead, Naming

(* What a step of the poll has to show besides the frame.                  *)
LEMMA PollV ==
    ASSUME CInv, VInv, UNCHANGED <<ctl, threads>>,
           opened \subseteq opened', passed \subseteq passed',
           Ahead', swept' \in BOOLEAN,
           \A t \in Threads : slot[t] # NoEntry /\ ~Excused(t)' /\ (slot[t] >= known \/ Reading(t)) =>
               slot[t] >= known' \/ Reading(t)',
           last' => AllDone, last' /\ epc' # "idle" => count' = threadCount,
           last' /\ epc' \in {"second", "find", "reopen"} => known' >= count',
           swept' => swept \/ (last /\ epc = "second" /\ known >= count)
    PROVE  VInv'
<1> USE DEF VInv
<1>1. NamesInv' /\ (AllDone' <=> AllDone) /\ UNCHANGED <<slot, threadCount>>
  BY PollSameV DEF ctl, threads
<1>2. \A t \in Threads : Excused(t) => Excused(t)'
  BY <1>1, ExcusedStays
<1>3. Unmissed'
  BY <1>1, <1>2 DEF Unmissed
<1>4. ASSUME last, epc = "second", known >= count, NEW t \in Threads, slot[t] # NoEntry
      PROVE  Excused(t)
  <2>1. Undoing = {} /\ count = threadCount
    BY <1>4 DEF LastInv, AllDone, Undoing
  <2>2. slot[t] < Allocated /\ slot[t] \in Int /\ threadCount \in Nat /\ known \in Nat
    BY <1>4, AllocTypes DEF CInv, PollOK
  <2>3. Allocated = threadCount
    BY <2>1, <2>2, FS_EmptySet DEF Allocated
  <2>4. ~(slot[t] >= known)
    BY <1>4, <2>1, <2>2, <2>3
  <2> QED
    BY <1>4, <2>4 DEF Unmissed, Reading
<1>5. swept' => AllDone /\ \A t \in Threads : slot[t] # NoEntry => Excused(t)
  <2>1. swept => AllDone /\ \A t \in Threads : slot[t] # NoEntry => Excused(t)
    BY DEF LastInv, SweepFinds, Excused
  <2>2. last => AllDone
    BY DEF LastInv
  <2> QED
    BY <1>4, <2>1, <2>2
<1>6. SweepFinds'
  <2>1. swept' => \A t \in Threads : slot'[t] # NoEntry => Excused(t)'
    BY <1>1, <1>2, <1>5
  <2> QED
    BY <2>1 DEF SweepFinds, Excused
<1>7. LastInv'
  BY <1>1, <1>5, <1>6 DEF LastInv
<1> QED
  BY <1>1, <1>3, <1>7

LEMMA PollNextV ==
    ASSUME CInv, VInv, Poll
    PROVE  VInv'
<1> USE DEF VInv
<1>0. /\ UNCHANGED <<ctl, threads>> /\ opened \subseteq opened' /\ passed \subseteq passed'
      /\ UNCHANGED <<state, slot, threadCount, tpc>> /\ Allocated' = Allocated
      /\ \A t \in Threads : Excused(t) => Excused(t)'
  BY PollMonotone, PollSameV, ExcusedStays DEF ctl, threads
<1>1. /\ Allocated \in Int /\ Allocated <= MaxThreads /\ MaxThreads \in Nat
      /\ known \in Nat /\ count \in Nat /\ threadCount \in Nat /\ swept \in BOOLEAN /\ last \in BOOLEAN
      /\ \A t \in Threads : slot[t] \in Int
  BY AllocTypes DEF CInv, PollOK
<1>2. CASE PollStart
  <2>1. UNCHANGED <<known, swept>> /\ epc = "idle" /\ epc' = "first" /\ count' = threadCount
    BY <1>2 DEF PollStart, history
  <2>2. threadCount <= Allocated \/ Allocated = MaxThreads
    <3>1. Undoing = {} => threadCount = Allocated
      BY <1>1, FS_EmptySet DEF Allocated
    <3> QED
      BY <1>1, <3>1 DEF CInv, RegInv, AllocInv
  <2>3. Ahead'
    BY <1>0, <2>1, <2>2 DEF Ahead
  <2>4. last' => AllDone
    BY <1>2 DEF PollStart, AllDone
  <2>5. \A t \in Threads : ~Reading(t)
    BY <2>1 DEF Reading
  <2> QED
    BY <1>0, <1>1, <2>1, <2>3, <2>4, <2>5, PollV
<1>3. CASE FirstLoad
  <2>1. UNCHANGED <<count, last, swept>> /\ epc = "first" /\ known < count
    BY <1>3 DEF FirstLoad
  <2>2. \A t \in Threads : ~Reading(t)
    BY <2>1 DEF Reading
  <2>3. last => AllDone /\ count = threadCount
    BY <2>1 DEF LastInv
  <2>4. CASE known' = known /\ epc' = "panicked"
    BY <1>0, <1>1, <2>1, <2>2, <2>3, <2>4, PollV DEF Ahead
  <2>5. CASE known' = known /\ epc' = "second" /\ known < MaxThreads /\ state[known] = "INITIALIZING"
    <3>1. known \in Entries
      BY <1>1, <2>5 DEF Entries
    <3>2. ~last
      BY <2>3, <2>5, <3>1 DEF NamesInv, Fixing, AllDone
    <3> QED
      BY <1>0, <1>1, <2>1, <2>2, <2>5, <3>2, PollV DEF Ahead
  <2>6. CASE /\ known < MaxThreads /\ known' = known + 1 /\ idx' = known
             /\ epc' = IF Skipped(state[known]) THEN "first" ELSE "open"
             /\ passed' = IF state[known] = "EMPTY" THEN passed \cup {known} ELSE passed
    <3>1. Ahead'
      BY <1>0, <1>1, <2>1, <2>6 DEF Ahead
    <3>2. ASSUME NEW t \in Threads, ~Excused(t)', slot[t] >= known \/ Reading(t)
          PROVE  slot[t] >= known' \/ Reading(t)'
      <4>1. slot[t] >= known
        BY <2>2, <3>2
      <4>2. CASE slot[t] = known
        <5>1. state[known] # "EMPTY"
          BY <1>0, <2>6, <3>2, <4>2 DEF Excused
        <5>2. epc' = "open"
          BY <2>6, <5>1 DEF Skipped
        <5> QED
          BY <1>0, <2>6, <4>2, <5>2 DEF Reading
      <4>3. CASE slot[t] # known
        BY <1>1, <2>6, <4>1, <4>3
      <4> QED
        BY <4>2, <4>3
    <3>3. epc' \in {"first", "open"}
      BY <2>6
    <3> QED
      BY <1>0, <1>1, <2>1, <2>3, <3>1, <3>2, <3>3, PollV
  <2> QED
    BY <1>3, <2>4, <2>5, <2>6 DEF FirstLoad
<1>4. CASE FirstEnd
  <2>1. UNCHANGED <<known, count, last, swept>> /\ epc = "first" /\ epc' = "second" /\ known >= count
    BY <1>4 DEF FirstEnd, history
  <2>2. \A t \in Threads : ~Reading(t)
    BY <2>1 DEF Reading
  <2>3. Ahead' /\ (last => AllDone /\ count = threadCount)
    BY <1>0, <2>1 DEF Ahead, LastInv
  <2> QED
    BY <1>0, <1>1, <2>1, <2>2, <2>3, PollV
<1>5. CASE FirstOpen
  <2>1. /\ UNCHANGED <<known, count, idx, last, swept>> /\ epc = "open" /\ nm' \in NameRead(idx)
        /\ epc' = IF nm' # None THEN "push" ELSE IF st = "DEAD" THEN "mark" ELSE "first"
    BY <1>5 DEF FirstOpen, history
  <2>2. idx \in Entries /\ state[idx] # "EMPTY"
    BY <2>1 DEF CInv, ReadInv
  <2>3. ASSUME NEW t \in Threads, ~Excused(t)', Reading(t) PROVE Reading(t)'
    <3>1. idx = slot[t] /\ ~Excused(t)
      BY <1>0, <2>3 DEF Reading
    <3>2. NameRead(idx) = {t}
      BY <2>2, <3>1, OwnEntry
    <3>3. nm' = t /\ epc' = "push"
      BY <2>1, <3>2, NoneAssumption
    <3> QED
      BY <1>0, <2>1, <3>1, <3>3 DEF Reading
  <2>4. Ahead' /\ (last => AllDone /\ count = threadCount)
    BY <1>0, <2>1 DEF Ahead, LastInv
  <2> QED
    BY <1>0, <1>1, <2>1, <2>3, <2>4, PollV
<1>6. CASE FirstPush
  <2>1. /\ UNCHANGED <<known, count, last, swept>> /\ epc = "push" /\ epc' \in {"mark", "first"}
        /\ opened' = opened \cup {<<nm, entryTid[idx]>>}
    BY <1>6 DEF FirstPush, PushRing, history
  <2>2. idx \in Entries /\ state[idx] # "EMPTY"
    BY <2>1 DEF CInv, ReadInv
  <2>3. ASSUME NEW t \in Threads, ~Excused(t)' PROVE ~Reading(t)
    <3> SUFFICES ASSUME Reading(t) PROVE FALSE
      OBVIOUS
    <3>1. idx = slot[t] /\ nm = t /\ ~Excused(t)
      BY <1>0, <2>1, <2>3 DEF Reading
    <3>2. entryTid[idx] = t
      BY <2>2, <3>1, OwnEntry
    <3> QED
      BY <2>1, <2>3, <3>1, <3>2 DEF Excused
  <2>4. Ahead' /\ (last => AllDone /\ count = threadCount)
    BY <1>0, <2>1 DEF Ahead, LastInv
  <2> QED
    BY <1>0, <1>1, <2>1, <2>3, <2>4, PollV
<1>7. CASE FirstMark
  <2>1. UNCHANGED <<known, count, last, swept>> /\ epc = "mark" /\ epc' = "first"
    BY <1>7 DEF FirstMark, history
  <2>2. \A t \in Threads : ~Reading(t)
    BY <2>1 DEF Reading
  <2>3. Ahead' /\ (last => AllDone /\ count = threadCount)
    BY <1>0, <2>1 DEF Ahead, LastInv
  <2> QED
    BY <1>0, <1>1, <2>1, <2>2, <2>3, PollV
<1>8. CASE SecondLoad \/ SecondFind \/ SecondOpen
  <2>1. /\ UNCHANGED <<known, count, last, swept>> /\ epc \in {"second", "find", "reopen"}
        /\ epc' \in {"second", "find", "reopen", "panicked"}
    BY <1>8 DEF SecondLoad, SecondFind, SecondOpen, history
  <2>2. \A t \in Threads : ~Reading(t)
    BY <2>1 DEF Reading
  <2>3. Ahead' /\ (last => AllDone /\ count = threadCount /\ known >= count)
    BY <1>0, <2>1 DEF Ahead, LastInv
  <2> QED
    BY <1>0, <1>1, <2>1, <2>2, <2>3, PollV
<1>9. CASE SecondEnd
  <2>1. /\ UNCHANGED <<known, last>> /\ epc = "second" /\ epc' = "idle" /\ count' = 0
        /\ swept' = (swept \/ last)
    BY <1>9 DEF SecondEnd
  <2>2. \A t \in Threads : ~Reading(t)
    BY <2>1 DEF Reading
  <2>3. Ahead' /\ (last => AllDone /\ known >= count)
    BY <1>0, <1>1, <2>1 DEF Ahead, LastInv
  <2> QED
    BY <1>0, <1>1, <2>1, <2>2, <2>3, PollV
<1> QED
  BY <1>2, <1>3, <1>4, <1>5, <1>6, <1>7, <1>8, <1>9 DEF Poll

LEMMA VInvNext == CInv /\ CInv' /\ VInv /\ [Next]_vars => VInv'
<1> SUFFICES ASSUME CInv, CInv', VInv, [Next]_vars PROVE VInv'
  OBVIOUS
<1>1. ASSUME UNCHANGED <<ctl, threads, poll, history, opened>> PROVE VInv'
  <2>1. NamesInv' /\ Allocated' = Allocated /\ (AllDone' <=> AllDone)
    BY <1>1, PollSameV
  <2>2. UNCHANGED <<slot, threadCount, epc, known, count, idx, nm, last, opened, swept, passed>>
    BY <1>1 DEF ctl, threads, poll, history
  <2>3. \A t \in Threads : (Excused(t)' <=> Excused(t)) /\ (Reading(t)' <=> Reading(t))
    BY <2>2 DEF Excused, Reading
  <2>4. SweepFinds' <=> SweepFinds
    BY <2>2 DEF SweepFinds
  <2> QED
    BY <2>1, <2>2, <2>3, <2>4 DEF VInv, Ahead, Unmissed, LastInv
<1>2. CASE UNCHANGED vars
  BY <1>1, <1>2 DEF vars, rings
<1>3. ASSUME NEW t \in Threads, Thread(t) PROVE VInv'
  BY <1>3, ThreadV
<1>4. CASE Poll
  BY <1>4, PollNextV
<1>5. ASSUME NEW n \in Threads, NEW t \in Threads, Retire(n, t) PROVE VInv'
  BY <1>1, <1>5 DEF Retire
<1> QED
  BY <1>2, <1>3, <1>4, <1>5 DEF Next

(* The final sweep of main.rs catches the rings of short-lived threads: a  *)
(* poll begun after the last exit has opened the ring of every registered  *)
(* thread, but for those whose entry served another thread as well or was  *)
(* met by an earlier poll between fetch_add and publication.               *)
THEOREM SweepAlwaysFinds == Spec => []SweepFinds
<1>1. CInv /\ CInv' /\ VInv /\ [Next]_vars => VInv'
  BY VInvNext
<1>2. Init => VInv
  BY VInvInit
<1>3. VInv => SweepFinds
  BY DEF VInv, LastInv, SweepFinds
<1> QED
  BY <1>1, <1>2, <1>3, CInvAlways, PTL DEF Spec
=============================================================================
