----------------------- MODULE ConsistencyLocksProofs -----------------------
(***************************************************************************)
(* Theorems about ConsistencyLocks, for any finite number of threads.      *)
(*                                                                         *)
(* Each step changes at most one thread's place, so it adds that thread to *)
(* those at work, removes it, or leaves them alone; the three lemmas say   *)
(* so for the users of the Redis key and for those of the Lock objects.    *)
(***************************************************************************)
EXTENDS ConsistencyLocks, FiniteSetTheorems, TLAPS

USE DEF LockAssumption

Inside == {"inside", "release"}

(* A change of place that neither enters nor leaves.                       *)
LEMMA StaysOut ==
    ASSUME TypeOK, NEW T \in SUBSET Thread, NEW t \in Thread, NEW to,
           pc' = [pc EXCEPT ![t] = to], (pc[t] \in Inside) <=> (to \in Inside)
    PROVE  {u \in T : pc'[u] \in Inside} = AtWork(T)
  BY DEF TypeOK, AtWork, Inside

(* A thread that goes in joins those inside.                               *)
LEMMA Enters ==
    ASSUME TypeOK, NEW T \in SUBSET Thread, NEW t \in T, NEW to,
           pc' = [pc EXCEPT ![t] = to], pc[t] \notin Inside, to \in Inside
    PROVE  /\ {u \in T : pc'[u] \in Inside} = AtWork(T) \cup {t}
           /\ t \notin AtWork(T)
  BY DEF TypeOK, AtWork, Inside

(* A thread that goes out leaves those inside.                             *)
LEMMA Leaves ==
    ASSUME TypeOK, NEW T \in SUBSET Thread, NEW t \in T, NEW to,
           pc' = [pc EXCEPT ![t] = to], pc[t] \in Inside, to \notin Inside
    PROVE  /\ {u \in T : pc'[u] \in Inside} = AtWork(T) \ {t}
           /\ t \in AtWork(T)
  BY DEF TypeOK, AtWork, Inside

(* A thread that is not in T is never among those of T at work.            *)
LEMMA Elsewhere ==
    ASSUME TypeOK, NEW T \in SUBSET Thread, NEW t \in Thread \ T, NEW to,
           pc' = [pc EXCEPT ![t] = to]
    PROVE  {u \in T : pc'[u] \in Inside} = AtWork(T)
  BY DEF TypeOK, AtWork, Inside

(* Everything that is counted is finite.                                   *)
LEMMA Counts ==
    ASSUME LockAssumption, TypeOK
    PROVE  /\ IsFiniteSet(AtWork(Remote)) /\ Cardinality(AtWork(Remote)) \in Nat
           /\ IsFiniteSet(AtWork(Local)) /\ Cardinality(AtWork(Local)) \in Nat
           /\ IsFiniteSet(made) /\ Cardinality(made) \in Nat
           /\ IsFiniteSet(held) /\ Cardinality(held) \in Nat
<1>1. \A S \in SUBSET Thread : IsFiniteSet(S) /\ Cardinality(S) \in Nat
  BY FS_Subset, FS_CardinalityType
<1>2. /\ AtWork(Remote) \in SUBSET Thread /\ AtWork(Local) \in SUBSET Thread
      /\ made \in SUBSET Thread /\ held \in SUBSET Thread
  BY DEF TypeOK, AtWork, Remote, Local
<1> QED
  BY <1>1, <1>2

-----------------------------------------------------------------------------
(* The initial states                                                      *)

(* The invariant holds at the start.                                       *)
LEMMA InitOK ==
    ASSUME LockAssumption, Init
    PROVE  IInv
<1>1. TypeOK /\ PlacesOK
  BY DEF Init, TypeOK, PlacesOK, Remote, Local
<1>2. AtWork(Remote) = {} /\ AtWork(Local) = {} /\ made = {} /\ held = {}
  BY DEF Init, AtWork, Remote, Local
<1>3. Cardinality({}) = 0
  BY FS_EmptySet
<1>4. LapsesOK /\ HeldOK /\ StuckNeedsFault
  BY <1>2, <1>3 DEF Init, LapsesOK, HeldOK, StuckNeedsFault
<1> QED
  BY <1>1, <1>4 DEF IInv

-----------------------------------------------------------------------------
(* The steps *)

(* Who uses Redis never changes, and so those at work are told by pc'.     *)
LEMMA SameUsers ==
    ASSUME remote' = remote
    PROVE  /\ Remote' = Remote /\ Local' = Local
           /\ AtWork(Remote)' = {u \in Remote : pc'[u] \in Inside}
           /\ AtWork(Local)' = {u \in Local : pc'[u] \in Inside}
<1>1. Remote' = Remote /\ Local' = Local
  BY DEF Remote, Local, UsesRedis
<1> QED
  BY <1>1 DEF AtWork, Inside

(* Each step keeps the types, and each thread at places of its own kind.   *)
LEMMA StepTypeOK ==
    ASSUME LockAssumption, IInv, Next
    PROVE  TypeOK' /\ PlacesOK'
<1> USE DEF IInv
<1>1. CASE Lapse
  BY <1>1 DEF Lapse, TypeOK, PlacesOK, Remote, Local, UsesRedis, memoryVars
<1>2. ASSUME NEW t \in Thread, Look(t) \/ Make(t) \/ Fetch(t) \/ Acquire(t)
      PROVE  TypeOK' /\ PlacesOK'
  BY <1>2 DEF Look, Make, Fetch, Acquire, Move, TypeOK, PlacesOK, Remote, Local,
              UsesRedis, memoryVars, redisVars
<1>3. ASSUME NEW t \in Thread, TimeOut(t) \/ Leave(t) \/ Release(t)
      PROVE  TypeOK' /\ PlacesOK'
  BY <1>3 DEF TimeOut, Leave, Release, Move, TypeOK, PlacesOK, Remote, Local,
              UsesRedis, memoryVars, redisVars
<1>4. ASSUME NEW t \in Thread,
             SetKey(t) \/ SetReplyLost(t) \/ DeleteKey(t) \/ HolderFails(t)
      PROVE  TypeOK' /\ PlacesOK'
  BY <1>4 DEF SetKey, SetReplyLost, DeleteKey, HolderFails, Move, TypeOK, PlacesOK,
              Remote, Local, UsesRedis, memoryVars
<1> QED
  BY <1>1, <1>2, <1>3, <1>4 DEF Next

CountsOK == LapsesOK /\ HeldOK /\ StuckNeedsFault

(* A step of the Lock objects that does not touch the number at work or    *)
(* held.                                                                   *)
LEMMA QuietStep ==
    ASSUME LockAssumption, IInv, NEW t \in Thread,
           Look(t) \/ Make(t) \/ Fetch(t) \/ TimeOut(t) \/ Leave(t)
    PROVE  CountsOK'
<1> USE DEF IInv
<1>1. /\ remote' = remote /\ UNCHANGED <<held, owner, lapses, faults>>
      /\ \E to : pc' = [pc EXCEPT ![t] = to] /\ ((pc[t] \in Inside) <=> (to \in Inside))
  BY DEF Look, Make, Fetch, TimeOut, Leave, Move, memoryVars, redisVars, Inside, TypeOK
<1>2. Remote \in SUBSET Thread /\ Local \in SUBSET Thread
  BY DEF Remote, Local
<1>3. AtWork(Remote)' = AtWork(Remote) /\ AtWork(Local)' = AtWork(Local)
  BY <1>1, <1>2, StaysOut, SameUsers
<1>4. (Cardinality(made') <= 1) => (Cardinality(made) <= 1)
  <2>1. made' = made \/ made' = made \cup {t}
    BY DEF Look, Make, Fetch, TimeOut, Leave, memoryVars
  <2>2. IsFiniteSet(made) /\ Cardinality(made) \in Nat
    BY Counts
  <2>3. CASE t \in made
    <3>1. made' = made
      BY <2>1, <2>3
    <3>2. Cardinality(made') = Cardinality(made)
      BY <3>1
    <3> QED
      BY <3>2
  <2>4. CASE t \notin made
    <3>1. Cardinality(made \cup {t}) = Cardinality(made) + 1
      BY <2>2, <2>4, FS_AddElement
    <3>2. Cardinality(made') \in {Cardinality(made), Cardinality(made \cup {t})}
      BY <2>1
    <3> QED
      BY <2>2, <3>1, <3>2
  <2> QED
    BY <2>3, <2>4
<1> QED
  BY <1>1, <1>3, <1>4 DEF CountsOK, LapsesOK, HeldOK, StuckNeedsFault

(* Acquire: one more at work, one more object held.                        *)
LEMMA AcquireStep ==
    ASSUME LockAssumption, IInv, NEW t \in Thread, Acquire(t)
    PROVE  CountsOK'
<1> USE DEF IInv
<1>1. /\ remote' = remote /\ UNCHANGED <<made, owner, lapses, faults>>
      /\ pc' = [pc EXCEPT ![t] = "inside"] /\ pc[t] = "wait"
      /\ hand[t] \notin held /\ held' = held \cup {hand[t]}
  BY DEF Acquire, Move, redisVars
<1>2. t \in Local /\ t \in Thread \ Remote /\ Remote \in SUBSET Thread /\ Local \in SUBSET Thread
  BY <1>1 DEF Remote, Local, PlacesOK
<1>3. /\ AtWork(Remote)' = AtWork(Remote)
      /\ AtWork(Local)' = AtWork(Local) \cup {t} /\ t \notin AtWork(Local)
  BY <1>1, <1>2, Elsewhere, Enters, SameUsers DEF Inside
<1>4. Cardinality(AtWork(Local)') = Cardinality(AtWork(Local)) + 1
  BY <1>3, Counts, FS_AddElement
<1>5. Cardinality(held') = Cardinality(held) + 1
  BY <1>1, Counts, FS_AddElement
<1>6. /\ Cardinality(AtWork(Local)) \in Nat /\ Cardinality(held) \in Nat
      /\ Cardinality(AtWork(Local)) <= Cardinality(held)
  BY Counts DEF HeldOK
<1>7. LapsesOK'
  BY <1>1, <1>3 DEF LapsesOK
<1>8. HeldOK'
  BY <1>4, <1>5, <1>6 DEF HeldOK
<1>9. StuckNeedsFault'
  BY <1>1, <1>3, <1>4, <1>5, <1>6 DEF StuckNeedsFault
<1> QED
  BY <1>7, <1>8, <1>9 DEF CountsOK

(* Release: one less at work; with one object made, that one is unlocked.  *)
LEMMA ReleaseStep ==
    ASSUME LockAssumption, IInv, NEW t \in Thread, Release(t)
    PROVE  CountsOK'
<1> USE DEF IInv
<1>1. /\ remote' = remote /\ UNCHANGED <<made, owner, lapses, faults>>
      /\ pc' = [pc EXCEPT ![t] = "out"] /\ pc[t] = "release"
      /\ held' = held \ {hand[t]}
  BY DEF Release, Move, redisVars
<1>2. t \in Local /\ t \in Thread \ Remote /\ Remote \in SUBSET Thread /\ Local \in SUBSET Thread
  BY <1>1 DEF Remote, Local, PlacesOK
<1>3. /\ AtWork(Remote)' = AtWork(Remote)
      /\ AtWork(Local)' = AtWork(Local) \ {t} /\ t \in AtWork(Local)
  <2>1. TypeOK /\ pc[t] \in Inside /\ "out" \notin Inside
    BY <1>1 DEF Inside
  <2>2. {u \in Remote : pc'[u] \in Inside} = AtWork(Remote)
    BY <1>1, <1>2, <2>1, Elsewhere
  <2>3. {u \in Local : pc'[u] \in Inside} = AtWork(Local) \ {t} /\ t \in AtWork(Local)
    BY <1>1, <1>2, <2>1, Leaves
  <2> QED
    BY <1>1, <2>2, <2>3, SameUsers
<1>4. Cardinality(AtWork(Local)') = Cardinality(AtWork(Local)) - 1
  <2>1. Cardinality(AtWork(Local) \ {t}) = Cardinality(AtWork(Local)) - 1
    BY <1>3, Counts, FS_RemoveElement
  <2> QED
    BY <1>3, <2>1
<1>5. Cardinality(held') = IF hand[t] \in held THEN Cardinality(held) - 1
                                               ELSE Cardinality(held)
  <2>1. CASE hand[t] \in held
    <3>1. Cardinality(held \ {hand[t]}) = Cardinality(held) - 1
      BY <2>1, Counts, FS_RemoveElement
    <3> QED
      BY <1>1, <2>1, <3>1
  <2>2. CASE hand[t] \notin held
    <3>1. held' = held
      BY <1>1, <2>2
    <3> QED
      BY <2>2, <3>1
  <2> QED
    BY <2>1, <2>2
<1>6. (Cardinality(made) <= 1) => (hand[t] \in held)
  <2> SUFFICES ASSUME Cardinality(made) <= 1
               PROVE  hand[t] \in held
    OBVIOUS
  <2>1. hand[t] \in made
    BY <1>1, <1>2 DEF PlacesOK, TypeOK
  <2>2. made = {hand[t]}
    <3>1. Cardinality(made) = 1
      BY <2>1, Counts, FS_EmptySet
    <3> QED
      BY <2>1, <3>1, Counts, FS_Singleton
  <2>3. Cardinality(held) = Cardinality(AtWork(Local)) /\ AtWork(Local) # {}
    BY <1>3 DEF StuckNeedsFault
  <2>4. held # {}
    BY <2>3, Counts, FS_EmptySet
  <2> QED
    BY <2>2, <2>4 DEF TypeOK
<1> QED
  BY <1>1, <1>3, <1>4, <1>5, <1>6, Counts DEF CountsOK, LapsesOK, HeldOK, StuckNeedsFault

(* The commands at Redis, and the key that lapses.                         *)
LEMMA KeyStep ==
    ASSUME LockAssumption, IInv, NEW t \in Thread,
           SetKey(t) \/ SetReplyLost(t) \/ DeleteKey(t) \/ HolderFails(t)
    PROVE  CountsOK'
<1> USE DEF IInv
<1>1. /\ remote' = remote /\ UNCHANGED <<made, held, lapses>>
      /\ t \in Remote /\ t \in Thread \ Local /\ Remote \in SUBSET Thread /\ Local \in SUBSET Thread
  BY DEF SetKey, SetReplyLost, DeleteKey, HolderFails, Move, memoryVars, Remote, Local
<1>2. CASE SetReplyLost(t)
  <2>1. AtWork(Remote)' = AtWork(Remote) /\ AtWork(Local)' = AtWork(Local)
    BY <1>1, <1>2, SameUsers DEF SetReplyLost, AtWork, Inside
  <2>2. t \notin AtWork(Remote) /\ owner = Nobody /\ owner' = t /\ faults' > 0
    BY <1>2 DEF SetReplyLost, AtWork, TypeOK
  <2>3. owner \notin AtWork(Remote)
    BY <2>2 DEF AtWork, Remote
  <2> QED
    BY <1>1, <2>1, <2>2, <2>3 DEF CountsOK, LapsesOK, HeldOK, StuckNeedsFault
<1>3. CASE SetKey(t)
  <2>1. pc' = [pc EXCEPT ![t] = "inside"] /\ pc[t] = "out" /\ owner = Nobody /\ owner' = t
    BY <1>3 DEF SetKey, Move
  <2>2. /\ AtWork(Local)' = AtWork(Local)
        /\ AtWork(Remote)' = AtWork(Remote) \cup {t} /\ t \notin AtWork(Remote)
    BY <1>1, <2>1, Elsewhere, Enters, SameUsers DEF Inside
  <2>3. Cardinality(AtWork(Remote)') = Cardinality(AtWork(Remote)) + 1
    BY <2>2, Counts, FS_AddElement
  <2>4. owner \notin AtWork(Remote)
    BY <2>1 DEF AtWork, Remote
  <2> QED
    BY <1>1, <2>1, <2>2, <2>3, <2>4, Counts
       DEF CountsOK, LapsesOK, HeldOK, StuckNeedsFault, TypeOK
<1>4. CASE DeleteKey(t) \/ HolderFails(t)
  <2>1. /\ pc' = [pc EXCEPT ![t] = "out"] /\ pc[t] = "inside"
        /\ owner' = Nobody \/ (owner' = owner /\ faults' > 0)
    BY <1>4 DEF DeleteKey, HolderFails, Move, TypeOK
  <2>2. /\ AtWork(Local)' = AtWork(Local)
        /\ AtWork(Remote)' = AtWork(Remote) \ {t} /\ t \in AtWork(Remote)
    <3>1. TypeOK /\ pc[t] \in Inside /\ "out" \notin Inside
      BY <2>1 DEF Inside
    <3>2. {u \in Local : pc'[u] \in Inside} = AtWork(Local)
      BY <1>1, <2>1, <3>1, Elsewhere
    <3>3. {u \in Remote : pc'[u] \in Inside} = AtWork(Remote) \ {t} /\ t \in AtWork(Remote)
      BY <1>1, <2>1, <3>1, Leaves
    <3> QED
      BY <1>1, <3>2, <3>3, SameUsers
  <2>3. Cardinality(AtWork(Remote)') = Cardinality(AtWork(Remote)) - 1
    <3>1. Cardinality(AtWork(Remote) \ {t}) = Cardinality(AtWork(Remote)) - 1
      BY <2>2, Counts, FS_RemoveElement
    <3> QED
      BY <2>2, <3>1
  <2>4. owner' \in AtWork(Remote)' => owner \in AtWork(Remote)
    BY <2>1, <2>2 DEF AtWork, Remote
  <2> QED
    BY <1>1, <2>1, <2>2, <2>3, <2>4, Counts
       DEF CountsOK, LapsesOK, HeldOK, StuckNeedsFault, TypeOK
<1> QED
  BY <1>2, <1>3, <1>4

(* A key that lapses frees the lock under the thread that set it.          *)
LEMMA LapseStep ==
    ASSUME LockAssumption, IInv, Lapse
    PROVE  CountsOK'
<1> USE DEF IInv
<1>1. /\ remote' = remote /\ UNCHANGED <<pc, made, held, faults>>
      /\ owner # Nobody /\ owner' = Nobody
  BY DEF Lapse, memoryVars
<1>2. AtWork(Remote)' = AtWork(Remote) /\ AtWork(Local)' = AtWork(Local)
  BY <1>1, SameUsers DEF AtWork, Inside
<1>3. owner' \notin AtWork(Remote)
  BY <1>1 DEF AtWork, Remote
<1>4. /\ lapses' \in Nat /\ lapses \in Nat
      /\ lapses + (IF owner \in AtWork(Remote) THEN 1 ELSE 0) <= lapses'
  <2>1. owner \in AtWork(Remote) <=> pc[owner] = "inside"
    BY <1>1 DEF AtWork, TypeOK, PlacesOK, Remote
  <2> QED
    BY <2>1 DEF Lapse, TypeOK
<1> QED
  BY <1>1, <1>2, <1>3, <1>4, Counts DEF CountsOK, LapsesOK, HeldOK, StuckNeedsFault

(* Each step keeps the invariant.                                          *)
LEMMA StepOK ==
    ASSUME LockAssumption, IInv, [Next]_vars
    PROVE  IInv'
<1>1. CASE Next
  <2>1. TypeOK' /\ PlacesOK'
    BY <1>1, StepTypeOK
  <2>2. CountsOK'
    BY <1>1, QuietStep, AcquireStep, ReleaseStep, KeyStep, LapseStep DEF Next
  <2> QED
    BY <2>1, <2>2 DEF IInv, CountsOK
<1>2. CASE UNCHANGED vars
  BY <1>2 DEF vars, memoryVars, redisVars, IInv, TypeOK, PlacesOK, LapsesOK, HeldOK,
              StuckNeedsFault, AtWork, Remote, Local, UsesRedis
<1> QED
  BY <1>1, <1>2

-----------------------------------------------------------------------------
(* Theorems *)

(* The inductive invariant holds in every reachable state.                 *)
THEOREM LockInvariance ==
    ASSUME LockAssumption
    PROVE  Spec => []IInv
  BY InitOK, StepOK, PTL DEF Spec

(* No more threads are inside with_lock at Redis than one and one for each *)
(* key that lapsed under its holder, and no more hold Lock objects than    *)
(* were made (acquire_lock, release_lock, get_seat_lock).                  *)
THEOREM CrowdIsBounded ==
    ASSUME LockAssumption
    PROVE  Spec => []CrowdBounded
<1>1. IInv => CrowdBounded
  <2> SUFFICES ASSUME IInv
               PROVE  CrowdBounded
    OBVIOUS
  <2>1. Cardinality(held) <= Cardinality(made)
    BY Counts, FS_Subset DEF IInv, TypeOK
  <2> QED
    BY <2>1, Counts DEF IInv, TypeOK, LapsesOK, HeldOK, CrowdBounded
<1> QED
  BY <1>1, LockInvariance, PTL

(* A key outlives its holder only after a failure, and a Lock object stays *)
(* locked with nobody inside only when two were made (with_lock).          *)
THEOREM StuckLockNeedsFault ==
    ASSUME LockAssumption
    PROVE  Spec => []StuckNeedsFault
<1>1. IInv => StuckNeedsFault
  BY DEF IInv
<1> QED
  BY <1>1, LockInvariance, PTL
=============================================================================
