-------------------------- MODULE ConsistencyLocks --------------------------
(***************************************************************************)
(* ConsistencyManager, the locks meant for numbered seats, for one key.    *)
(* Given a Redis client with_lock takes the key lock:<key> with SET NX PX: *)
(* it does not wait, the key lapses by itself, and release_lock deletes it *)
(* whoever set it.  Otherwise locks[key] is a threading.Lock, made on first*)
(* use without a lock of its own; get_seat_lock hands out that object in   *)
(* either case, and its caller locks and unlocks it.                       *)
(***************************************************************************)
EXTENDS Integers, FiniteSets

CONSTANTS Thread,       \* the threads (with a Redis client: of any process)
          SeatLockers,  \* those that use get_seat_lock, the others with_lock
          Nobody,       \* no thread
          MaxLapses,    \* bound: keys that lapse under their holder
          MaxFaults     \* bound: failures around a Redis command

(* What the theorems about this module assume.                             *)
LockAssumption == IsFiniteSet(Thread) /\ Nobody \notin Thread

VARIABLES
    remote,  \* redis_client is given
    pc,      \* what each thread does
    made,    \* the Lock objects made for the key, each named by its maker
    table,   \* the one locks[key] holds
    hand,    \* the one each thread has fetched
    held,    \* those that are locked
    owner,   \* who set lock:<key>, Nobody when absent
    lapses,  \* how often it lapsed under a holder at work
    faults   \* how many failures happened

memoryVars == <<made, table, hand, held>>
redisVars  == <<owner, lapses, faults>>
vars == <<remote, pc, memoryVars, redisVars>>

Init == /\ remote \in BOOLEAN
        /\ pc = [t \in Thread |-> "out"]
        /\ made = {}
        /\ table = Nobody
        /\ hand = [t \in Thread |-> Nobody]
        /\ held = {}
        /\ owner = Nobody
        /\ lapses = 0
        /\ faults = 0

UsesRedis(t) == remote /\ t \notin SeatLockers

Move(t, from, to) == pc[t] = from /\ pc' = [pc EXCEPT ![t] = to] /\ UNCHANGED remote

-----------------------------------------------------------------------------
(* The locks of the process *)

(* key not in self.locks                                                   *)
Look(t) == /\ ~UsesRedis(t)
           /\ Move(t, "out", IF table = Nobody THEN "make" ELSE "fetch")
           /\ UNCHANGED <<memoryVars, redisVars>>

(* Another thread may have made one since: it is replaced.                 *)
Make(t) == /\ Move(t, "make", "fetch")
           /\ made' = made \cup {t}
           /\ table' = t
           /\ UNCHANGED <<hand, held, redisVars>>

Fetch(t) == /\ Move(t, "fetch", "wait")
            /\ hand' = [hand EXCEPT ![t] = table]
            /\ UNCHANGED <<made, table, held, redisVars>>

Acquire(t) == /\ Move(t, "wait", "inside")
              /\ hand[t] \notin held
              /\ held' = held \cup {hand[t]}
              /\ UNCHANGED <<made, table, hand, redisVars>>

(* acquire(timeout) returns False: with_lock raises TimeoutError.          *)
TimeOut(t) == /\ Move(t, "wait", "out")
              /\ t \notin SeatLockers /\ hand[t] \in held
              /\ UNCHANGED <<memoryVars, redisVars>>

(* release_lock looks the object up again.                                 *)
Leave(t) == /\ ~UsesRedis(t)
            /\ Move(t, "inside", "release")
            /\ hand' = [hand EXCEPT ![t] = IF t \in SeatLockers THEN @ ELSE table]
            /\ UNCHANGED <<made, table, held, redisVars>>

(* Lock.release raises RuntimeError when the object is not locked.         *)
Release(t) == /\ Move(t, "release", "out")
              /\ held' = held \ {hand[t]}
              /\ UNCHANGED <<made, table, hand, redisVars>>

-----------------------------------------------------------------------------
(* The key in Redis *)

(* SET NX PX.  When the key exists the reply is None, and with_lock raises *)
(* TimeoutError at once.                                                   *)
SetKey(t) == /\ UsesRedis(t)
             /\ Move(t, "out", "inside")
             /\ owner = Nobody
             /\ owner' = t
             /\ UNCHANGED <<memoryVars, lapses, faults>>

(* The reply is lost: the command raises, or redis-py repeats it and gets  *)
(* None.  Nobody is inside, and the key is set.                            *)
SetReplyLost(t) == /\ UsesRedis(t)
                   /\ pc[t] = "out" /\ owner = Nobody
                   /\ faults < MaxFaults
                   /\ faults' = faults + 1
                   /\ owner' = t
                   /\ UNCHANGED <<remote, pc, memoryVars, lapses>>

(* release_lock: DEL, whoever set the key.                                 *)
DeleteKey(t) == /\ UsesRedis(t)
                /\ Move(t, "inside", "out")
                /\ owner' = Nobody
                /\ UNCHANGED <<memoryVars, lapses, faults>>

(* The process dies inside, or its DEL raises.                             *)
HolderFails(t) == /\ UsesRedis(t)
                  /\ Move(t, "inside", "out")
                  /\ faults < MaxFaults
                  /\ faults' = faults + 1
                  /\ UNCHANGED <<memoryVars, owner, lapses>>

AtWork(T) == {t \in T : pc[t] \in {"inside", "release"}}

(* PX: timeout milliseconds after it was set, whatever the holder does.    *)
Lapse == /\ owner # Nobody
         /\ IF pc[owner] = "inside"
            THEN lapses < MaxLapses /\ lapses' = lapses + 1
            ELSE UNCHANGED lapses
         /\ owner' = Nobody
         /\ UNCHANGED <<remote, pc, memoryVars, faults>>

-----------------------------------------------------------------------------
Next == \/ Lapse
        \/ \E t \in Thread : \/ Look(t) \/ Make(t) \/ Fetch(t) \/ Acquire(t)
                             \/ TimeOut(t) \/ Leave(t) \/ Release(t)
                             \/ SetKey(t) \/ SetReplyLost(t)
                             \/ DeleteKey(t) \/ HolderFails(t)

Spec == Init /\ [][Next]_vars

-----------------------------------------------------------------------------
(* Properties *)

Remote == {t \in Thread : UsesRedis(t)}
Local  == Thread \ Remote

TypeOK == /\ remote \in BOOLEAN
          /\ pc \in [Thread -> {"out", "make", "fetch", "wait", "inside", "release"}]
          /\ made \in SUBSET Thread
          /\ table \in made \cup {Nobody}
          /\ hand \in [Thread -> made \cup {Nobody}]
          /\ held \in SUBSET made
          /\ owner \in Remote \cup {Nobody}
          /\ lapses \in Nat
          /\ faults \in Nat

(* "Only one inside" holds up to the races the code leaves open: one thread*)
(* more for each key that lapsed under its holder, although a late release *)
(* then deletes the key of the next one (release_lock); and as many threads*)
(* as Lock objects were made for the key at once (get_seat_lock).          *)
CrowdBounded == /\ Cardinality(AtWork(Remote)) <= 1 + lapses
                /\ Cardinality(AtWork(Local)) <= Cardinality(made)

(* A lock outlives its holder only after a failure, and then until the key *)
(* lapses; a Lock object stays locked only when two were made, so that the *)
(* release hits the other one.                                             *)
StuckNeedsFault ==
    /\ owner # Nobody /\ owner \notin AtWork(Remote) => faults > 0
    /\ Cardinality(made) <= 1 => Cardinality(held) = Cardinality(AtWork(Local))

-----------------------------------------------------------------------------
(* The inductive invariant: it also says who may be where, that a thread   *)
(* holds an object when it waits or releases, and that the holder of the   *)
(* key is the one thread inside that no lapse let in.                      *)
PlacesOK ==
    /\ \A t \in Remote : pc[t] \in {"out", "inside"}
    /\ \A t \in Local : (pc[t] \notin {"out", "make"}) => (table # Nobody)
    /\ \A t \in Local : (pc[t] \in {"wait", "inside", "release"}) => (hand[t] # Nobody)

LapsesOK == Cardinality(AtWork(Remote)) <= lapses + (IF owner \in AtWork(Remote) THEN 1 ELSE 0)

HeldOK == Cardinality(AtWork(Local)) <= Cardinality(held)

IInv == TypeOK /\ PlacesOK /\ LapsesOK /\ HeldOK /\ StuckNeedsFault
=============================================================================
