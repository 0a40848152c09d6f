-------------------------- MODULE IndirectUseProofs --------------------------
(***************************************************************************)
(* Theorems of the two modules that put IndirectQueue to use, for any      *)
(* workers and messages, any number of runs and of faults.                 *)
(*                                                                         *)
(* WorkerPool: a worker that stop_all listed is registered, or somebody is *)
(* about to stop it, or it can never consume (again).                      *)
(*                                                                         *)
(* IndirectRuns: while a run goes on that began drained, the messages of   *)
(* the other runs stay quiet.                                              *)
(***************************************************************************)
EXTENDS WorkerPool, IndirectRuns, IndirectQueueProofs

-----------------------------------------------------------------------------
(* WorkerPool: the inductive invariant                                     *)

PoolTypeOK == /\ life \in [Process -> Life]
              /\ registered \in SUBSET Process
              /\ adding \in Process \cup {Nobody}
              /\ removing \in [Caller -> Process \cup {Nobody}]
              /\ sweep \in {"none", "removing", "returned"}
              /\ listed \in SUBSET Process

(* Only a worker that is new can still be added, so none comes back to the *)
(* registry or to the list.                                                *)
BeingStopped(w) == \E c \in Caller : removing[c] = w

KnownStarted ==
    /\ \A w \in Process : life[w] = "none" =>
          w \notin registered \cup listed /\ adding # w /\ ~BeingStopped(w)
    /\ adding # Nobody => adding \notin registered \cup listed /\ ~BeingStopped(adding)

(* What stop_all still has to stop, or somebody else has.                  *)
MayConsume(w) == life[w] \in {"starting", "consuming"}

ListedOK ==
    /\ \A w \in listed : MayConsume(w) => w \in registered \/ BeingStopped(w)
    /\ sweep # "removing" => removing["stop_all"] = Nobody
    /\ sweep = "none" => listed = {}
    /\ sweep = "returned" => listed \cap registered = {}

PoolInv == PoolTypeOK /\ KnownStarted /\ ListedOK

-----------------------------------------------------------------------------
(* WorkerPool: the steps                                                   *)

(* What a step of the queue, a handler or a fault may do to the threads.   *)
LEMMA ThreadsEnd ==
    ASSUME PoolInv, UNCHANGED callVars,
           \/ UNCHANGED life
           \/ \E w \in Process : life[w] # "none" /\ Becomes(w, "ended")
    PROVE  PoolInv'
<1> USE DEF PoolInv, callVars
<1>1. /\ PoolTypeOK'
      /\ \A w \in Process : /\ life'[w] = "none" <=> life[w] = "none"
                            /\ life'[w] \in {"starting", "consuming"} => life'[w] = life[w]
  BY DEF PoolTypeOK, Becomes, Life
<1> QED
  BY <1>1 DEF PoolTypeOK, KnownStarted, ListedOK, BeingStopped, MayConsume

(* A thread that begins, runs or ends.                                     *)
LEMMA ThreadStep ==
    ASSUME PoolInv, NEW w \in Process,
           Thread(w) \/ ConnectRaises(w) \/ CutRedis(w) \/ BreakThread(w)
    PROVE  PoolInv'
<1>1. CASE Connect(w)
  <2> USE DEF PoolInv, callVars
  <2>1. life' = [life EXCEPT ![w] = IF life[w] = "doomed" THEN "astray" ELSE "consuming"]
        /\ life[w] \in {"starting", "doomed"} /\ UNCHANGED callVars
    BY <1>1 DEF Connect, Becomes
  <2>2. /\ PoolTypeOK'
        /\ \A v \in Process : /\ life'[v] = "none" <=> life[v] = "none"
                              /\ life'[v] \in {"starting", "consuming"} =>
                                    life[v] \in {"starting", "consuming"}
    BY <2>1 DEF PoolTypeOK, Life
  <2> QED
    BY <2>1, <2>2 DEF PoolTypeOK, KnownStarted, ListedOK, BeingStopped, MayConsume
<1>2. CASE ConnectRaises(w)
  BY <1>2, ThreadsEnd DEF ConnectRaises
<1>3. CASE Consume(w) \/ BreakThread(w) \/ CutRedis(w)
  <2>1. life[w] # "none" /\ UNCHANGED callVars /\ (UNCHANGED life \/ Becomes(w, "ended"))
    BY <1>3 DEF Consume, BreakThread, CutRedis, AtWork, Follow
  <2> QED
    BY <2>1, ThreadsEnd
<1> QED
  BY <1>1, <1>2, <1>3 DEF Thread

(* A thread that is added is a new one.                                    *)
LEMMA AddStep ==
    ASSUME PoolInv, Register \/ \E w \in Process : StartThread(w)
    PROVE  PoolInv'
<1> USE NumberedAssumption DEF PoolInv, PoolTypeOK, KnownStarted, ListedOK, BeingStopped,
                               MayConsume
<1>1. CASE Register
  BY <1>1 DEF Register
<1>2. ASSUME NEW w \in Process, StartThread(w)
      PROVE  PoolInv'
  <2>1. /\ life[w] = "none" /\ adding = Nobody /\ adding' = w
        /\ life' = [life EXCEPT ![w] = "starting"]
        /\ UNCHANGED <<registered, removing, sweep, listed>>
    BY <1>2 DEF StartThread, NextId, Becomes
  <2>2. PoolTypeOK'
    BY <2>1 DEF Life
  <2>3. /\ life'[w] = "starting"
        /\ \A v \in Process \ {w} : life'[v] = life[v]
    BY <2>1
  <2>4. KnownStarted'
    BY <2>1, <2>3
  <2>5. ListedOK'
    BY <2>1, <2>3
  <2> QED
    BY <2>2, <2>4, <2>5
<1> QED
  BY <1>1, <1>2

(* Whoever takes a worker out of the registry is about to stop it.         *)
LEMMA TakeStep ==
    ASSUME PoolInv, NEW c \in Caller, NEW w \in Process, Take(c, w),
           c = "stop_all" => sweep = "removing"
    PROVE  PoolInv'
<1> USE NumberedAssumption DEF PoolInv, PoolTypeOK, KnownStarted, ListedOK, BeingStopped,
                               MayConsume
<1>1. /\ removing[c] = Nobody /\ w \in registered
      /\ registered' = registered \ {w} /\ UNCHANGED <<life, adding, sweep, listed>>
      /\ removing' = [removing EXCEPT ![c] = w]
  BY DEF Take
<1>2. PoolTypeOK'
  BY <1>1
<1>3. removing'[c] = w /\ \A b \in Caller \ {c} : removing'[b] = removing[b]
  BY <1>1
<1>4. \A v \in Process : BeingStopped(v)' <=> BeingStopped(v) \/ v = w
  BY <1>1, <1>3
<1>5. KnownStarted'
  BY <1>1, <1>4
<1>6. "stop_all" \in Caller /\ (sweep # "removing" => removing'["stop_all"] = Nobody)
  BY <1>3 DEF Caller
<1>7. \A v \in listed : MayConsume(v)' => v \in registered' \/ BeingStopped(v)'
  BY <1>1, <1>4
<1>8. ListedOK'
  BY <1>1, <1>6, <1>7
<1> QED
  BY <1>2, <1>5, <1>8

(* stop() leaves no worker that still consumes, or will.                   *)
LEMMA StopStep ==
    ASSUME PoolInv, NEW c \in Caller, Stop(c)
    PROVE  PoolInv'
<1> USE NumberedAssumption DEF PoolInv, PoolTypeOK, KnownStarted, ListedOK, BeingStopped,
                               MayConsume
<1> DEFINE w == removing[c]
<1>1. /\ w \in Process /\ UNCHANGED <<registered, adding, sweep, listed>>
      /\ removing' = [removing EXCEPT ![c] = Nobody]
      /\ \/ life[w] = "consuming" /\ Becomes(w, "stopping")
         \/ life[w] = "starting" /\ Becomes(w, "doomed")
         \/ life[w] = "ended" /\ UNCHANGED life
  BY DEF Stop
<1>2. PoolTypeOK'
  BY <1>1 DEF Becomes, Life
<1>3. /\ removing'[c] = Nobody /\ \A b \in Caller \ {c} : removing'[b] = removing[b]
      /\ life'[w] \in {"stopping", "doomed", "ended"} /\ life[w] # "none"
      /\ \A v \in Process \ {w} : life'[v] = life[v]
  BY <1>1 DEF Becomes
<1> HIDE DEF w
<1>4. \A v \in Process : /\ BeingStopped(v)' => BeingStopped(v)
                         /\ BeingStopped(v) => BeingStopped(v)' \/ v = w
  BY <1>3 DEF w
<1>5. KnownStarted'
  BY <1>1, <1>3, <1>4
<1>6. "stop_all" \in Caller /\ (sweep # "removing" => removing'["stop_all"] = Nobody)
  BY <1>3 DEF Caller
<1>7. ListedOK'
  BY <1>1, <1>3, <1>4, <1>6
<1> QED
  BY <1>2, <1>5, <1>7

(* stop_all lists what is registered, and returns when that is taken out.  *)
LEMMA SweepStep ==
    ASSUME PoolInv, ListWorkers \/ StopAllReturns
    PROVE  PoolInv'
<1> USE DEF PoolInv, PoolTypeOK, KnownStarted, ListedOK, BeingStopped, MayConsume
<1>1. CASE ListWorkers
  BY <1>1 DEF ListWorkers
<1>2. CASE StopAllReturns
  BY <1>2 DEF StopAllReturns
<1> QED
  BY <1>1, <1>2

(* Every step keeps the invariant of the pool.                             *)
LEMMA PoolStep ==
    ASSUME PoolInv, [PoolNext]_allVars
    PROVE  PoolInv'
<1>1. CASE Call
  BY <1>1, AddStep, TakeStep, StopStep, SweepStep DEF Call, RemoveNext, Caller
<1>2. CASE \E w \in Process : RemoveWorker(w)
  BY <1>2, TakeStep DEF RemoveWorker, Caller
<1>3. CASE ExitProcess
  BY <1>3, NumberedAssumption
     DEF ExitProcess, PoolInv, PoolTypeOK, KnownStarted, ListedOK, BeingStopped, MayConsume,
         Life, Caller
<1>4. CASE UNCHANGED poolVars
  BY <1>4, ThreadsEnd DEF poolVars
<1> QED
  BY <1>1, <1>2, <1>3, <1>4, ThreadStep, SweepStep DEF PoolNext, Alone, allVars

-----------------------------------------------------------------------------
(* WorkerPool: the theorem                                                 *)

(* When stop_all has returned, no worker it listed consumes, unless it     *)
(* connected only then or another caller is about to stop it, whatever is  *)
(* added, removed, cut off or killed meanwhile.                            *)
THEOREM StopAllStopsAll == PoolSpec => []StopAllStops
<1>1. PoolInit => PoolInv
  BY NumberedAssumption
     DEF PoolInit, PoolInv, PoolTypeOK, KnownStarted, ListedOK, BeingStopped, MayConsume, Life,
         Caller
<1>2. PoolInv /\ [PoolNext]_allVars => PoolInv'
  BY PoolStep
<1>3. PoolInv => StopAllStops
  <2> SUFFICES ASSUME PoolInv, sweep = "returned", NEW w \in listed, life[w] = "consuming"
               PROVE  removing["remove_worker"] = w
    BY DEF StopAllStops
  <2>1. /\ w \in Process /\ w # Nobody /\ BeingStopped(w) /\ removing["stop_all"] = Nobody
    BY NumberedAssumption DEF PoolInv, PoolTypeOK, ListedOK, MayConsume
  <2> QED
    BY <2>1 DEF BeingStopped, Caller
<1> QED
  BY <1>1, <1>2, <1>3, PTL DEF PoolSpec

-----------------------------------------------------------------------------
(* IndirectRuns: the inductive invariant                                   *)

RunsTypeOK == /\ run \in 1..Runs
              /\ step \in {"flush", "restart", "publish", "collect", "over"}
              /\ restarted \in SUBSET Process
              /\ results \in [1..Runs -> [Purchase -> [Status -> Nat]]]
              /\ drained \in [1..Runs -> BOOLEAN]
              /\ emptied \in BOOLEAN
              /\ leftover \in SUBSET Purchase

(* Nothing of message m is under way, or left over.                        *)
Quiet(m) == /\ ready[m] = 0 /\ \A w \in Process : serving[w] # m
            /\ \A s \in Status : Taken(m, s) = responses[m][s]

(* Until its reset a run is not drained, and until it has published it has *)
(* no results.                                                             *)
NotBegun ==
    \A k \in 1..Runs :
        /\ (k > run \/ (k = run /\ step = "flush")) => ~drained[k]
        /\ (k > run \/ (k = run /\ step \in {"flush", "restart", "publish"})) =>
              \A m \in Purchase, s \in Status : results[k][m][s] = 0

(* In a run that began drained, the messages of the other runs are quiet.  *)
OthersQuiet == drained[run] => \A m \in Purchase : RunOf[m] # run => Quiet(m)

RunsInv == RunsTypeOK /\ NotBegun /\ OthersQuiet /\ FreshStart /\ OwnResponses

-----------------------------------------------------------------------------
(* IndirectRuns: the steps                                                 *)

USE LimitsAssumption, PurchaseAssumption, OrderAssumption, NoSeatAssumption,
    QueueBoundsAssumption, RunsAssumption

(* A restart by the script ends a worker as a crash does.                  *)
LEMMA RestartTypes ==
    ASSUME TypeOK, WorkersOK, NEW w \in Process, RestartWorker(w)
    PROVE  TypeOK' /\ WorkersOK'
<1>1. Untold(w) => serving[w] \in Purchase
  BY DEF Untold, WorkersOK, WorkerOK, TypeOK
<1>2. WorkerTypes' /\ processed' \in [Process -> [Ids -> Response]]
  BY ReleaseTypes DEF RestartWorker
<1>3. ready' \in [Purchase -> Nat]
  BY DEF RestartWorker, Requeue, One, TypeOK
<1>4. TypeOK'
  BY <1>1, <1>2, <1>3 DEF RestartWorker, WorkerTypes, storeVars, TypeOK, BackendTypeOK
<1>5. WorkersOK'
  BY EmptyHanded DEF RestartWorker
<1> QED
  BY <1>4, <1>5

(* The flush, done or failed, leaves the workers alone.                    *)
LEMMA FlushTypes ==
    ASSUME TypeOK, WorkersOK, Flush \/ FlushFails
    PROVE  TypeOK' /\ WorkersOK'
<1>1. BackendTypeOK'
  BY DEF Flush, FlushFails, BeginReset, Bought, storeVars, TypeOK, BackendTypeOK
<1>2. TypeOK'
  BY <1>1 DEF Flush, FlushFails, BeginReset, TypeOK, workerVars, queueVars
<1>3. WorkersOK'
  BY DEF Flush, FlushFails, BeginReset, WorkersOK, WorkerOK, workerVars
<1> QED
  BY <1>2, <1>3

(* Every step keeps the types and what workers have in hand.               *)
LEMMA RunsTypes ==
    ASSUME TypeOK, WorkersOK, [RunsNext]_<<vars, runVars>>
    PROVE  TypeOK' /\ WorkersOK'
<1>1. ASSUME UNCHANGED vars
      PROVE  TypeOK' /\ WorkersOK'
  BY <1>1 DEF vars, storeVars, workerVars, queueVars, TypeOK, BackendTypeOK, WorkersOK, WorkerOK
<1>2. CASE Next
  BY <1>2, TypeStep, WorkersStep
<1>3. CASE Underneath \/ \E m \in Purchase : Send(m)
  <2>1. Next
    BY <1>3 DEF Underneath, Send, Next
  <2> QED
    BY <1>2, <2>1
<1>4. CASE BeginRun \/ AllSent \/ Collect \/ EndRun
  BY <1>1, <1>4 DEF BeginRun, AllSent, Collect, EndRun
<1>5. CASE AbandonRun
  <2>1. faults' \in 0..MaxFaults
    BY <1>5 DEF AbandonRun, TypeOK
  <2> QED
    BY <1>5, <2>1 DEF AbandonRun, storeVars, workerVars, queueVars, TypeOK, BackendTypeOK,
                      WorkersOK, WorkerOK
<1> QED
  BY <1>1, <1>3, <1>4, <1>5, RestartTypes, FlushTypes DEF RunsNext, Script

(* A message that is neither in the queue nor in hand stays so until it is *)
(* published, and gets no response.                                        *)
LEMMA AbsentStays ==
    ASSUME TypeOK, WorkersOK, NEW m \in Purchase, ready[m] = 0,
           \A w \in Process : serving[w] # m,
           Next, published'[m] = published[m]
    PROVE  /\ ready'[m] = 0 /\ \A w \in Process : serving'[w] # m
           /\ responses'[m] = responses[m]
<1> USE DEF TypeOK
<1>1. ASSUME NEW n \in Purchase, Publish(n) \/ Expire(n)
      PROVE  /\ ready'[m] = 0 /\ \A w \in Process : serving'[w] # m
             /\ responses'[m] = responses[m]
  BY <1>1 DEF Publish, Expire, One, workerVars
<1>2. ASSUME NEW n \in Purchase, NEW v \in Process, Deliver(v, n)
      PROVE  /\ ready'[m] = 0 /\ \A w \in Process : serving'[w] # m
             /\ responses'[m] = responses[m]
  BY <1>2 DEF Deliver
<1>3. ASSUME NEW v \in Process
      PROVE  /\ (Release(v) \/ End(v)) => \A w \in Process : serving'[w] # m
             /\ Reject(v) => \A w \in Process : serving'[w] # m
             /\ Requeue(v) => ready'[m] = 0
  BY DEF Release, End, Reject, Requeue, One
<1>4. ASSUME NEW v \in Process, RejectMalformed(v) \/ Ack(v) \/ GiveUp(v)
      PROVE  /\ ready'[m] = 0 /\ \A w \in Process : serving'[w] # m
             /\ responses'[m] = responses[m]
  BY <1>3, <1>4 DEF RejectMalformed, Ack, GiveUp, queueVars
<1>5. ASSUME NEW v \in Process,
             AnswerDuplicate(v) \/ RefuseSeat(v) \/ Execute(v) \/ Finish(v) \/ Restart(v)
      PROVE  /\ ready'[m] = 0 /\ \A w \in Process : serving'[w] # m
             /\ responses'[m] = responses[m]
  BY <1>5 DEF AnswerDuplicate, RefuseSeat, Execute, Finish, Restart, Respond, queueVars
<1>6. ASSUME NEW v \in Process, PublishResponse(v)
      PROVE  /\ ready'[m] = 0 /\ \A w \in Process : serving'[w] # m
             /\ responses'[m] = responses[m]
  BY <1>6 DEF PublishResponse
<1>7. ASSUME NEW v \in Process, Disconnect(v) \/ Crash(v)
      PROVE  /\ ready'[m] = 0 /\ \A w \in Process : serving'[w] # m
             /\ responses'[m] = responses[m]
  BY <1>3, <1>7 DEF Disconnect, CloseChannel, Crash
<1>8. ASSUME NEW v \in Process, BreakRedis(v)
      PROVE  /\ ready'[m] = 0 /\ \A w \in Process : serving'[w] # m
             /\ responses'[m] = responses[m]
  BY <1>3, <1>8 DEF BreakRedis, FailCommand, Repeat
<1> QED
  BY <1>1, <1>2, <1>4, <1>5, <1>6, <1>7, <1>8, NextCases

(* What a message has in the results depends on its own entries only.      *)
LEMMA TakenStays ==
    ASSUME NEW m \in Purchase, \A k \in 1..Runs : results'[k][m] = results[k][m]
    PROVE  \A s \in Status : Taken(m, s)' = Taken(m, s)
<1> TAKE s \in Status
<1>1. [k \in 1..Runs |-> results'[k][m][s]] = [k \in 1..Runs |-> results[k][m][s]]
  OBVIOUS
<1> QED
  BY <1>1 DEF Taken

(* So a quiet message stays quiet, whatever goes on underneath, ...        *)
LEMMA QuietStays ==
    ASSUME TypeOK, WorkersOK, NEW m \in Purchase, Quiet(m), Next,
           published'[m] = published[m], results' = results
    PROVE  Quiet(m)'
<1>1. \A s \in Status : Taken(m, s)' = Taken(m, s)
  BY TakenStays
<1>2. /\ ready'[m] = 0 /\ \A w \in Process : serving'[w] # m
      /\ responses'[m] = responses[m]
  BY AbsentStays DEF Quiet
<1> QED
  BY <1>1, <1>2 DEF Quiet

(* ... and whatever the script does with others.                           *)
LEMMA QuietKept ==
    ASSUME NEW m \in Purchase, Quiet(m), UNCHANGED <<ready, serving, responses>>,
           \A k \in 1..Runs : results'[k][m] = results[k][m]
    PROVE  Quiet(m)'
<1>1. \A s \in Status : Taken(m, s)' = Taken(m, s)
  BY TakenStays
<1> QED
  BY <1>1 DEF Quiet

(* A worker the script restarts has no quiet message to give back.         *)
LEMMA QuietRestart ==
    ASSUME TypeOK, NEW m \in Purchase, Quiet(m), NEW w \in Process, RestartWorker(w)
    PROVE  Quiet(m)'
<1>1. \A s \in Status : Taken(m, s)' = Taken(m, s)
  BY TakenStays DEF RestartWorker
<1>2. ready'[m] = 0
  BY DEF Quiet, RestartWorker, Requeue, One, TypeOK
<1>3. \A v \in Process : serving'[v] # m
  BY DEF Quiet, RestartWorker, End, TypeOK
<1> QED
  BY <1>1, <1>2, <1>3 DEF Quiet, RestartWorker

(* Only the script publishes.                                              *)
LEMMA UnderneathPublishesNothing ==
    ASSUME Underneath
    PROVE  Next /\ published' = published
<1>1. Next
  BY DEF Underneath, Next
<1>2. published' = published
  BY OthersPublishNothing DEF Underneath, Work, Handle, Fault, Expire
<1> QED
  BY <1>1, <1>2

(* A message that is gone stays gone while nothing is published.           *)
LEMMA RemainingShrinks ==
    ASSUME TypeOK, WorkersOK, Next, published' = published
    PROVE  Remaining' \subseteq Remaining
<1> SUFFICES ASSUME NEW m \in Purchase, m \notin Remaining
             PROVE  m \notin Remaining'
  BY DEF Remaining
<1>1. ready[m] = 0 /\ \A w \in Process : serving[w] # m
  BY DEF Remaining, TypeOK
<1>2. ready'[m] = 0 /\ \A w \in Process : serving'[w] # m
  BY <1>1, AbsentStays
<1> QED
  BY <1>2 DEF Remaining

(* What workers sell and cache meanwhile is for messages that are there.   *)
LEMMA SalesForRemaining ==
    ASSUME TypeOK, WorkersOK, Underneath
    PROVE  /\ Bought' \subseteq Bought \cup Remaining
           /\ Remaining = {} => count' = count
           /\ \A w \in Process, i \in Ids :
                 processed'[w][i] # NoResponse =>
                    processed[w][i] # NoResponse \/ \E m \in Remaining : OrderOf[m].id = i
<1> DEFINE Kept == /\ Bought' \subseteq Bought \cup Remaining
                   /\ Remaining = {} => count' = count
                   /\ \A w \in Process, i \in Ids :
                         processed'[w][i] # NoResponse =>
                            \/ processed[w][i] # NoResponse
                            \/ \E m \in Remaining : OrderOf[m].id = i
<1> USE DEF TypeOK, BackendTypeOK
<1>1. ASSUME UNCHANGED storeVars,
             \A w \in Process : processed'[w] = processed[w] \/ processed'[w] = EmptyCache
      PROVE  Kept
  <2>1. Bought' = Bought
    BY <1>1 DEF Bought, storeVars
  <2>2. ASSUME NEW w \in Process, NEW i \in Ids, processed'[w][i] # NoResponse
        PROVE  processed[w][i] # NoResponse
    <3>1. EmptyCache[i] = NoResponse
      BY DEF EmptyCache
    <3> QED
      BY <1>1, <2>2, <3>1
  <2> QED
    BY <1>1, <2>1, <2>2 DEF storeVars
<1>2. ASSUME NEW m \in Purchase, Expire(m)
      PROVE  Kept
  BY <1>1, <1>2 DEF Expire
<1>3. ASSUME NEW w \in Process
      PROVE  /\ (Release(w) /\ UNCHANGED processed) \/ End(w) \/ Reject(w) =>
                   \A v \in Process : processed'[v] = processed[v] \/ processed'[v] = EmptyCache
             /\ pc[w] \in {"received", "reply"} => serving[w] \in Remaining /\ serving[w] \in Purchase
  <2>1. pc[w] \in {"received", "reply"} => serving[w] \in Remaining /\ serving[w] \in Purchase
    BY DEF WorkersOK, WorkerOK, Remaining
  <2> QED
    BY <2>1 DEF Release, End, Reject, Forget
<1>4. ASSUME NEW w \in Process,
             \/ \E m \in Purchase : Deliver(w, m)
             \/ AnswerDuplicate(w) \/ PublishResponse(w) \/ Restart(w) \/ Disconnect(w)
      PROVE  Kept
  BY <1>1, <1>4 DEF Deliver, AnswerDuplicate, PublishResponse, Restart, Disconnect, CloseChannel
<1>5. ASSUME NEW w \in Process, RejectMalformed(w) \/ Ack(w) \/ GiveUp(w) \/ Crash(w)
      PROVE  Kept
  BY <1>1, <1>3, <1>5 DEF RejectMalformed, Ack, GiveUp, Crash
<1>6. ASSUME NEW w \in Process, BreakRedis(w)
      PROVE  Kept
  BY <1>1, <1>3, <1>6 DEF BreakRedis, FailCommand, Repeat
<1>7. ASSUME NEW w \in Process, RefuseSeat(w) \/ Finish(w)
      PROVE  Kept
  <2>1. /\ UNCHANGED storeVars
        /\ serving[w] \in Remaining /\ serving[w] \in Purchase
        /\ \E resp : processed' = [processed EXCEPT ![w][OrderOf[serving[w]].id] = resp]
    BY <1>3, <1>7 DEF RefuseSeat, Finish, Remember
  <2>2. Bought' = Bought
    BY <2>1 DEF Bought, storeVars
  <2>3. ASSUME NEW v \in Process, NEW i \in Ids, processed'[v][i] # NoResponse
        PROVE  processed[v][i] # NoResponse \/ \E m \in Remaining : OrderOf[m].id = i
    <3>1. CASE v = w /\ i = OrderOf[serving[w]].id
      BY <2>1, <3>1
    <3>2. CASE ~(v = w /\ i = OrderOf[serving[w]].id)
      <4>1. processed'[v][i] = processed[v][i]
        BY <2>1, <3>2
      <4> QED
        BY <2>3, <4>1
    <3> QED
      BY <3>1, <3>2
  <2> QED
    BY <2>1, <2>2, <2>3 DEF storeVars
<1>8. ASSUME NEW w \in Process, Execute(w)
      PROVE  Kept
  <2>1. /\ serving[w] \in Remaining /\ serving[w] \in Purchase
        /\ processed' = processed
        /\ \E granted \in BOOLEAN : RunCommand(serving[w], granted)
    BY <1>3, <1>8 DEF Execute
  <2>2. Bought' \subseteq Bought \cup {serving[w]}
    BY <2>1 DEF Bought, RunCommand, IncrBounded, SetSeatNX
  <2> QED
    BY <2>1, <2>2
<1> QED
  BY <1>2, <1>4, <1>5, <1>6, <1>7, <1>8 DEF Underneath, Work, Handle, Fault

(* Everything is quiet if the reset finds the system drained.              *)
LEMMA DrainedIsQuiet ==
    ASSUME TypeOK, Drained
    PROVE  \A m \in Purchase : Quiet(m)
  BY DEF Drained, Quiet

(* What the variables of the series may be.                                *)
LEMMA RunsTypeStep ==
    ASSUME RunsTypeOK, [RunsNext]_<<vars, runVars>>
    PROVE  RunsTypeOK'
<1> USE DEF RunsTypeOK
<1>1. CASE UNCHANGED runVars
  BY <1>1 DEF runVars, resetVars
<1>2. CASE Flush \/ FlushFails
  BY <1>2 DEF Flush, FlushFails, BeginReset, Drained, Remaining
<1>3. CASE \E w \in Process : RestartWorker(w)
  BY <1>3 DEF RestartWorker
<1>4. CASE BeginRun \/ AllSent
  BY <1>4 DEF BeginRun, AllSent, resetVars
<1>5. CASE AbandonRun \/ EndRun
  BY <1>5 DEF AbandonRun, EndRun, NextRun, resetVars
<1>6. CASE Collect
  <2>1. PICK m \in Purchase, s \in Status : results' = [results EXCEPT ![run][m] = One(@, s)]
    BY <1>6 DEF Collect
  <2>2. One(results[run][m], s) \in [Status -> Nat]
    BY DEF One
  <2> QED
    BY <1>6, <2>1, <2>2 DEF Collect, resetVars
<1> QED
  BY <1>1, <1>2, <1>3, <1>4, <1>5, <1>6 DEF RunsNext, Script, Underneath, Send

(* A step of the queue leaves what is quiet in peace, unless the script    *)
(* publishes it; the flush and a drained system make everything quiet.     *)
LEMMA QuietStep ==
    ASSUME TypeOK, WorkersOK, RunsTypeOK, OthersQuiet, NotBegun, RunsNext
    PROVE  OthersQuiet'
<1> USE DEF RunsTypeOK
<1>1. ASSUME run' = run, drained' = drained, Next, results' = results,
             \A m \in Purchase : RunOf[m] # run => published'[m] = published[m]
      PROVE  OthersQuiet'
  BY <1>1, QuietStays DEF OthersQuiet
<1>2. CASE Underneath
  BY <1>1, <1>2, UnderneathPublishesNothing DEF Underneath, runVars
<1>3. ASSUME NEW n \in Purchase, Send(n)
      PROVE  OthersQuiet'
  <2>1. Next
    BY <1>3 DEF Send, Next
  <2>2. \A m \in Purchase : RunOf[m] # run => published'[m] = published[m]
    BY <1>3 DEF Send, Workload, Publish, One, TypeOK
  <2> QED
    BY <1>1, <1>3, <2>1, <2>2 DEF Send, runVars
<1>4. CASE Flush \/ FlushFails
  <2>1. CASE Drained
    <3>1. \A m \in Purchase : Quiet(m)
      BY <2>1, DrainedIsQuiet
    <3>2. \A m \in Purchase : Quiet(m)'
      BY <1>4, <3>1, QuietKept DEF Flush, FlushFails, BeginReset, workerVars, queueVars
    <3> QED
      BY <3>2 DEF OthersQuiet
  <2>2. CASE ~Drained
    <3>1. ~drained'[run] /\ run' = run
      BY <1>4, <2>2 DEF Flush, FlushFails, BeginReset
    <3> QED
      BY <3>1 DEF OthersQuiet
  <2> QED
    BY <2>1, <2>2
<1>5. ASSUME NEW w \in Process, RestartWorker(w)
      PROVE  OthersQuiet'
  BY <1>5, QuietRestart DEF OthersQuiet, RestartWorker
<1>6. ASSUME run' = run, drained' = drained, results' = results,
             UNCHANGED <<ready, serving, responses>>
      PROVE  OthersQuiet'
  BY <1>6, QuietKept DEF OthersQuiet
<1>7. CASE BeginRun \/ AllSent
  BY <1>6, <1>7 DEF BeginRun, AllSent, vars, workerVars, queueVars
<1>8. CASE AbandonRun \/ EndRun
  <2>1. /\ UNCHANGED <<ready, serving, responses, results, drained>>
        /\ NextRun
    BY <1>8 DEF AbandonRun, EndRun, vars, workerVars, queueVars
  <2>2. CASE run < Runs
    <3>1. run' = run + 1 /\ run + 1 \in 1..Runs /\ run + 1 > run
      BY <2>1, <2>2 DEF NextRun
    <3>2. ~drained[run + 1]
      BY <3>1 DEF NotBegun
    <3> QED
      BY <2>1, <3>1, <3>2 DEF OthersQuiet
  <2>3. CASE ~(run < Runs)
    <3>1. run' = run
      BY <2>1, <2>3 DEF NextRun
    <3> QED
      BY <1>6, <2>1, <3>1
  <2> QED
    BY <2>2, <2>3
<1>9. CASE Collect
  <2>1. PICK n \in Purchase, s \in Status :
          Taken(n, s) < responses[n][s] /\ results' = [results EXCEPT ![run][n] = One(@, s)]
    BY <1>9 DEF Collect
  <2>2. run' = run /\ drained' = drained /\ UNCHANGED <<ready, serving, responses>>
    BY <1>9 DEF Collect, vars, workerVars, queueVars
  <2>3. ASSUME drained[run], NEW m \in Purchase, RunOf[m] # run
        PROVE  Quiet(m)'
    <3>1. Quiet(m)
      BY <2>3 DEF OthersQuiet
    <3>2. m # n
      <4>1. responses[m][s] \in Nat
        BY DEF TypeOK
      <4> QED
        BY <2>1, <3>1, <4>1 DEF Quiet
    <3>3. \A k \in 1..Runs : results'[k][m] = results[k][m]
      BY <2>1, <3>2
    <3> QED
      BY <2>2, <3>1, <3>3, QuietKept
  <2> QED
    BY <2>2, <2>3 DEF OthersQuiet
<1> QED
  BY <1>2, <1>3, <1>4, <1>5, <1>7, <1>8, <1>9 DEF RunsNext, Script

(* A run gets results only in its turn, and in a drained one only of its   *)
(* own messages: of the others nothing is there to collect.                *)
LEMMA ResultsStep ==
    ASSUME TypeOK, RunsTypeOK, NotBegun, OthersQuiet, OwnResponses, RunsNext
    PROVE  NotBegun' /\ OwnResponses'
<1> USE DEF RunsTypeOK
<1>1. ASSUME UNCHANGED <<run, results, drained>>, step = "flush" \/ step' # "flush",
             step \in {"flush", "restart", "publish"}
                 \/ step' \notin {"flush", "restart", "publish"}
      PROVE  NotBegun' /\ OwnResponses'
  <2>1. NotBegun'
    BY <1>1 DEF NotBegun
  <2>2. OwnResponses'
    BY <1>1 DEF OwnResponses
  <2> QED
    BY <2>1, <2>2
<1>2. CASE Underneath \/ \E n \in Purchase : Send(n)
  BY <1>1, <1>2 DEF Underneath, Send, runVars
<1>3. CASE \/ \E w \in Process : RestartWorker(w)
           \/ BeginRun \/ AllSent
  BY <1>1, <1>3 DEF RestartWorker, BeginRun, AllSent
<1>4. CASE Flush \/ FlushFails
  <2>1. /\ run' = run /\ results' = results /\ step = "flush" /\ step' = "restart"
        /\ \A k \in 1..Runs : k # run => drained'[k] = drained[k]
    BY <1>4 DEF Flush, FlushFails, BeginReset
  <2>2. NotBegun'
    BY <2>1 DEF NotBegun
  <2>3. \A m \in Purchase, s \in Status : results[run][m][s] = 0
    BY <2>1 DEF NotBegun
  <2>4. OwnResponses'
    <3> SUFFICES ASSUME NEW k \in 1..Runs, drained'[k], NEW m \in Purchase, NEW s \in Status,
                        results[k][m][s] > 0
                 PROVE  RunOf[m] = k
      BY <2>1 DEF OwnResponses
    <3>1. k # run
      BY <2>3
    <3> QED
      BY <2>1, <3>1 DEF OwnResponses
  <2> QED
    BY <2>2, <2>4
<1>5. CASE AbandonRun \/ EndRun
  <2>1. UNCHANGED <<results, drained>> /\ NextRun
    BY <1>5 DEF AbandonRun, EndRun
  <2>2. OwnResponses'
    BY <2>1 DEF OwnResponses
  <2>3. CASE run < Runs
    <3>1. run' = run + 1
      BY <2>1, <2>3 DEF NextRun
    <3>2. \A k \in 1..Runs : k > run' \/ k = run' => k > run
      BY <3>1
    <3>3. NotBegun'
      BY <2>1, <3>2 DEF NotBegun
    <3> QED
      BY <2>2, <3>3
  <2>4. CASE ~(run < Runs)
    <3>1. run' = run /\ step' = "over"
      BY <2>1, <2>4 DEF NextRun
    <3>2. NotBegun'
      BY <2>1, <3>1 DEF NotBegun
    <3> QED
      BY <2>2, <3>2
  <2> QED
    BY <2>2, <2>3, <2>4
<1>6. CASE Collect
  <2>1. PICK n \in Purchase, s \in Status :
          Taken(n, s) < responses[n][s] /\ results' = [results EXCEPT ![run][n] = One(@, s)]
    BY <1>6 DEF Collect
  <2>2. step = "collect" /\ UNCHANGED <<run, step, drained>>
    BY <1>6 DEF Collect
  <2>3. drained[run] => RunOf[n] = run
    <3>1. responses[n][s] \in Nat
      BY DEF TypeOK
    <3> QED
      BY <2>1, <3>1 DEF OthersQuiet, Quiet
  <2>4. \A k \in 1..Runs : \A m \in Purchase :
            k # run \/ m # n => results'[k][m] = results[k][m]
    BY <2>1
  <2>5. NotBegun'
    <3>1. ASSUME NEW k \in 1..Runs, k > run
          PROVE  ~drained[k] /\ \A m \in Purchase, t \in Status : results'[k][m][t] = 0
      <4>1. k # run
        BY <3>1
      <4>2. ~drained[k] /\ \A m \in Purchase, t \in Status : results[k][m][t] = 0
        BY <3>1 DEF NotBegun
      <4> QED
        BY <2>4, <4>1, <4>2
    <3> QED
      BY <2>2, <3>1 DEF NotBegun
  <2>6. OwnResponses'
    <3> SUFFICES ASSUME NEW k \in 1..Runs, drained[k], NEW m \in Purchase, NEW t \in Status,
                        results'[k][m][t] > 0
                 PROVE  RunOf[m] = k
      BY <2>2 DEF OwnResponses
    <3>1. CASE k # run \/ m # n
      BY <2>4, <3>1 DEF OwnResponses
    <3>2. CASE k = run /\ m = n
      BY <2>3, <3>2
    <3> QED
      BY <3>1, <3>2
  <2> QED
    BY <2>5, <2>6
<1> QED
  BY <1>2, <1>3, <1>4, <1>5, <1>6 DEF RunsNext, Script

(* While the workers are restarted, nothing comes to the messages the reset*)
(* found, and what is sold and cached is theirs.                           *)
LEMMA FreshStep ==
    ASSUME TypeOK, WorkersOK, RunsTypeOK, FreshStart, RunsNext
    PROVE  FreshStart'
<1> DEFINE CachesOK == \A w \in restarted, i \in Ids :
                          processed[w][i] # NoResponse => \E m \in leftover : OrderOf[m].id = i
<1> USE DEF RunsTypeOK
<1>1. CASE Flush \/ FlushFails
  <2>1. Remaining' = Remaining /\ leftover' = Remaining /\ restarted' = {}
    BY <1>1 DEF Flush, FlushFails, BeginReset, Remaining, workerVars, queueVars
  <2>2. emptied' => Bought' = {} /\ count' = 0
    BY <1>1 DEF Flush, FlushFails, Bought
  <2> QED
    BY <2>1, <2>2 DEF FreshStart
<1>2. CASE Underneath /\ step = "restart"
  <2>1. UNCHANGED <<restarted, emptied, leftover>>
    BY <1>2 DEF Underneath, runVars, resetVars
  <2>2. /\ Remaining \subseteq leftover /\ CachesOK
        /\ emptied => Bought \subseteq leftover /\ (leftover = {} => count = 0)
    BY <1>2 DEF FreshStart
  <2>3. Remaining' \subseteq Remaining
    BY <1>2, UnderneathPublishesNothing, RemainingShrinks
  <2>4. emptied' => Bought' \subseteq leftover' /\ (leftover' = {} => count' = 0)
    <3>1. leftover = {} => Remaining = {}
      BY <2>2
    <3> QED
      BY <1>2, <2>1, <2>2, <3>1, SalesForRemaining
  <2>5. CachesOK'
    <3> SUFFICES ASSUME NEW w \in restarted, NEW i \in Ids, processed'[w][i] # NoResponse
                 PROVE  \E m \in leftover : OrderOf[m].id = i
      BY <2>1
    <3>1. processed[w][i] # NoResponse \/ \E m \in Remaining : OrderOf[m].id = i
      BY <1>2, SalesForRemaining
    <3> QED
      BY <2>2, <3>1
  <2> QED
    BY <2>1, <2>2, <2>3, <2>4, <2>5 DEF FreshStart
<1>3. ASSUME NEW w \in Process, RestartWorker(w)
      PROVE  FreshStart'
  <2>1. /\ step = "restart" /\ restarted' = restarted \cup {w}
        /\ UNCHANGED <<storeVars, emptied, leftover>>
        /\ Requeue(w) /\ End(w)
    BY <1>3 DEF RestartWorker
  <2>2. /\ Remaining \subseteq leftover /\ CachesOK
        /\ emptied => Bought \subseteq leftover /\ (leftover = {} => count = 0)
    BY <2>1 DEF FreshStart
  <2>3. Remaining' \subseteq Remaining
    BY <2>1 DEF Requeue, One, End, Remaining, TypeOK
  <2>4. Bought' = Bought /\ count' = count
    BY <2>1 DEF Bought, storeVars
  <2>5. CachesOK'
    <3> SUFFICES ASSUME NEW v \in restarted \cup {w}, NEW i \in Ids, processed'[v][i] # NoResponse
                 PROVE  \E m \in leftover : OrderOf[m].id = i
      BY <2>1
    <3>1. v # w
      BY <2>1 DEF End, Forget, EmptyCache, TypeOK, BackendTypeOK
    <3>2. processed'[v] = processed[v]
      BY <2>1, <3>1 DEF End, Forget, TypeOK, BackendTypeOK
    <3> QED
      BY <2>2, <3>1, <3>2
  <2> QED
    BY <2>1, <2>2, <2>3, <2>4, <2>5 DEF FreshStart
<1>4. ASSUME step' # "restart" PROVE FreshStart'
  BY <1>4 DEF FreshStart
<1>5. CASE BeginRun \/ AllSent \/ AbandonRun \/ Collect \/ EndRun \/ \E m \in Purchase : Send(m)
  <2>1. step' # "restart"
    BY <1>5 DEF BeginRun, AllSent, AbandonRun, Collect, EndRun, NextRun, Send, runVars
  <2> QED
    BY <1>4, <2>1
<1>6. CASE Underneath /\ step # "restart"
  BY <1>4, <1>6 DEF Underneath, runVars
<1> QED
  BY <1>1, <1>2, <1>3, <1>5, <1>6 DEF RunsNext, Script

(* Stuttering keeps what steps keep.                                       *)
LEMMA RunsStutter ==
    ASSUME RunsInv, UNCHANGED <<vars, runVars>>
    PROVE  RunsInv'
<1> USE DEF RunsInv, vars, runVars, resetVars, storeVars, workerVars, queueVars
<1>1. \A m \in Purchase : Quiet(m) => Quiet(m)'
  BY QuietKept
<1>2. RunsTypeOK' /\ NotBegun' /\ OwnResponses'
  BY DEF RunsTypeOK, NotBegun, OwnResponses
<1>3. OthersQuiet' /\ FreshStart'
  BY <1>1 DEF OthersQuiet, FreshStart, Remaining, Bought
<1> QED
  BY <1>2, <1>3

-----------------------------------------------------------------------------
(* IndirectRuns: the theorems                                              *)

(* The invariant of the series, with the types of the queue below it.      *)
THEOREM RunsInvariant == RunsSpec => [](TypeOK /\ WorkersOK /\ RunsInv)
<1>1. RunsInit => TypeOK /\ WorkersOK /\ RunsInv
  <2> SUFFICES ASSUME RunsInit
               PROVE  TypeOK /\ WorkersOK /\ RunsInv
    OBVIOUS
  <2>1. TypeOK /\ WorkersOK
    BY TypeInit, WorkersInit DEF RunsInit
  <2>2. RunsTypeOK
    <3>1. /\ run = 1 /\ step = "flush" /\ restarted = {} /\ leftover = {} /\ emptied = FALSE
          /\ results = [k \in 1..Runs |-> [m \in Purchase |-> [s \in Status |-> 0]]]
          /\ drained = [k \in 1..Runs |-> FALSE]
      BY DEF RunsInit
    <3>2. /\ results \in [1..Runs -> [Purchase -> [Status -> Nat]]]
          /\ drained \in [1..Runs -> BOOLEAN]
      BY <3>1
    <3>3. run \in 1..Runs
      BY <3>1
    <3>4. restarted \in SUBSET Process /\ leftover \in SUBSET Purchase
      BY <3>1
    <3> QED
      BY <3>1, <3>2, <3>3, <3>4 DEF RunsTypeOK
  <2>3. NotBegun /\ OthersQuiet /\ FreshStart /\ OwnResponses
    BY DEF RunsInit, NotBegun, OthersQuiet, FreshStart, OwnResponses
  <2> QED
    BY <2>1, <2>2, <2>3 DEF RunsInv
<1>2. TypeOK /\ WorkersOK /\ RunsInv /\ [RunsNext]_<<vars, runVars>>
        => TypeOK' /\ WorkersOK' /\ RunsInv'
  BY RunsTypes, RunsTypeStep, QuietStep, ResultsStep, FreshStep, RunsStutter DEF RunsInv
<1> QED
  BY <1>1, <1>2, PTL DEF RunsSpec

(* A run that began drained collects responses to its own messages only.   *)
THEOREM OwnResponsesOnly == RunsSpec => []OwnResponses
<1>1. RunsInv => OwnResponses
  BY DEF RunsInv
<1> QED
  BY <1>1, RunsInvariant, PTL

(* However much of its reset failed, a run starts with sales and cached    *)
(* responses of messages that the reset found there, as far as the store   *)
(* was emptied and the workers were restarted.                             *)
THEOREM RunsStartFresh == RunsSpec => []FreshStart
<1>1. RunsInv => FreshStart
  BY DEF RunsInv
<1> QED
  BY <1>1, RunsInvariant, PTL
=============================================================================
