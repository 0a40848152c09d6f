----------------------------- MODULE WorkerPool -----------------------------
(***************************************************************************)
(* The two ways a container runs its workers.  With --workers 1 the        *)
(* process is the worker and is restarted when it ends.  Otherwise it is a *)
(* WorkerPool: one daemon thread for each worker in one process.  A thread *)
(* that ends is not replaced, remove_worker and stop_all stop threads that *)
(* are still at work, and a signal, which the handler of the last worker   *)
(* answers with sys.exit, ends all of them at once.                        *)
(***************************************************************************)
EXTENDS IndirectQueue

ASSUME NumberedAssumption == Process \subseteq Nat /\ Nobody \notin Process

VARIABLES
    pooled,      \* the workers are threads of one WorkerPool
    life,        \* what the thread of each worker does
    registered,  \* the keys of workers
    adding,      \* the worker whose thread add_worker has started
    removing,    \* the worker each caller has taken out and not yet stopped
    sweep,       \* what stop_all does
    listed       \* the ids it listed

callVars == <<registered, adding, removing, sweep, listed>>
poolVars == <<pooled, life, callVars>>
allVars  == <<vars, poolVars>>

Caller == {"remove_worker", "stop_all"}

(* A worker stopped before start() connected is doomed; if it connects     *)
(* nevertheless it is astray.                                              *)
Life == {"none", "starting", "doomed", "consuming", "astray", "stopping", "ended"}

PoolInit == /\ pooled \in BOOLEAN
            /\ StartWith(IF pooled THEN {} ELSE Process)
            /\ life = [w \in Process |-> "none"]
            /\ registered = {}
            /\ adding = Nobody
            /\ removing = [c \in Caller |-> Nobody]
            /\ sweep = "none"
            /\ listed = {}

Becomes(w, stage) == life' = [life EXCEPT ![w] = stage]

-----------------------------------------------------------------------------
(* add_worker *)

(* _next_id, taken under the lock; then the thread starts.                 *)
NextId(w) == life[w] = "none" /\ \A v \in Process : v < w => life[v] # "none"

StartThread(w) == /\ pooled
                  /\ adding = Nobody /\ NextId(w)
                  /\ adding' = w
                  /\ Becomes(w, "starting")
                  /\ UNCHANGED <<vars, pooled, registered, removing, sweep, listed>>

Register == /\ adding # Nobody
            /\ registered' = registered \cup {adding}
            /\ adding' = Nobody
            /\ UNCHANGED <<vars, pooled, life, removing, sweep, listed>>

-----------------------------------------------------------------------------
(* The thread: IndirectWorker.start *)

(* connect, then basic_consume: nothing asks whether stop() came before.   *)
Connect(w) == /\ life[w] \in {"starting", "doomed"}
              /\ Restart(w)
              /\ Becomes(w, IF life[w] = "doomed" THEN "astray" ELSE "consuming")
              /\ UNCHANGED <<pooled, callVars>>

ConnectRaises(w) == /\ life[w] \in {"starting", "doomed"}
                    /\ faults < MaxFaults
                    /\ faults' = faults + 1
                    /\ Becomes(w, "ended")
                    /\ UNCHANGED <<storeVars, processed, workerVars, queueVars, interrupted,
                                   pooled, callVars>>

AtWork(w) == life[w] \in {"consuming", "astray", "stopping"}

(* A thread whose worker went off has ended.                               *)
Follow(w) == /\ IF pc'[w] = "off" THEN Becomes(w, "ended") ELSE UNCHANGED life
             /\ UNCHANGED <<pooled, callVars>>

Consume(w) == AtWork(w) /\ Handle(w) /\ Follow(w)

-----------------------------------------------------------------------------
(* remove_worker and stop_all *)

(* The worker leaves the registry under the lock; stop() follows outside.  *)
Take(c, w) == /\ removing[c] = Nobody
              /\ w \in registered
              /\ registered' = registered \ {w}
              /\ removing' = [removing EXCEPT ![c] = w]
              /\ UNCHANGED <<vars, pooled, life, adding, sweep, listed>>

RemoveWorker(w) == Take("remove_worker", w)

ListWorkers == /\ pooled /\ sweep = "none"
               /\ sweep' = "removing"
               /\ listed' = registered
               /\ UNCHANGED <<vars, pooled, life, registered, adding, removing>>

(* An id that another caller removed first is skipped with a warning.      *)
RemoveNext(w) == sweep = "removing" /\ w \in listed /\ Take("stop_all", w)

StopAllReturns == /\ sweep = "removing"
                  /\ listed \cap registered = {} /\ removing["stop_all"] = Nobody
                  /\ sweep' = "returned"
                  /\ UNCHANGED <<vars, pooled, life, registered, adding, removing, listed>>

(* Slip: the channel is left to the consumer, which blocks in it.          *)
StopLater(c) ==
    LET w == removing[c]
    IN  /\ w # Nobody
        /\ removing' = [removing EXCEPT ![c] = Nobody]
        /\ UNCHANGED <<vars, pooled, life, registered, adding, sweep, listed>>

(* stop(): the channel closes under a worker that may be at work; before   *)
(* start() has connected there is nothing to close.                        *)
Stop(c) ==
    LET w == removing[c]
    IN  /\ w # Nobody
        /\ removing' = [removing EXCEPT ![c] = Nobody]
        /\ \/ /\ life[w] = "consuming"
              /\ Becomes(w, "stopping")
              /\ IF linked[w] THEN CloseChannel(w) ELSE UNCHANGED <<vars>>
              /\ UNCHANGED faults
           \/ /\ life[w] = "starting"
              /\ Becomes(w, "doomed")
              /\ UNCHANGED vars
           \/ /\ life[w] = "ended"
              /\ UNCHANGED <<vars, life>>
        /\ UNCHANGED <<pooled, registered, adding, sweep, listed>>

(* stop() closes the Redis connections too: a command under way breaks.    *)
CutRedis(w) == /\ life[w] = "stopping"
               /\ FailCommand(w, TRUE)
               /\ Follow(w)
               /\ UNCHANGED faults

-----------------------------------------------------------------------------
(* Faults *)

BreakThread(w) == /\ AtWork(w)
                  /\ Disconnect(w) \/ BreakRedis(w)
                  /\ Follow(w)

(* SIGTERM, SIGINT or a crash: every thread ends where it is, and the      *)
(* container starts the process again, with a new pool.                    *)
ExitProcess ==
    /\ pooled
    /\ faults < MaxFaults
    /\ faults' = faults + 1
    /\ interrupted' = interrupted \cup {serving[w] : w \in {v \in Process : Untold(v)}}
    /\ ready' = [m \in Purchase |->
                    ready[m] + Cardinality({w \in Process : linked[w] /\ serving[w] = m})]
    /\ pc' = [w \in Process |-> "off"]
    /\ serving' = [w \in Process |-> Nobody]
    /\ reply' = [w \in Process |-> NoResponse]
    /\ tries' = [w \in Process |-> 0]
    /\ linked' = [w \in Process |-> FALSE]
    /\ processed' = [w \in Process |-> EmptyCache]
    /\ life' = [w \in Process |-> "none"]
    /\ registered' = {}
    /\ adding' = Nobody
    /\ removing' = [c \in Caller |-> Nobody]
    /\ sweep' = "none"
    /\ listed' = {}
    /\ UNCHANGED <<storeVars, published, acked, dead, responses, pooled>>

-----------------------------------------------------------------------------
Thread(w) == Connect(w) \/ Consume(w)

Call == \/ Register
        \/ \E w \in Process : StartThread(w) \/ RemoveNext(w)
        \/ \E c \in Caller : Stop(c)
        \/ StopAllReturns

Alone(w) == ~pooled /\ Work(w) /\ UNCHANGED poolVars

PoolNext == \/ Call
            \/ ListWorkers
            \/ \E w \in Process : \/ Thread(w) \/ ConnectRaises(w)
                                  \/ RemoveWorker(w)
                                  \/ CutRedis(w)
                                  \/ BreakThread(w)
                                  \/ Alone(w)
                                  \/ ~pooled /\ Fault(w) /\ UNCHANGED poolVars
            \/ ExitProcess
            \/ \E m \in Purchase : (Publish(m) \/ Expire(m)) /\ UNCHANGED poolVars

(* Threads and callers run on; nothing makes anyone stop a worker, publish *)
(* or fail.                                                                *)
PoolSpec == /\ PoolInit /\ [][PoolNext]_allVars
            /\ \A w \in Process : WF_allVars(Alone(w) \/ Thread(w))
            /\ WF_allVars(Call)

-----------------------------------------------------------------------------
(* Properties *)

(* When stop_all has returned, no worker it listed consumes, unless start()*)
(* connects only now (astray) or another caller is about to stop it        *)
(* (stop_all of WorkerPool, and remove_worker at the same time).           *)
StopAllStops ==
    sweep = "returned" =>
        \A w \in listed : life[w] = "consuming" => removing["remove_worker"] = w

Settled == \A m \in Purchase : acked[m] + dead[m] = published[m]

(* While some thread of a pool still consumes, and always if the workers   *)
(* are alone and restarted, whatever is published gets acknowledged or     *)
(* dead-lettered: what stopped, ended or killed threads had in hand comes  *)
(* back, and nothing circulates (requeue=False in _process_message).       *)
PoolSettles ==
    (pooled => <>[](\E w \in Process : life[w] = "consuming")) => []<>Settled
=============================================================================
