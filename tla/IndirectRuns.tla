---------------------------- MODULE IndirectRuns ----------------------------
(***************************************************************************)
(* A series of benchmark runs against the queue variant, as                *)
(* run_all_benchmarks.sh drives it on one machine: reset_indirect_state,   *)
(* then IndirectBenchmark, which publishes every message of the workload   *)
(* and collects as many responses as it published, or gives up waiting.    *)
(* The workload has the same request ids in each run.  Workers, queues and *)
(* store are those of IndirectQueue and go on underneath.                  *)
(***************************************************************************)
EXTENDS IndirectQueue
LOCAL INSTANCE FiniteSetsExt

CONSTANTS Runs,   \* how many runs the script makes
          RunOf   \* the run each message is published in

ASSUME RunsAssumption == Runs \in Nat \ {0} /\ RunOf \in [Purchase -> 1..Runs]

VARIABLES
    run,        \* the current run
    step,       \* what the script does in it
    restarted,  \* the workers this reset has restarted
    results,    \* the responses each run collected
    drained,    \* each run's reset found no copy and no response left over
    emptied,    \* history: this reset has emptied Redis
    leftover    \* history: the messages it found in the queue or at a worker

resetVars == <<restarted, emptied, leftover>>
runVars == <<run, step, resetVars, results, drained>>

RunsInit == /\ Init
            /\ run = 1
            /\ step = "flush"
            /\ restarted = {}
            /\ results = [k \in 1..Runs |-> [m \in Purchase |-> [s \in Status |-> 0]]]
            /\ drained = [k \in 1..Runs |-> FALSE]
            /\ emptied = FALSE
            /\ leftover = {}

Workload == {m \in Purchase : RunOf[m] = run}

-----------------------------------------------------------------------------
(* reset_indirect_state *)

Total(f) == MapThenSumSet(LAMBDA k : f[k], DOMAIN f)

Taken(m, s) == Total([k \in 1..Runs |-> results[k][m][s]])

Drained == \A m \in Purchase : /\ ready[m] = 0
                               /\ \A w \in Process : serving[w] # m
                               /\ \A s \in Status : Taken(m, s) = responses[m][s]

Remaining == {m \in Purchase : ready[m] > 0 \/ \E w \in Process : serving[w] = m}

(* For whom Redis counts a ticket or holds a seat.                         *)
Bought == buyers \cup ({owner[s] : s \in Seats} \ {Nobody})

BeginReset == /\ step = "flush"
              /\ drained' = [drained EXCEPT ![run] = Drained]
              /\ leftover' = Remaining
              /\ step' = "restart"
              /\ restarted' = {}
              /\ UNCHANGED <<processed, workerVars, queueVars, interrupted, faults, run, results>>

(* Slip: redis-cli without FLUSHDB.                                        *)
SkipFlush == /\ BeginReset
             /\ emptied' = TRUE
             /\ UNCHANGED storeVars

(* redis-cli FLUSHDB.  The purge that follows declares and empties two     *)
(* queues of other names, so ticket_purchases and ticket_responses keep    *)
(* what they hold.                                                         *)
Flush == /\ BeginReset
         /\ emptied' = TRUE
         /\ count' = 0
         /\ buyers' = {}
         /\ owner' = [s \in Seats |-> Nobody]
         /\ voided' = voided \cup Bought

(* Redis is remote, or docker fails; nobody looks at it (set -e is off in  *)
(* what runs left of ||).                                                  *)
FlushFails == /\ BeginReset
              /\ emptied' = FALSE
              /\ UNCHANGED storeVars

(* docker compose restart worker: SIGTERM, wherever the handler is.        *)
RestartWorker(w) == /\ step = "restart" /\ w \notin restarted
                    /\ restarted' = restarted \cup {w}
                    /\ Requeue(w)
                    /\ interrupted' = IF Untold(w) THEN interrupted \cup {serving[w]}
                                                   ELSE interrupted
                    /\ End(w)
                    /\ UNCHANGED <<storeVars, published, acked, dead, responses, faults,
                                   run, step, emptied, leftover, results, drained>>

(* The run begins, whichever workers were restarted: the restart may fail, *)
(* and is left out when the workers are remote.                            *)
BeginRun == /\ step = "restart"
            /\ step' = "publish"
            /\ restarted' = {}
            /\ emptied' = FALSE
            /\ leftover' = {}
            /\ UNCHANGED <<vars, run, results, drained>>

-----------------------------------------------------------------------------
(* IndirectBenchmark.run_benchmark *)

(* One of the pool's threads publishes a message.                          *)
Send(m) == /\ step = "publish" /\ m \in Workload
           /\ published[m] = 0
           /\ Publish(m)
           /\ UNCHANGED runVars

AllSent == /\ step = "publish"
           /\ \A m \in Workload : published[m] > 0
           /\ step' = "collect"
           /\ UNCHANGED <<vars, run, resetVars, results, drained>>

(* The run is over: the next one begins with its reset.                    *)
NextRun == /\ run' = IF run < Runs THEN run + 1 ELSE run
           /\ step' = IF run < Runs THEN "flush" ELSE "over"

(* A publish raises: the run fails, and the script goes on.                *)
AbandonRun == /\ step = "publish"
              /\ faults < MaxFaults
              /\ faults' = faults + 1
              /\ NextRun
              /\ UNCHANGED <<storeVars, processed, workerVars, queueVars, interrupted,
                             resetVars, results, drained>>

Collected == MapThenSumSet(LAMBDA ms : results[run][ms[1]][ms[2]], Purchase \X Status)

(* Slip: auto_ack=False, so that a response is back once the run is over.  *)
CollectWithoutAck == /\ step = "collect" /\ Collected < Cardinality(Workload)
                     /\ \E m \in Purchase, s \in Status :
                           /\ results[run][m][s] < responses[m][s]
                           /\ results' = [results EXCEPT ![run][m] = One(@, s)]
                     /\ UNCHANGED <<vars, run, step, resetVars, drained>>

(* basic_get with auto_ack of a response from ticket_responses.            *)
Collect == /\ step = "collect" /\ Collected < Cardinality(Workload)
           /\ \E m \in Purchase, s \in Status :
                 /\ Taken(m, s) < responses[m][s]
                 /\ results' = [results EXCEPT ![run][m] = One(@, s)]
           /\ UNCHANGED <<vars, run, step, resetVars, drained>>

(* All responses are there, or wait_timeout is over.                       *)
EndRun == /\ step = "collect"
          /\ NextRun
          /\ UNCHANGED <<vars, resetVars, results, drained>>

-----------------------------------------------------------------------------
Script == \/ Flush
          \/ FlushFails
          \/ \E w \in Process : RestartWorker(w)
          \/ BeginRun
          \/ \E m \in Purchase : Send(m)
          \/ AllSent
          \/ AbandonRun
          \/ Collect
          \/ EndRun

Underneath == /\ \/ \E m \in Purchase : Expire(m)
                 \/ \E w \in Process : Work(w) \/ Fault(w)
              /\ UNCHANGED runVars

RunsNext == Script \/ Underneath

RunsSpec == RunsInit /\ [][RunsNext]_<<vars, runVars>>

-----------------------------------------------------------------------------
(* Properties *)

(* The reset flushes the store before it restarts the workers, which may   *)
(* sell in between (run_all_benchmarks.sh:161-193), and ignores what fails.*)
(* All the same, up to the start of the run only the messages it found in  *)
(* the queue or at a worker are still there; if the flush succeeded, what  *)
(* Redis has sold is theirs, nothing when there were none; and a worker    *)
(* that was restarted remembers their request ids only.                    *)
FreshStart ==
    step = "restart" =>
        /\ Remaining \subseteq leftover
        /\ emptied => /\ Bought \subseteq leftover
                      /\ leftover = {} => count = 0
        /\ \A w \in restarted, i \in Ids :
              processed[w][i] # NoResponse => \E m \in leftover : OrderOf[m].id = i

(* A run whose reset found the system drained collects the responses to    *)
(* its own messages only, whether the reset succeeded or not.              *)
OwnResponses ==
    \A k \in 1..Runs : drained[k] =>
        \A m \in Purchase, s \in Status : results[k][m][s] > 0 => RunOf[m] = k

(* run_all_benchmarks.sh:164: the reset purges the purchase and response   *)
(* queues "to avoid cross-run contamination".                              *)
NoContamination ==
    \A k \in 1..Runs, m \in Purchase, s \in Status :
        results[k][m][s] > 0 => RunOf[m] = k
=============================================================================
