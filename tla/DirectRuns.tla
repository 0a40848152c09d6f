----------------------------- MODULE DirectRuns -----------------------------
(***************************************************************************)
(* A series of benchmark runs against the REST variant, as                 *)
(* run_all_benchmarks.sh drives it: reset_direct_state, then BenchmarkRunner*)
(* with its pool of client threads.  Both workload files have the same     *)
(* request ids, and so has each run.  Replicas and store are those of      *)
(* DirectApi and go on underneath: a call its client gave up is still      *)
(* served.                                                                 *)
(***************************************************************************)
EXTENDS DirectApi

CONSTANTS Runs,     \* how many runs the script makes
          RunOf,    \* the run each call belongs to
          Threads,  \* concurrent_clients
          Retries   \* how often reset_direct_state tries POST /reset

ASSUME RunsAssumption == /\ Runs \in Nat \ {0} /\ Threads \in Nat \ {0} /\ Retries \in Nat
                         /\ RunOf \in [Purchase -> 1..Runs] /\ Nobody \notin Process

VARIABLES
    run,       \* the current run
    step,      \* what the script does in it
    attempt,   \* how many resets failed
    resetAt,   \* the replica that handles the script's reset
    cleared,   \* the replica whose cache the run's reset cleared
    clean,     \* the reset of this run emptied Redis and nothing was under way
    received   \* what _send_request returned for each call

runVars == <<run, step, attempt, resetAt, cleared, clean, received>>

RunsInit == /\ Init
            /\ run = 1
            /\ step = "reset"
            /\ attempt = 0
            /\ resetAt = Nobody
            /\ cleared = Nobody
            /\ clean = FALSE
            /\ received = [c \in Purchase |-> "waiting"]

Workload == {c \in Purchase : RunOf[c] = run}

NothingUnderWay == \A c \in Purchase : stage[c] \in {"unsent", "done"}

-----------------------------------------------------------------------------
(* reset_direct_state *)

(* Slip: curl in the background.                                           *)
PostResetAndGo(r) == /\ step = "reset" /\ resetAt = Nobody
                     /\ attempt < Retries
                     /\ BeginReset(r)
                     /\ step' = "run"
                     /\ clean' = NothingUnderWay
                     /\ UNCHANGED <<run, attempt, resetAt, cleared, received>>

(* curl -X POST /reset; the load balancer picks a replica.                 *)
PostReset(r) == /\ step = "reset" /\ resetAt = Nobody
                /\ attempt < Retries
                /\ BeginReset(r)
                /\ resetAt' = r
                /\ clean' = NothingUnderWay
                /\ UNCHANGED <<run, step, attempt, cleared, received>>

ResetRefused(r) == /\ step = "reset" /\ resetAt = Nobody
                   /\ attempt < Retries
                   /\ ~up[r]
                   /\ attempt' = attempt + 1
                   /\ UNCHANGED <<vars, run, step, resetAt, cleared, clean, received>>

(* The script sees the reset of replica r end: HTTP 200, or an error.      *)
Watch(r) ==
    IF resetAt = r /\ pc'[r] = "idle"
    THEN /\ resetAt' = Nobody
         /\ \/ /\ ResetReturns(r)
               /\ step' = "run"
               /\ cleared' = r
               /\ UNCHANGED <<run, attempt, clean, received>>
            \/ /\ ~ResetReturns(r)
               /\ attempt' = attempt + 1
               /\ UNCHANGED <<run, step, cleared, clean, received>>
    ELSE UNCHANGED runVars

(* Every attempt failed: redis-cli FLUSHDB, or nothing when Redis is remote.*)
FallBack == /\ step = "reset" /\ attempt = Retries
            /\ \/ /\ count' = 0
                  /\ buyers' = {}
                  /\ owner' = [s \in Seats |-> Nobody]
                  /\ voided' = voided \cup buyers \cup ({owner[s] : s \in Seats} \ {Nobody})
                  /\ clean' = NothingUnderWay
               \/ UNCHANGED storeVars /\ clean' = FALSE
            /\ step' = "run"
            /\ UNCHANGED <<processed, replicaVars, callVars, auxVars, boundVars, run, attempt,
                           resetAt, cleared, received>>

-----------------------------------------------------------------------------
(* BenchmarkRunner.run_benchmark *)

Open == {c \in Purchase : received[c] = "open"}

Take(c) == /\ step = "run" /\ c \in Workload
           /\ received[c] = "waiting"
           /\ Cardinality(Open) < Threads

(* A thread of the pool takes the next item; the load balancer picks a     *)
(* replica, any one, which covers the round robin of clients and of nginx. *)
Post(c, r) == /\ Take(c)
              /\ Send(c, r)
              /\ received' = [received EXCEPT ![c] = "open"]
              /\ UNCHANGED <<run, step, attempt, resetAt, cleared, clean>>

Return(c, status) == /\ received' = [received EXCEPT ![c] = status]
                     /\ UNCHANGED <<vars, run, step, attempt, resetAt, cleared, clean>>

(* The replica picked is down: RequestException, no second try.            *)
Refused(c, r) == Take(c) /\ ~up[r] /\ Return(c, "error")

(* Slip: the thread waits for the answer of a replica that died.           *)
ReceiveAnswer(c) == /\ received[c] = "open" /\ stage[c] = "done"
                    /\ outcome[c] # NoResponse
                    /\ Return(c, outcome[c].status)

(* The answer, or a connection error when the replica died.                *)
Receive(c) == /\ received[c] = "open" /\ stage[c] = "done"
              /\ Return(c, IF outcome[c] = NoResponse THEN "error" ELSE outcome[c].status)

(* REQUEST_TIMEOUT is over; the replica does not know.                     *)
TimeOut(c) == /\ received[c] = "open" /\ stage[c] # "done"
              /\ Return(c, "error")

(* Slip: the loop does not wait for the last futures.                      *)
EndRunEarly == /\ step = "run"
               /\ \A c \in Workload : received[c] # "waiting"
               /\ step' = "summary"
               /\ UNCHANGED <<vars, run, attempt, resetAt, cleared, clean, received>>

(* as_completed has yielded every future: get_results.                     *)
EndRun == /\ step = "run"
          /\ \A c \in Workload : received[c] \notin {"waiting", "open"}
          /\ step' = "summary"
          /\ UNCHANGED <<vars, run, attempt, resetAt, cleared, clean, received>>

NextRun == /\ step = "summary"
           /\ IF run < Runs THEN run' = run + 1 /\ step' = "reset"
                            ELSE run' = run /\ step' = "over"
           /\ attempt' = 0
           /\ clean' = FALSE
           /\ cleared' = Nobody
           /\ UNCHANGED <<vars, resetAt, received>>

-----------------------------------------------------------------------------
Script == \/ \E r \in Process : PostReset(r) \/ ResetRefused(r)
          \/ FallBack
          \/ \E c \in Purchase : \/ \E r \in Process : Post(c, r) \/ Refused(c, r)
                                 \/ Receive(c)
          \/ EndRun
          \/ NextRun

Replica(r) == (Handle(r) \/ Restart(r)) /\ Watch(r)

Trouble(r) == Fault(r) /\ Watch(r)

RunsNext == \/ Script
            \/ \E c \in Purchase : TimeOut(c)
            \/ \E r \in Process : Replica(r) \/ Trouble(r)

(* The script and its threads go on, and so do the replicas.  A timeout    *)
(* need not come.                                                          *)
RunsSpec == /\ RunsInit /\ [][RunsNext]_<<vars, runVars>>
            /\ WF_<<vars, runVars>>(Script)
            /\ \A r \in Process : WF_<<vars, runVars>>(Replica(r))

-----------------------------------------------------------------------------
(* Properties *)

(* The calls of the run with one status.                                   *)
Results(status) == {c \in Workload : received[c] = status}

(* get_results counts a DUPLICATE as successful.                           *)
SuccessfulRequests == Cardinality(Results("success") \cup Results("duplicate"))

(* get_stats_numbered: the sold seats less the unique ones.                *)
DuplicateSales ==
    LET seats == {c \in Results("success") : OrderOf[c].type = "numbered"}
    IN  Cardinality(seats) - Cardinality({OrderOf[c].seat : c \in seats})

(* get_stats of the server                                                 *)
TicketsSold == count + Cardinality(SoldSeats)

(* The replica of the call was not cleared by the run's reset, or another  *)
(* call of the run asked it for the same request id.                       *)
Explained(c) == \/ at[c] # cleared
                \/ \E d \in Workload \ {c} : at[d] = at[c] /\ OrderOf[d].id = OrderOf[c].id

Surplus == {c \in Results("duplicate") : Explained(c)}

(* At the end of a run the client's list and Redis agree as far as they    *)
(* can: each SUCCESS is a ticket or seat sold.  If the run started clean,  *)
(* the successful requests it reports exceed what Redis sold by no more    *)
(* than the DUPLICATEs that repeat a call of the run or come from a cache  *)
(* that was not reset, and what Redis sold beyond the SUCCESSes is an error*)
(* at the client or went to a repeated command: a client that stops        *)
(* waiting, a replica that dies and a lost reply leave no other difference *)
(* (benchmark.py:153-156, 202, storage.py:179-190).                        *)
SummaryAgrees ==
    step = "summary" =>
        /\ Cardinality(Results("success")) <= TicketsSold
        /\ clean => /\ SuccessfulRequests <= TicketsSold + Cardinality(Surplus)
                    /\ TicketsSold <= Cardinality(Results("success"))
                                       + Cardinality(Results("error")) + faults

(* No run is told twice that it has a seat, whatever its reset left undone *)
(* and whatever calls of earlier runs are still served: nothing withdraws  *)
(* a sale while a run goes on (benchmark.py:206-219).                      *)
NoDuplicateSales == step = "summary" => DuplicateSales = 0

(* The DUPLICATE answers of a run that started clean, which get_results    *)
(* counts as successful, repeat an answer of the same run, or come from a  *)
(* replica that the run's reset did not reach.                             *)
DuplicatesExplained == clean => \A c \in Results("duplicate") : Explained(c)

(* The series ends, whichever replica fails when and without any timeout.  *)
RunsFinish == <>(step = "over")
=============================================================================
