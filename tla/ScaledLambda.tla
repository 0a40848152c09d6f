---------------------------- MODULE ScaledLambda ----------------------------
(***************************************************************************)
(* The scaler beside the Lambda function: a loop that reads the depth of   *)
(* the SQS queue, computes how many environments it needs and sets the     *)
(* function's reserved concurrency, which bounds how many invocations run  *)
(* at once.  A batch that finds no free slot is throttled: it comes back   *)
(* to the queue and has been received once more.                           *)
(***************************************************************************)
EXTENDS LambdaHandler

CONSTANTS MinWorkers, MaxWorkers,  \* MIN_WORKERS and MAX_WORKERS
          Capacity,                \* C, records per second and environment
          TargetResponse,          \* Tr in seconds
          Elapsed                  \* seconds between two polls, about POLL_INTERVAL_S

ASSUME ScalerAssumption ==
    /\ MinWorkers \in Nat \ {0} /\ MaxWorkers \in Nat /\ MinWorkers <= MaxWorkers
    /\ Capacity \in Nat \ {0} /\ TargetResponse \in Nat \ {0}
    /\ Elapsed \subseteq Nat \ {0}

VARIABLES scaler,       \* what the loop does next
          current,      \* current_n
          target,       \* target_n of this turn
          lastBacklog,  \* _last_backlog
          reserved,     \* the reserved concurrency in force at Lambda
          drifted       \* a call that raised had set the concurrency

scalerVars == <<scaler, current, target, lastBacklog, reserved, drifted>>

ScaledInit == /\ Init
              /\ scaler = "off"
              /\ current = MinWorkers
              /\ target = MinWorkers
              /\ lastBacklog = 0
              /\ reserved = 1
              /\ drifted = FALSE

Larger(m, n) == IF m > n THEN m ELSE n
Smaller(m, n) == IF m < n THEN m ELSE n

-----------------------------------------------------------------------------
(* SQS and Lambda under a reserved concurrency *)

Busy == {e \in Env : batch[e] # <<>>}

RunReserved(e) == /\ batch[e] = <<>> => Cardinality(Busy) < reserved
                  /\ Run(e)
                  /\ UNCHANGED scalerVars

Throttle == /\ Cardinality(Busy) >= reserved
            /\ \E M \in SUBSET {m \in Record : place[m] = "queued" /\ receives[m] < MaxReceives} :
                  /\ M # {} /\ Cardinality(M) <= BatchSize
                  /\ receives' = [m \in Record |-> IF m \in M THEN receives[m] + 1
                                                              ELSE receives[m]]
            /\ UNCHANGED <<tableVars, txVars, place, batch, next, told, faults, scalerVars>>

-----------------------------------------------------------------------------
(* The scaler *)

(* Visible and not visible, which SQS counts approximately: a miscount is  *)
(* one of the faults.                                                      *)
QueueDepth == Cardinality({m \in Record : place[m] \in {"queued", "inflight"}})

(* Slip: no lower bound, so that an empty queue asks for no environment.   *)
ComputeWithoutMinimum(backlog, grown, dt) ==
    LET work == backlog * dt + grown * TargetResponse
        unit == Capacity * TargetResponse * dt
    IN  Smaller(MaxWorkers, (work + unit - 1) \div unit)

(* ceil((B + rate * Tr) / (C * Tr)) with rate = grown / dt, in its bounds. *)
ComputeN(backlog, grown, dt) ==
    LET work == backlog * dt + grown * TargetResponse
        unit == Capacity * TargetResponse * dt
    IN  Larger(MinWorkers, Smaller(MaxWorkers, (work + unit - 1) \div unit))

(* A new process with its own current_n sets MIN_WORKERS.                  *)
StartScaler == /\ scaler = "off"
               /\ scaler' = "first"
               /\ reserved' = MinWorkers
               /\ drifted' = FALSE
               /\ UNCHANGED <<vars, current, target, lastBacklog>>

(* Less than 0.1 s may have passed at the first poll: no rate, and the     *)
(* baseline stays.                                                         *)
PollAtOnce(backlog) == /\ scaler = "first"
                       /\ target' = ComputeN(backlog, 0, 1)
                       /\ UNCHANGED lastBacklog

PollAfter(backlog, dt) == /\ scaler \in {"first", "poll"}
                          /\ target' = ComputeN(backlog, Larger(0, backlog - lastBacklog), dt)
                          /\ lastBacklog' = backlog

(* Slip: the scaler only ever scales up.                                   *)
PollUpwards(backlog) ==
    /\ PollAtOnce(backlog) \/ \E dt \in Elapsed : PollAfter(backlog, dt)
    /\ scaler' = IF target' > current THEN "set" ELSE "poll"
    /\ UNCHANGED <<current, reserved, drifted>>

PollDepth(backlog) ==
    /\ PollAtOnce(backlog) \/ \E dt \in Elapsed : PollAfter(backlog, dt)
    /\ scaler' = IF target' # current THEN "set" ELSE "poll"
    /\ UNCHANGED <<current, reserved, drifted>>

Poll == PollDepth(QueueDepth) /\ UNCHANGED vars

(* put_function_concurrency, then current_n = target_n.                    *)
SetConcurrency == /\ scaler = "set"
                  /\ reserved' = target
                  /\ current' = target
                  /\ drifted' = FALSE
                  /\ scaler' = "poll"
                  /\ UNCHANGED <<vars, target, lastBacklog>>

Trouble == /\ faults < MaxFaults
           /\ faults' = faults + 1
           /\ UNCHANGED <<tableVars, txVars, place, receives, batch, next, told>>

Miscount == /\ Trouble
            /\ \E backlog \in 0..Cardinality(Record) : PollDepth(backlog)

(* Interrupted, put_function_concurrency may have taken effect.            *)
SetOrNot == \/ UNCHANGED <<reserved, drifted>>
            \/ scaler = "set" /\ reserved' = target /\ drifted' = TRUE

(* Slip: current_n is assigned before the call.                            *)
SetRaisesTooLate == /\ Trouble
                    /\ scaler = "set"
                    /\ SetOrNot
                    /\ scaler' = "poll"
                    /\ current' = target
                    /\ UNCHANGED <<target, lastBacklog>>

(* put_function_concurrency raises; the loop goes on with the old current_n*)
SetRaises == /\ Trouble
             /\ scaler = "set"
             /\ SetOrNot
             /\ scaler' = "poll"
             /\ target' = current
             /\ UNCHANGED <<current, lastBacklog>>

(* run_experiments.sh kills the scaler, whose variables are gone, or its   *)
(* first call raises, which no try catches.                                *)
StopScaler == /\ Trouble
              /\ scaler # "off"
              /\ SetOrNot
              /\ scaler' = "off"
              /\ current' = MinWorkers
              /\ target' = MinWorkers
              /\ lastBacklog' = 0

-----------------------------------------------------------------------------
ScalerTurn == Poll \/ SetConcurrency

QueueStep == /\ \/ \E m \in Record : Arrive(m) \/ DeadLetter(m)
                \/ \E e \in Env : Interrupt(e)
             /\ UNCHANGED scalerVars

ScaledNext == \/ QueueStep
              \/ \E e \in Env : RunReserved(e)
              \/ Throttle
              \/ StartScaler
              \/ ScalerTurn
              \/ Miscount
              \/ SetRaises
              \/ StopScaler

scaledVars == <<vars, scalerVars>>

(* SQS polls while there are records and a slot, a handler runs until it   *)
(* ends, PostgreSQL wakes who waits for a lock that is gone, and a scaler  *)
(* that was started goes on, but nothing starts it again for certain.      *)
ScaledSpec == /\ ScaledInit /\ [][ScaledNext]_scaledVars
              /\ \A e \in Env : WF_scaledVars(RunReserved(e))
              /\ \A m \in Record : WF_scaledVars(DeadLetter(m) /\ UNCHANGED scalerVars)
              /\ WF_scaledVars(ScalerTurn)

-----------------------------------------------------------------------------
(* Properties *)

(* Between two turns current_n is the concurrency in force, after failed   *)
(* calls and restarts too, unless a call raised that had taken effect      *)
(* (scaler.py:97-100: the scaler acts only on a difference to current_n).  *)
CurrentIsReserved ==
    scaler \in {"first", "poll", "set"} => current = reserved \/ drifted

(* A surge does not leave the function scaled up: under a scaler that is   *)
(* not killed the reserved concurrency is MIN_WORKERS again in the end and *)
(* stays, unless it drifted (_compute_n, run).                             *)
ScalesBack == <>[](scaler # "off") => <>[](reserved = MinWorkers \/ drifted)
=============================================================================
