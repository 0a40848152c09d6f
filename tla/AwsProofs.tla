------------------------------ MODULE AwsProofs ------------------------------
(***************************************************************************)
(* Theorems of the two modules that put LambdaHandler to use, for any      *)
(* messages, records, environments and bounds.                             *)
(*                                                                         *)
(* AwsPipeline: a step of the forwarder is one of Forwarder, with the      *)
(* records that have arrived for sent, and lets records arrive at SQS; a   *)
(* step of SQS or of a handler is one of LambdaHandler and leaves what has *)
(* arrived alone.  So each keeps its invariant, and no published message   *)
(* is lost between them.                                                   *)
(*                                                                         *)
(* ScaledLambda: reserved concurrency and throttling disturb nothing the   *)
(* handlers promise, and the scaler knows what is in force and stays in    *)
(* its bounds.                                                             *)
(***************************************************************************)
EXTENDS AwsPipeline, ScaledLambda, LambdaHandlerProofs

BridgeProofs == INSTANCE ForwarderProofs
                    WITH sent <- [m \in Message |-> Cardinality(Received(m))]

(* Each instance counts as FiniteSets does, which they all extend.         *)
LEMMA SameCounts ==
    ASSUME NEW S
    PROVE  /\ Bridge!Cardinality(S) = Cardinality(S)
           /\ BridgeProofs!Cardinality(S) = Cardinality(S)
           /\ BridgeProofs!IsFiniteSet(S) <=> IsFiniteSet(S)
<1>1. Bridge!Cardinality(S) = Cardinality(S)
  BY DEF Bridge!Cardinality, Cardinality
<1>2. BridgeProofs!Cardinality(S) = Cardinality(S)
  BY DEF BridgeProofs!Cardinality, Cardinality
<1>3. BridgeProofs!IsFiniteSet(S) <=> IsFiniteSet(S)
  BY DEF BridgeProofs!IsFiniteSet, IsFiniteSet
<1> QED
  BY <1>1, <1>2, <1>3

(* Both instances of Forwarder are the same.                               *)
LEMMA SameBridge ==
    /\ Bridge!Init <=> BridgeProofs!Init
    /\ [Bridge!Next]_Bridge!vars <=> [BridgeProofs!Next]_BridgeProofs!vars
    /\ Bridge!RepeatsNeedErrors <=> BridgeProofs!RepeatsNeedErrors
    /\ Bridge!StrandedAreRefused <=> BridgeProofs!StrandedAreRefused
    /\ Bridge!BridgeNeedsAgreement <=> BridgeProofs!BridgeNeedsAgreement
    /\ Bridge!InRabbitMQ = BridgeProofs!InRabbitMQ
<1>1. Bridge!Init <=> BridgeProofs!Init
  BY DEF Bridge!Init, BridgeProofs!Init, Bridge!Coded, BridgeProofs!Coded,
         Bridge!Agreed, BridgeProofs!Agreed
<1>2. Bridge!Next <=> BridgeProofs!Next
  <2> USE DEF Bridge!queueVars, BridgeProofs!queueVars, Bridge!brokerVars,
              BridgeProofs!brokerVars
  <2>1. (Bridge!Full <=> BridgeProofs!Full) /\ (Bridge!Due <=> BridgeProofs!Due)
    BY SameCounts DEF Bridge!Full, BridgeProofs!Full, Bridge!Due, BridgeProofs!Due
  <2>2. \A m \in Message : /\ Bridge!Publish(m) <=> BridgeProofs!Publish(m)
                           /\ Bridge!Get(m) <=> BridgeProofs!Get(m)
                           /\ Bridge!Ack(m) <=> BridgeProofs!Ack(m)
                           /\ Bridge!Nack(m) <=> BridgeProofs!Nack(m)
    BY <2>1 DEF Bridge!Publish, BridgeProofs!Publish, Bridge!Get, BridgeProofs!Get,
                Bridge!Ack, BridgeProofs!Ack, Bridge!Nack, BridgeProofs!Nack,
                Bridge!Declare, BridgeProofs!Declare, Bridge!Coded, BridgeProofs!Coded
  <2>3. ASSUME NEW A \in SUBSET collected
        PROVE  Bridge!SendBatch(A) <=> BridgeProofs!SendBatch(A)
    <3>1. Bridge!Cardinality(collected \ A) = BridgeProofs!Cardinality(collected \ A)
      BY SameCounts
    <3> QED
      BY <2>1, <3>1 DEF Bridge!SendBatch, BridgeProofs!SendBatch, Bridge!Deliver,
                        BridgeProofs!Deliver
  <2>4. ASSUME NEW A \in SUBSET collected
        PROVE  Bridge!SendRaises(A) <=> BridgeProofs!SendRaises(A)
    BY <2>1 DEF Bridge!SendRaises, BridgeProofs!SendRaises, Bridge!Deliver,
                BridgeProofs!Deliver, Bridge!Leave, BridgeProofs!Leave
  <2>5. /\ Bridge!SetUp <=> BridgeProofs!SetUp
        /\ Bridge!Connect <=> BridgeProofs!Connect
        /\ Bridge!Settled <=> BridgeProofs!Settled
        /\ Bridge!Lose <=> BridgeProofs!Lose
        /\ Bridge!DropStale <=> BridgeProofs!DropStale
    BY DEF Bridge!SetUp, BridgeProofs!SetUp, Bridge!Connect, BridgeProofs!Connect,
           Bridge!Settled, BridgeProofs!Settled, Bridge!Lose, BridgeProofs!Lose,
           Bridge!DropStale, BridgeProofs!DropStale, Bridge!Leave, BridgeProofs!Leave,
           Bridge!Declare, BridgeProofs!Declare, Bridge!Coded, BridgeProofs!Coded
  <2> QED
    BY <2>2, <2>3, <2>4, <2>5 DEF Bridge!Next, BridgeProofs!Next, Bridge!Loop,
                                  BridgeProofs!Loop
<1>3. UNCHANGED Bridge!vars <=> UNCHANGED BridgeProofs!vars
  BY DEF Bridge!vars, BridgeProofs!vars, Bridge!forwarderVars,
         BridgeProofs!forwarderVars, Bridge!queueVars, BridgeProofs!queueVars,
         Bridge!brokerVars, BridgeProofs!brokerVars
<1>4. /\ Bridge!RepeatsNeedErrors <=> BridgeProofs!RepeatsNeedErrors
      /\ Bridge!StrandedAreRefused <=> BridgeProofs!StrandedAreRefused
      /\ Bridge!BridgeNeedsAgreement <=> BridgeProofs!BridgeNeedsAgreement
      /\ Bridge!InRabbitMQ = BridgeProofs!InRabbitMQ
  BY SameCounts DEF Bridge!RepeatsNeedErrors, BridgeProofs!RepeatsNeedErrors,
         Bridge!StrandedAreRefused, BridgeProofs!StrandedAreRefused,
         Bridge!BridgeNeedsAgreement, BridgeProofs!BridgeNeedsAgreement,
         Bridge!InRabbitMQ, BridgeProofs!InRabbitMQ
<1> QED
  BY <1>1, <1>2, <1>3, <1>4

-----------------------------------------------------------------------------
(* AwsPipeline: the steps                                                  *)

(* Records that arrive at SQS, several at once, disturb no handler.        *)
LEMMA ArrivalsKeepHandler ==
    ASSUME HandlerInv, ForwarderStep
    PROVE  HandlerInv'
<1>1. PICK R \in SUBSET {r \in Record : place[r] = "unsent"} : Move(R, "queued")
  BY DEF ForwarderStep
<1>2. /\ place \in [Record -> {"unsent", "queued", "inflight", "deleted", "dead"}]
      /\ place' = [m \in Record |-> IF m \in R THEN "queued" ELSE place[m]]
      /\ \A m \in R : place[m] = "unsent"
  BY <1>1 DEF Move, HandlerInv, TypeOK
<1>3. /\ rows' = rows /\ sold' = sold /\ pc' = pc /\ job' = job /\ draft' = draft
      /\ result' = result /\ receives' = receives /\ batch' = batch /\ next' = next
      /\ told' = told /\ faults' = faults
  BY DEF ForwarderStep, tableVars, txVars
<1> USE <1>3 DEF HandlerInv
<1>4. TypeOK'
  BY <1>2 DEF TypeOK, TablesTypeOK
<1>5. BatchesOK'
  <2>1. \A e \in Env : Members(e)' = Members(e) /\ Members(e) \in SUBSET Record
    BY MembersAreRecords DEF Members
  <2> QED
    BY <1>2, <2>1 DEF BatchesOK
<1>6. EnvsOK'
  BY EnvStays DEF EnvsOK, Stays
<1>7. CounterHeld' /\ Isolated' /\ SaleUntold'
  BY DEF CounterHeld, HoldsCounter, Isolated, Free, Apart, Uncommitted, SaleUntold, RowOf,
         Id, Type, Seat
<1>8. IsFiniteSet(Counted)' /\ CounterMatchesRows'
  <2>1. Counted' = Counted
    BY DEF Counted
  <2>2. IsFiniteSet(Counted') /\ Cardinality(Counted') = Cardinality(Counted)
    BY <2>1
  <2> QED
    BY <2>2 DEF CounterMatchesRows, Counted
<1>9. SeatSoldOnce' /\ SoldToOneRecord'
  BY DEF SeatSoldOnce, SoldSeat, SoldToOneRecord
<1>10. UnsentUntold'
  BY <1>2 DEF UnsentUntold
<1>11. PassedDecided'
  BY DEF PassedDecided, Verdicts
<1>12. DeletedIsDecided'
  BY <1>2 DEF DeletedIsDecided, Invalid
<1> QED
  BY <1>4, <1>5, <1>6, <1>7, <1>8, <1>9, <1>10, <1>11, <1>12

(* A step of the pipeline keeps the invariant of the handler.              *)
LEMMA HandlerInPipeline ==
    ASSUME HandlerInv, [PipelineNext]_pipelineVars
    PROVE  HandlerInv'
<1>1. CASE ForwarderStep
  BY <1>1, ArrivalsKeepHandler
<1>2. CASE LambdaStep
  <2>1. Next
    BY <1>2 DEF LambdaStep, Next
  <2> QED
    BY <2>1, HandlerStep
<1>3. CASE UNCHANGED pipelineVars
  <2>1. UNCHANGED vars
    BY <1>3 DEF pipelineVars
  <2> QED
    BY <2>1, HandlerStep
<1> QED
  BY <1>1, <1>2, <1>3 DEF PipelineNext

(* A record that arrived at SQS never becomes unsent again, and no handler *)
(* makes one arrive.                                                       *)
LEMMA HandlersReceiveNothing ==
    ASSUME HandlerInv, LambdaStep
    PROVE  \A m \in Message : Received(m)' = Received(m)
<1>1. place \in [Record -> {"unsent", "queued", "inflight", "deleted", "dead"}]
  BY DEF HandlerInv, TypeOK
<1>2. ASSUME NEW M \in SUBSET Record, NEW to \in {"queued", "inflight", "deleted", "dead"},
             \A r \in M : place[r] # "unsent", Move(M, to)
      PROVE  \A r \in Record : place'[r] = "unsent" <=> place[r] = "unsent"
  BY <1>1, <1>2 DEF Move
<1>3. \A r \in Record : place'[r] = "unsent" <=> place[r] = "unsent"
  <2>1. ASSUME NEW m \in Record, DeadLetter(m)
        PROVE  \A r \in Record : place'[r] = "unsent" <=> place[r] = "unsent"
    <3>1. /\ {m} \in SUBSET Record /\ \A r \in {m} : place[r] # "unsent"
          /\ Move({m}, "dead")
      BY <2>1 DEF DeadLetter
    <3> QED
      BY <3>1, <1>2
  <2>2. ASSUME NEW e \in Env, Invoke(e)
        PROVE  \A r \in Record : place'[r] = "unsent" <=> place[r] = "unsent"
    <3>1. PICK M \in SUBSET Record : /\ \A r \in M : place[r] = "queued"
                                     /\ Move(M, "inflight")
      BY <2>2 DEF Invoke
    <3>2. \A r \in M : place[r] # "unsent"
      BY <3>1
    <3> QED
      BY <3>1, <3>2, <1>2
  <2>3. ASSUME NEW e \in Env, Unparsable(e) \/ RaiseViolation(e) \/ Interrupt(e)
        PROVE  \A r \in Record : place'[r] = "unsent" <=> place[r] = "unsent"
    <3>1. Move(Members(e), "queued")
      BY <2>3 DEF Unparsable, RaiseViolation, Interrupt, Fail
    <3>2. Members(e) \in SUBSET Record /\ \A r \in Members(e) : place[r] # "unsent"
      BY MembersAreRecords DEF HandlerInv, BatchesOK
    <3> QED
      BY <3>1, <3>2, <1>2
  <2>4. ASSUME NEW e \in Env, FinishBatch(e)
        PROVE  \A r \in Record : place'[r] = "unsent" <=> place[r] = "unsent"
    <3>1. Move(Members(e), "deleted")
      BY <2>4 DEF FinishBatch
    <3>2. Members(e) \in SUBSET Record /\ \A r \in Members(e) : place[r] # "unsent"
      BY MembersAreRecords DEF HandlerInv, BatchesOK
    <3> QED
      BY <3>1, <3>2, <1>2
  <2>5. ASSUME NEW e \in Env, BeginRecord(e) \/ RunStatement(e) \/ EndRecord(e)
        PROVE  \A r \in Record : place'[r] = "unsent" <=> place[r] = "unsent"
    BY <2>5 DEF BeginRecord, RunStatement, EndRecord, handlerVars
  <2> QED
    BY <2>1, <2>2, <2>3, <2>4, <2>5 DEF LambdaStep, Run
<1> QED
  BY <1>3 DEF Received, RecordsOf

(* Every step of the pipeline is one of the bridge, or leaves it alone.    *)
LEMMA BridgeInPipeline ==
    ASSUME HandlerInv, [PipelineNext]_pipelineVars
    PROVE  [Bridge!Next]_Bridge!vars
<1>1. CASE ForwarderStep
  BY <1>1 DEF ForwarderStep
<1>2. ASSUME UNCHANGED bridgeVars, \A m \in Message : Received(m)' = Received(m)
      PROVE  UNCHANGED Bridge!vars
  <2>1. \A m \in Message : Cardinality(Received(m)') = Cardinality(Received(m))
    BY <1>2
  <2>2. [m \in Message |-> Cardinality(Received(m))]'
          = [m \in Message |-> Cardinality(Received(m))]
    BY <2>1
  <2> QED
    BY <1>2, <2>2 DEF bridgeVars, Bridge!vars, Bridge!forwarderVars, Bridge!queueVars,
                      Bridge!brokerVars
<1>3. CASE LambdaStep
  <2>1. UNCHANGED bridgeVars
    BY <1>3 DEF LambdaStep
  <2> QED
    BY <1>2, <1>3, <2>1, HandlersReceiveNothing
<1>4. CASE UNCHANGED pipelineVars
  <2>1. UNCHANGED bridgeVars /\ place' = place
    BY <1>4 DEF pipelineVars, vars, handlerVars
  <2>2. \A m \in Message : Received(m)' = Received(m)
    BY <2>1 DEF Received, RecordsOf
  <2> QED
    BY <1>2, <2>1, <2>2
<1> QED
  BY <1>1, <1>3, <1>4 DEF PipelineNext

-----------------------------------------------------------------------------
(* AwsPipeline: the theorems                                               *)

(* The invariants of the handler and of the bridge hold of the two         *)
(* together.                                                               *)
THEOREM PipelineInvariant == PipelineSpec => [](HandlerInv /\ BridgeProofs!BridgeInv)
<1>1. PipelineInit => HandlerInv /\ BridgeProofs!BridgeInv
  <2> SUFFICES ASSUME PipelineInit
               PROVE  HandlerInv /\ BridgeProofs!BridgeInv
    OBVIOUS
  <2>1. HandlerInv
    BY HandlerInit DEF PipelineInit
  <2>2. BridgeProofs!Init
    BY SameBridge DEF PipelineInit
  <2> QED
    BY <2>1, <2>2, BridgeProofs!BridgeInit
<1>2. BridgeProofs!Bounds
  BY ForwarderAssumption, SameCounts DEF BridgeProofs!Bounds
<1>3. HandlerInv /\ BridgeProofs!BridgeInv /\ [PipelineNext]_pipelineVars
        => HandlerInv' /\ BridgeProofs!BridgeInv'
  <2> SUFFICES ASSUME HandlerInv, BridgeProofs!BridgeInv, [PipelineNext]_pipelineVars
               PROVE  HandlerInv' /\ BridgeProofs!BridgeInv'
    OBVIOUS
  <2>1. HandlerInv'
    BY HandlerInPipeline
  <2>2. [BridgeProofs!Next]_BridgeProofs!vars
    BY BridgeInPipeline, SameBridge
  <2>3. BridgeProofs!BridgeInv'
    BY <1>2, <2>2, BridgeProofs!BridgeStep
  <2> QED
    BY <2>1, <2>3
<1> QED
  BY <1>1, <1>3, PTL DEF PipelineSpec

(* The pipeline refines the bridge: with the records that have arrived for *)
(* sent, it behaves as Forwarder says, whatever the handlers do.           *)
THEOREM PipelineBridges == PipelineSpec => Bridge!Spec
<1>1. PipelineInit => Bridge!Init
  BY DEF PipelineInit
<1>2. HandlerInv /\ [PipelineNext]_pipelineVars => [Bridge!Next]_Bridge!vars
  BY BridgeInPipeline
<1>3. PipelineSpec => []HandlerInv
  BY PipelineInvariant, PTL
<1> QED
  BY <1>1, <1>2, <1>3, PTL DEF PipelineSpec, Bridge!Spec

(* SQS gets a message again only because an entry was refused, a call      *)
(* failed or a connection was lost (forwarder.py:42-82).                   *)
THEOREM RepeatsCostErrors == PipelineSpec => []RepeatsNeedErrors
<1>1. BridgeProofs!BridgeInv => RepeatsNeedErrors
  BY BridgeProofs!BridgePromises, SameBridge DEF RepeatsNeedErrors
<1> QED
  BY <1>1, PipelineInvariant, PTL

(* Between two batches only messages SQS refused are left unacknowledged.  *)
THEOREM OnlyRefusedStranded == PipelineSpec => []StrandedAreRefused
<1>1. BridgeProofs!BridgeInv => StrandedAreRefused
  BY BridgeProofs!BridgePromises, SameBridge DEF StrandedAreRefused
<1> QED
  BY <1>1, PipelineInvariant, PTL

(* Nothing reaches SQS unless the forwarder and the runner declare the     *)
(* queue alike.                                                            *)
THEOREM AgreementNeeded == PipelineSpec => []BridgeNeedsAgreement
<1>1. BridgeProofs!BridgeInv => BridgeNeedsAgreement
  BY BridgeProofs!BridgePromises, SameBridge DEF BridgeNeedsAgreement
<1> QED
  BY <1>1, PipelineInvariant, PTL

(* From the generator to PostgreSQL no message is lost: it is in RabbitMQ, *)
(* in SQS or at a handler, in the dead-letter queue, or decided.           *)
THEOREM NothingLost == PipelineSpec => []NothingLostEndToEnd
<1>1. ASSUME HandlerInv, BridgeProofs!BridgeInv
      PROVE  NothingLostEndToEnd
  <2> SUFFICES ASSUME NEW m \in published, m \notin Bridge!InRabbitMQ
               PROVE  \E r \in RecordsOf(m) : \/ place[r] \in {"queued", "inflight", "dead"}
                                              \/ rows[OrderOf[r].id] # NoRow
                                              \/ Invalid(r)
    BY DEF NothingLostEndToEnd
  <2>1. m \in Message
    BY <1>1 DEF BridgeProofs!BridgeInv, BridgeProofs!BridgeTypeOK
  <2>2. [k \in Message |-> Cardinality(Received(k))][m] > 0
    BY <1>1, BridgeProofs!BridgePromises, SameBridge
  <2>3. Received(m) # {}
    BY <2>1, <2>2, FS_EmptySet
  <2>4. PICK r \in RecordsOf(m) : place[r] # "unsent"
    BY <2>3 DEF Received
  <2>5. r \in Record
    BY <2>4 DEF RecordsOf
  <2>6. place[r] \in {"queued", "inflight", "deleted", "dead"}
    BY <1>1, <2>4, <2>5 DEF HandlerInv, TypeOK
  <2>7. place[r] = "deleted" => Invalid(r) \/ rows[OrderOf[r].id] # NoRow
    BY <1>1, <2>5 DEF HandlerInv, DeletedIsDecided
  <2> QED
    BY <2>4, <2>6, <2>7
<1> QED
  BY <1>1, PipelineInvariant, PTL

-----------------------------------------------------------------------------
(* ScaledLambda: the inductive invariant                                   *)

InBounds(n) == n \in MinWorkers..MaxWorkers

(* What the scaler asks for is in its bounds, what is in force is at most  *)
(* MAX_WORKERS, and no more environments are busy than ever was allowed.   *)
ScalerInv ==
    /\ scaler \in {"off", "first", "poll", "set"}
    /\ InBounds(current) /\ InBounds(target) /\ reserved \in 1..MaxWorkers
    /\ lastBacklog \in Nat
    /\ scaler = "off" => current = MinWorkers
    /\ scaler # "off" => InBounds(reserved)
    /\ CurrentIsReserved
    /\ IsFiniteSet(Busy) /\ Cardinality(Busy) <= MaxWorkers

(* Whatever the queue holds and however it grew, the number of             *)
(* environments computed is in its bounds (_compute_n).                    *)
LEMMA ComputeInBounds ==
    ASSUME NEW backlog \in Nat, NEW grown \in Nat, NEW dt \in Nat \ {0}
    PROVE  InBounds(ComputeN(backlog, grown, dt))
<1>1. Capacity * TargetResponse \in Nat \ {0}
  BY ScalerAssumption
<1>2. Capacity * TargetResponse * dt \in Nat \ {0}
  BY <1>1
<1>3. backlog * dt \in Nat /\ grown * TargetResponse \in Nat
  BY ScalerAssumption
<1> DEFINE unit == Capacity * TargetResponse * dt
           work == backlog * dt + grown * TargetResponse
<1>4. unit \in Nat \ {0} /\ work \in Nat
  BY <1>2, <1>3
<1> HIDE DEF unit, work
<1>5. (work + unit - 1) \div unit \in Int
  BY <1>4
<1>6. \A n \in Int : InBounds(Larger(MinWorkers, Smaller(MaxWorkers, n)))
  BY ScalerAssumption DEF InBounds, Larger, Smaller
<1>7. ComputeN(backlog, grown, dt)
        = Larger(MinWorkers, Smaller(MaxWorkers, (work + unit - 1) \div unit))
  BY DEF ComputeN, work, unit
<1> QED
  BY <1>5, <1>6, <1>7

-----------------------------------------------------------------------------
(* ScaledLambda: the steps                                                 *)

(* A step that only counts receptions or faults disturbs no handler.       *)
LEMMA CountsKeepHandler ==
    ASSUME HandlerInv, TypeOK', UNCHANGED <<tableVars, txVars, place, batch, next, told>>
    PROVE  HandlerInv'
<1>1. /\ rows' = rows /\ sold' = sold /\ pc' = pc /\ job' = job /\ draft' = draft
      /\ result' = result /\ place' = place /\ batch' = batch /\ next' = next
      /\ told' = told
  BY DEF tableVars, txVars
<1> USE <1>1 DEF HandlerInv
<1>2. BatchesOK'
  <2>1. \A e \in Env : Members(e)' = Members(e)
    BY DEF Members
  <2> QED
    BY <2>1 DEF BatchesOK
<1>3. EnvsOK'
  BY EnvStays DEF EnvsOK, Stays
<1>4. CounterHeld' /\ Isolated' /\ SaleUntold'
  BY DEF CounterHeld, HoldsCounter, Isolated, Free, Apart, Uncommitted, SaleUntold, RowOf,
         Id, Type, Seat
<1>5. IsFiniteSet(Counted)' /\ CounterMatchesRows' /\ SeatSoldOnce'
  BY DEF Counted, CounterMatchesRows, SeatSoldOnce
<1>6. SoldToOneRecord' /\ UnsentUntold' /\ PassedDecided' /\ DeletedIsDecided'
  BY DEF UnsentUntold, SoldToOneRecord, PassedDecided, DeletedIsDecided, Verdicts, Invalid
<1> QED
  BY <1>2, <1>3, <1>4, <1>5, <1>6

(* Each step under the scaler is one of the handlers, or only counts.      *)
LEMMA ScaledCases ==
    ASSUME TypeOK, [ScaledNext]_scaledVars
    PROVE  \/ [Next]_vars
           \/ TypeOK' /\ UNCHANGED <<tableVars, txVars, place, batch, next, told>>
<1>1. CASE UNCHANGED scaledVars
  BY <1>1 DEF scaledVars
<1>2. CASE QueueStep \/ \E e \in Env : RunReserved(e)
  BY <1>2 DEF QueueStep, RunReserved, Next
<1>3. CASE StartScaler \/ ScalerTurn
  BY <1>3 DEF StartScaler, ScalerTurn, Poll, SetConcurrency
<1>4. CASE Throttle
  <2>1. receives' \in [Record -> 0..MaxReceives]
    <3>1. PICK M \in SUBSET {m \in Record : place[m] = "queued" /\ receives[m] < MaxReceives} :
            receives' = [m \in Record |-> IF m \in M THEN receives[m] + 1 ELSE receives[m]]
      BY <1>4 DEF Throttle
    <3> QED
      BY <3>1, InvocationAssumption DEF TypeOK
  <2> QED
    BY <1>4, <2>1 DEF Throttle, TypeOK, TablesTypeOK, tableVars, txVars
<1>5. CASE Trouble
  <2>1. faults' \in 0..MaxFaults
    BY <1>5, InvocationAssumption DEF Trouble, TypeOK
  <2> QED
    BY <1>5, <2>1 DEF Trouble, TypeOK, TablesTypeOK, tableVars, txVars
<1> QED
  BY <1>1, <1>2, <1>3, <1>4, <1>5 DEF ScaledNext, Miscount, SetRaises, StopScaler

(* So the invariant of the handlers holds under the scaler.                *)
LEMMA HandlerUnderScaler ==
    ASSUME HandlerInv, [ScaledNext]_scaledVars
    PROVE  HandlerInv'
<1>1. TypeOK
  BY DEF HandlerInv
<1> QED
  BY <1>1, ScaledCases, HandlerStep, CountsKeepHandler

(* An environment gets a batch only while fewer are busy than reserved.    *)
LEMMA BusyStep ==
    ASSUME TypeOK, ScalerInv, [ScaledNext]_scaledVars
    PROVE  IsFiniteSet(Busy') /\ Cardinality(Busy') <= MaxWorkers
<1>1. /\ IsFiniteSet(Busy) /\ Cardinality(Busy) \in Nat /\ Cardinality(Busy) <= MaxWorkers
      /\ reserved \in 1..MaxWorkers /\ MaxWorkers \in Nat
  BY FS_CardinalityType, ScalerAssumption DEF ScalerInv
<1>2. ASSUME Busy' \subseteq Busy
      PROVE  IsFiniteSet(Busy') /\ Cardinality(Busy') <= MaxWorkers
  <2>1. IsFiniteSet(Busy') /\ Cardinality(Busy') <= Cardinality(Busy)
    BY <1>1, <1>2, FS_Subset
  <2>2. Cardinality(Busy') \in Nat
    BY <2>1, FS_CardinalityType
  <2> QED
    BY <1>1, <2>1, <2>2
<1>3. ASSUME NEW e \in Env, Run(e) \/ Interrupt(e)
      PROVE  Busy' \subseteq Busy \cup {e}
  <2>1. \A f \in Env \ {e} : batch'[f] = batch[f]
    BY <1>3, OthersStay DEF Stays
  <2> QED
    BY <2>1 DEF Busy
<1>4. ASSUME NEW e \in Env, Interrupt(e)
      PROVE  Busy' \subseteq Busy
  <2>1. e \in Busy
    BY <1>4 DEF Interrupt, Busy
  <2> QED
    BY <1>3, <1>4, <2>1
<1>5. ASSUME NEW e \in Env, RunReserved(e)
      PROVE  IsFiniteSet(Busy') /\ Cardinality(Busy') <= MaxWorkers
  <2>1. Busy' \subseteq Busy \cup {e}
    BY <1>3, <1>5 DEF RunReserved
  <2>2. CASE e \in Busy
    BY <1>2, <2>1, <2>2
  <2>3. CASE e \notin Busy
    <3>1. Cardinality(Busy) < reserved
      BY <1>5, <2>3 DEF RunReserved, Busy
    <3>2. /\ IsFiniteSet(Busy \cup {e})
          /\ Cardinality(Busy \cup {e}) = Cardinality(Busy) + 1
      BY <1>1, <2>3, FS_AddElement
    <3>3. IsFiniteSet(Busy') /\ Cardinality(Busy') <= Cardinality(Busy \cup {e})
      BY <2>1, <3>2, FS_Subset
    <3>4. Cardinality(Busy') \in Nat
      BY <3>3, FS_CardinalityType
    <3> QED
      BY <1>1, <3>1, <3>2, <3>3, <3>4
  <2> QED
    BY <2>2, <2>3
<1>6. ASSUME batch' = batch
      PROVE  IsFiniteSet(Busy') /\ Cardinality(Busy') <= MaxWorkers
  BY <1>2, <1>6 DEF Busy
<1>7. CASE QueueStep
  <2>1. ASSUME NEW m \in Record, Arrive(m) \/ DeadLetter(m)
        PROVE  batch' = batch
    BY <2>1 DEF Arrive, DeadLetter
  <2> QED
    BY <1>2, <1>4, <1>6, <1>7, <2>1 DEF QueueStep
<1>8. CASE \/ Throttle \/ StartScaler \/ ScalerTurn \/ Miscount \/ SetRaises \/ StopScaler
           \/ UNCHANGED scaledVars
  <2>1. batch' = batch
    BY <1>8 DEF Throttle, StartScaler, ScalerTurn, Poll, SetConcurrency, Miscount, SetRaises,
                StopScaler, Trouble, scaledVars, vars, handlerVars
  <2> QED
    BY <1>6, <2>1
<1> QED
  BY <1>5, <1>7, <1>8 DEF ScaledNext

(* A poll asks for a number in the bounds, whatever it counts, and changes *)
(* nothing that is in force.                                               *)
LEMMA PollStays ==
    ASSUME ScalerInv, NEW backlog \in Nat, PollDepth(backlog)
    PROVE  /\ scaler' \in {"set", "poll"} /\ scaler \in {"first", "poll"}
           /\ InBounds(target') /\ lastBacklog' \in Nat
           /\ UNCHANGED <<current, reserved, drifted>>
<1>1. CASE PollAtOnce(backlog)
  <2>1. 1 \in Nat \ {0} /\ 0 \in Nat
    OBVIOUS
  <2> QED
    BY <1>1, <2>1, ComputeInBounds DEF PollAtOnce, PollDepth, ScalerInv
<1>2. ASSUME NEW dt \in Elapsed, PollAfter(backlog, dt)
      PROVE  /\ InBounds(target') /\ lastBacklog' \in Nat
             /\ scaler \in {"first", "poll"}
  <2>1. Larger(0, backlog - lastBacklog) \in Nat /\ dt \in Nat \ {0}
    BY ScalerAssumption DEF Larger, ScalerInv
  <2> QED
    BY <1>2, <2>1, ComputeInBounds DEF PollAfter
<1> QED
  BY <1>1, <1>2 DEF PollDepth

(* Every step keeps what the scaler promises.                              *)
LEMMA ScalerStep ==
    ASSUME TypeOK, ScalerInv, [ScaledNext]_scaledVars
    PROVE  ScalerInv'
<1>1. IsFiniteSet(Busy') /\ Cardinality(Busy') <= MaxWorkers
  BY BusyStep
<1> USE ScalerAssumption DEF ScalerInv, CurrentIsReserved, InBounds
<1>2. CASE UNCHANGED scalerVars
  BY <1>1, <1>2 DEF scalerVars
<1>3. CASE StartScaler
  BY <1>1, <1>3 DEF StartScaler
<1>4. ASSUME NEW backlog \in Nat, PollDepth(backlog)
      PROVE  ScalerInv'
  BY <1>1, <1>4, PollStays
<1>5. CASE Poll
  <2>1. IsFiniteSet({m \in Record : place[m] \in {"queued", "inflight"}})
    BY RecordAssumption, FS_Subset
  <2>2. QueueDepth \in Nat
    BY <2>1, FS_CardinalityType DEF QueueDepth
  <2> QED
    BY <1>4, <1>5, <2>2 DEF Poll
<1>6. CASE Miscount
  <2>1. Cardinality(Record) \in Nat
    BY RecordAssumption, FS_CardinalityType
  <2>2. \A backlog \in 0..Cardinality(Record) : backlog \in Nat
    BY <2>1
  <2> QED
    BY <1>4, <1>6, <2>2 DEF Miscount
<1>7. CASE SetConcurrency
  BY <1>1, <1>7 DEF SetConcurrency
<1>8. CASE SetRaises
  BY <1>1, <1>8 DEF SetRaises, SetOrNot
<1>9. CASE StopScaler
  BY <1>1, <1>9 DEF StopScaler, SetOrNot
<1> QED
  BY <1>2, <1>3, <1>5, <1>6, <1>7, <1>8, <1>9
     DEF ScaledNext, QueueStep, RunReserved, Throttle, ScalerTurn, scaledVars

-----------------------------------------------------------------------------
(* ScaledLambda: the theorems                                              *)

(* The scaler and the handlers keep their invariants together, whatever    *)
(* raises, is killed or miscounts.                                         *)
THEOREM ScaledInvariant == ScaledSpec => [](HandlerInv /\ ScalerInv)
<1>1. ScaledInit => HandlerInv /\ ScalerInv
  <2> SUFFICES ASSUME ScaledInit
               PROVE  HandlerInv /\ ScalerInv
    OBVIOUS
  <2>1. HandlerInv
    BY HandlerInit DEF ScaledInit
  <2>2. Busy = {}
    BY DEF ScaledInit, Init, Busy
  <2>3. IsFiniteSet(Busy) /\ Cardinality(Busy) = 0
    BY <2>2, FS_EmptySet
  <2> QED
    BY <2>1, <2>3, ScalerAssumption DEF ScaledInit, ScalerInv, CurrentIsReserved, InBounds
<1>2. HandlerInv /\ ScalerInv /\ [ScaledNext]_scaledVars => HandlerInv' /\ ScalerInv'
  <2>1. HandlerInv => TypeOK
    BY DEF HandlerInv
  <2> QED
    BY <2>1, HandlerUnderScaler, ScalerStep
<1> QED
  BY <1>1, <1>2, PTL DEF ScaledSpec

(* Between two turns the scaler knows the concurrency in force, unless a   *)
(* call raised that had taken effect (scaler.py:97-100).                   *)
THEOREM ScalerKnowsReserved == ScaledSpec => []CurrentIsReserved
<1>1. ScalerInv => CurrentIsReserved
  BY DEF ScalerInv
<1> QED
  BY <1>1, ScaledInvariant, PTL

(* Under a scaler the reserved concurrency is between MIN_WORKERS and      *)
(* MAX_WORKERS, and never are more than MAX_WORKERS environments busy.     *)
THEOREM ConcurrencyBounded ==
    ScaledSpec => []/\ scaler # "off" => reserved \in MinWorkers..MaxWorkers
                    /\ Cardinality(Busy) <= MaxWorkers
<1>1. ScalerInv => /\ scaler # "off" => reserved \in MinWorkers..MaxWorkers
                   /\ Cardinality(Busy) <= MaxWorkers
  BY DEF ScalerInv, InBounds
<1> QED
  BY <1>1, ScaledInvariant, PTL

(* However many environments are reserved or throttled, a seat is sold     *)
(* once and a record is deleted only with a verdict.                       *)
THEOREM ScaledHandlersKeepTheirWord == ScaledSpec => [](SeatSoldOnce /\ DeletedIsDecided)
<1>1. HandlerInv => SeatSoldOnce /\ DeletedIsDecided
  BY DEF HandlerInv
<1> QED
  BY <1>1, ScaledInvariant, PTL

(* The handlers under the scaler implement the abstract sale.              *)
THEOREM ScaledImplementation == ScaledSpec => ImplementsSale
<1>1. ScaledInit => Sale!Init
  BY SaleInit DEF ScaledInit
<1>2. ASSUME HandlerInv, HandlerInv', [ScaledNext]_scaledVars
      PROVE  Sale!Next \/ UNCHANGED Sale!saleVars
  <2>1. CASE [Next]_vars
    BY <1>2, <2>1, SaleStep
  <2>2. CASE UNCHANGED <<tableVars, txVars, place, batch, next, told>>
    <3>1. rows' = rows /\ sold' = sold /\ told' = told
          /\ \A m \in Record : place'[m] = place[m]
      BY <2>2 DEF tableVars
    <3> QED
      BY <3>1, SaleStays, PhasesStay DEF Sale!saleVars
  <2>3. TypeOK
    BY <1>2 DEF HandlerInv
  <2> QED
    BY <1>2, <2>1, <2>2, <2>3, ScaledCases
<1> QED
  BY <1>1, <1>2, ScaledInvariant, PTL DEF ScaledSpec, Sale!Spec, ImplementsSale
=============================================================================
