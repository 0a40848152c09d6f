---------------------------- MODULE AwsPipeline ----------------------------
(***************************************************************************)
(* The AWS variant from RabbitMQ to PostgreSQL: the records of SQS are the *)
(* ones the forwarder sends, one for each time SQS received a message.     *)
(***************************************************************************)
EXTENDS LambdaHandler

CONSTANTS Message, ForwardSize, MaxErrors,
          MessageOf   \* the message each record carries

ASSUME ForwarderAssumption ==
    IsFiniteSet(Message) /\ ForwardSize \in Nat \ {0} /\ MaxErrors \in Nat

ASSUME MessageOfAssumption == MessageOf \in [Record -> Message]

VARIABLES asks, declared, published, waiting, open, stale, collected, phase, toAck,
          toNack, refused, errors

bridgeVars == <<asks, declared, published, waiting, open, stale, collected, phase, toAck,
                toNack, refused, errors>>

RecordsOf(m) == {r \in Record : MessageOf[r] = m}

Received(m) == {r \in RecordsOf(m) : place[r] # "unsent"}

Bridge == INSTANCE Forwarder WITH sent <- [m \in Message |-> Cardinality(Received(m))]

PipelineInit == Init /\ Bridge!Init

(* The forwarder goes on; what it sends to SQS arrives there.              *)
ForwarderStep == /\ \E R \in SUBSET {r \in Record : place[r] = "unsent"} : Move(R, "queued")
                 /\ Bridge!Next
                 /\ UNCHANGED <<tableVars, txVars, receives, batch, next, told, faults>>

LambdaStep == /\ \/ \E m \in Record : DeadLetter(m)
                 \/ \E e \in Env : Run(e) \/ Interrupt(e)
              /\ UNCHANGED bridgeVars

PipelineNext == ForwarderStep \/ LambdaStep

pipelineVars == <<vars, bridgeVars>>

PipelineSpec == PipelineInit /\ [][PipelineNext]_pipelineVars

-----------------------------------------------------------------------------
(* Properties *)

RepeatsNeedErrors == Bridge!RepeatsNeedErrors

StrandedAreRefused == Bridge!StrandedAreRefused

BridgeNeedsAgreement == Bridge!BridgeNeedsAgreement

(* From the generator to PostgreSQL, a message is at every moment in       *)
(* RabbitMQ, in SQS or at a handler, in the dead-letter queue, or decided. *)
NothingLostEndToEnd ==
    \A m \in published :
        \/ m \in Bridge!InRabbitMQ
        \/ \E r \in RecordsOf(m) : \/ place[r] \in {"queued", "inflight", "dead"}
                                   \/ rows[OrderOf[r].id] # NoRow
                                   \/ Invalid(r)
=============================================================================
