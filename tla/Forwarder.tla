----------------------------- MODULE Forwarder -----------------------------
(***************************************************************************)
(* The bridge of the AWS variant: it takes messages from the               *)
(* ticket_requests queue of RabbitMQ one by one, sends them to SQS in      *)
(* batches, and acknowledges what SQS accepted.  A batch goes out when it  *)
(* is full or when the queue is empty; only after a full one are the       *)
(* refused messages given back to RabbitMQ.                                *)
(*                                                                         *)
(* Three programs declare the queue, each with its own arguments, and      *)
(* RabbitMQ refuses a declaration whose arguments are not those the queue  *)
(* has.                                                                    *)
(*                                                                         *)
(* A message is known by its delivery: it waits in the queue, or is        *)
(* unacknowledged on the open connection, or on one the forwarder left     *)
(* open when SQS raised.                                                   *)
(***************************************************************************)
EXTENDS Integers, FiniteSets

CONSTANTS Message,
          ForwardSize,  \* BATCH_SIZE
          MaxErrors     \* bound: refused entries, failed calls, lost connections

VARIABLES asks,       \* the arguments each program declares the queue with
          declared,   \* those it has: none or one of them
          published,  \* messages the generator has sent
          waiting,    \* messages in ticket_requests
          open,       \* unacknowledged on the forwarder's connection
          stale,      \* unacknowledged on a connection it no longer uses
          collected,  \* its batch
          phase,      \* where its loop is
          toAck,      \* messages of the batch SQS accepted, not yet acked
          toNack,     \* messages of a full batch SQS refused, not yet nacked
          refused,    \* history: what SQS refused in the idle flushes of this connection
          sent,       \* how often SQS has received each message
          errors      \* how many errors happened

queueVars     == <<asks, declared>>
brokerVars    == <<published, waiting, open, stale>>
forwarderVars == <<queueVars, brokerVars, collected, phase, toAck, toNack, refused, errors>>
vars == <<forwarderVars, sent>>

(* The three declarations as they are written, and one they could share.   *)
Coded == [setup     |-> {"x-dead-letter-exchange", "x-dead-letter-routing-key"},
          forwarder |-> {"x-dead-letter-exchange"},
          runner    |-> {}]

Agreed == [p \in {"setup", "forwarder", "runner"} |-> Coded["setup"]]

Init == /\ asks \in {Coded, Agreed}
        /\ declared = {}
        /\ published = {}
        /\ waiting = {}
        /\ open = {}
        /\ stale = {}
        /\ collected = {}
        /\ phase = "connect"
        /\ toAck = {}
        /\ toNack = {}
        /\ refused = {}
        /\ sent = [m \in Message |-> 0]
        /\ errors = 0

-----------------------------------------------------------------------------
(* Slip: a queue that exists is declared with passive=True.                *)
DeclarePassive(p) == /\ declared' = IF declared = {} THEN {asks[p]} ELSE declared
                     /\ UNCHANGED asks

(* queue_declare                                                           *)
Declare(p) == /\ declared \subseteq {asks[p]}
              /\ declared' = {asks[p]}
              /\ UNCHANGED asks

(* The set-up script may run before, between or never.                     *)
SetUp == /\ declared = {} /\ Declare("setup")
         /\ UNCHANGED <<brokerVars, collected, phase, toAck, toNack, refused, sent, errors>>

(* benchmark_runner declares the queue, and WorkloadGenerator sends each   *)
(* message once.                                                           *)
Publish(m) == /\ Declare("runner")
              /\ m \notin published
              /\ published' = published \cup {m}
              /\ waiting' = waiting \cup {m}
              /\ UNCHANGED <<open, stale, collected, phase, toAck, toNack, refused, sent,
                              errors>>

(* A refused declaration raises; the forwarder tries again 5 s later.      *)
Connect == /\ phase = "connect"
           /\ Declare("forwarder")
           /\ phase' = "get"
           /\ UNCHANGED <<brokerVars, collected, toAck, toNack, refused, sent, errors>>

Full == Cardinality(collected) >= ForwardSize

(* basic_get returns a message.                                            *)
Get(m) == /\ phase = "get" /\ ~Full
          /\ m \in waiting
          /\ waiting' = waiting \ {m}
          /\ open' = open \cup {m}
          /\ collected' = collected \cup {m}
          /\ UNCHANGED <<queueVars, published, stale, phase, toAck, toNack, refused, sent,
                          errors>>

(* The batch is full, or basic_get returned nothing.                       *)
Due == phase = "get" /\ collected # {} /\ (Full \/ waiting = {})

Deliver(A) == sent' = [m \in Message |-> IF m \in A THEN sent[m] + 1 ELSE sent[m]]

(* Slip: the return of _flush_to_sqs is inside its loop.                   *)
SendBatchAckOne(A) == /\ Due
                      /\ errors + Cardinality(collected \ A) <= MaxErrors
                      /\ errors' = errors + Cardinality(collected \ A)
                      /\ Deliver(A)
                      /\ phase' = "settle"
                      /\ \E m \in A : toAck' = {m}
                      /\ toNack' = IF Full THEN collected \ A ELSE {}
                      /\ refused' = refused \cup (IF Full THEN {} ELSE collected \ A)
                      /\ UNCHANGED <<queueVars, brokerVars, collected>>

(* Slip: after a full batch everything is given back.                      *)
SendBatchNackAll(A) == /\ Due
                       /\ errors + Cardinality(collected \ A) <= MaxErrors
                       /\ errors' = errors + Cardinality(collected \ A)
                       /\ Deliver(A)
                       /\ phase' = "settle"
                       /\ toAck' = A
                       /\ toNack' = IF Full THEN collected ELSE {}
                       /\ refused' = refused \cup (IF Full THEN {} ELSE collected \ A)
                       /\ UNCHANGED <<queueVars, brokerVars, collected>>

(* send_message_batch: SQS accepts the entries A of the batch.             *)
SendBatch(A) == /\ Due
                /\ errors + Cardinality(collected \ A) <= MaxErrors
                /\ errors' = errors + Cardinality(collected \ A)
                /\ Deliver(A)
                /\ phase' = "settle"
                /\ toAck' = A
                /\ toNack' = IF Full THEN collected \ A ELSE {}
                /\ refused' = refused \cup (IF Full THEN {} ELSE collected \ A)
                /\ UNCHANGED <<queueVars, brokerVars, collected>>

(* basic_ack of the accepted ones, one after the other, then basic_nack.   *)
Ack(m) == /\ phase = "settle" /\ m \in toAck
          /\ toAck' = toAck \ {m}
          /\ open' = open \ {m}
          /\ UNCHANGED <<queueVars, published, waiting, stale, collected, phase, toNack,
                         refused, sent, errors>>

(* Slip: requeue=False.                                                    *)
NackDiscards(m) == /\ phase = "settle" /\ toAck = {} /\ m \in toNack
                   /\ toNack' = toNack \ {m}
                   /\ open' = open \ {m}
                   /\ UNCHANGED <<queueVars, published, waiting, stale, collected, phase,
                                  toAck, refused, sent, errors>>

Nack(m) == /\ phase = "settle" /\ toAck = {} /\ m \in toNack
           /\ toNack' = toNack \ {m}
           /\ open' = open \ {m}
           /\ waiting' = waiting \cup {m}
           /\ UNCHANGED <<queueVars, published, stale, collected, phase, toAck, refused, sent,
                           errors>>

Settled == /\ phase = "settle" /\ toAck = {} /\ toNack = {}
           /\ collected' = {}
           /\ phase' = "get"
           /\ UNCHANGED <<queueVars, brokerVars, toAck, toNack, refused, sent, errors>>

(* The loop is left: whatever the batch holds is forgotten.                *)
Leave == /\ phase' = "connect"
         /\ collected' = {}
         /\ toAck' = {}
         /\ toNack' = {}
         /\ refused' = {}
         /\ errors < MaxErrors
         /\ errors' = errors + 1

(* send_message_batch raises, although SQS may have got the entries A.  The*)
(* forwarder connects anew without closing the connection.                 *)
SendRaises(A) == /\ Due
                 /\ Leave
                 /\ Deliver(A)
                 /\ open' = {}
                 /\ stale' = stale \cup open
                 /\ UNCHANGED <<queueVars, published, waiting>>

(* The connection is lost, or closed by SIGTERM between two batches, or    *)
(* the process dies: RabbitMQ takes back what is not acknowledged.         *)
Lose == /\ phase # "connect"
        /\ Leave
        /\ open' = {}
        /\ waiting' = waiting \cup open
        /\ UNCHANGED <<queueVars, published, stale, sent>>

(* RabbitMQ misses the heartbeats of the connection left behind.           *)
DropStale == /\ stale # {}
             /\ stale' = {}
             /\ waiting' = waiting \cup stale
             /\ UNCHANGED <<queueVars, published, open, collected, phase, toAck, toNack,
                            refused, sent, errors>>

-----------------------------------------------------------------------------
Loop == \/ Connect
        \/ \E m \in Message : Get(m) \/ Ack(m) \/ Nack(m)
        \/ \E A \in SUBSET collected : SendBatch(A)
        \/ Settled

Next == \/ SetUp
        \/ \E m \in Message : Publish(m)
        \/ Loop
        \/ \E A \in SUBSET collected : SendRaises(A)
        \/ Lose
        \/ DropStale

Spec == Init /\ [][Next]_vars

-----------------------------------------------------------------------------
(* Properties *)

InRabbitMQ == waiting \cup open \cup stale

(* SQS gets a message again only because something failed.                 *)
RepeatsNeedErrors == \A m \in Message : sent[m] <= 1 + errors

(* forwarder.py:82: messages SQS failed to receive are nacked "so they     *)
(* retry in RabbitMQ": between two batches nothing but the new batch is    *)
(* unacknowledged.                                                         *)
RefusedGoesBack == phase = "get" => open = collected

(* Short of that: between two batches, what is unacknowledged beyond the   *)
(* new batch is what SQS refused in an idle flush of this connection, all  *)
(* of it and nothing else (forwarder.py:66-73): nothing SQS accepted is    *)
(* left to be delivered again, and nothing it refused is acknowledged.     *)
StrandedAreRefused == phase = "get" => open \ collected = refused

(* What the runner publishes reaches SQS only if it declares the queue as  *)
(* the forwarder does; as coded they differ, and whichever comes second is *)
(* refused (forwarder.py:33-34, benchmark_runner.py:31).                   *)
BridgeNeedsAgreement ==
    (\E m \in Message : sent[m] > 0) => asks["forwarder"] = asks["runner"]
=============================================================================
