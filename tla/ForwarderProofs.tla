--------------------------- MODULE ForwarderProofs ---------------------------
(***************************************************************************)
(* Lemmas about Forwarder, for any messages, batch size and number of      *)
(* errors: the inductive invariant of the bridge, under the assumption     *)
(* Bounds on its constants.  AwsProofs instantiates them with the          *)
(* records of SQS for sent.                                                *)
(***************************************************************************)
EXTENDS Forwarder, FiniteSetTheorems, TLAPS

Bounds == IsFiniteSet(Message) /\ ForwardSize \in Nat \ {0} /\ MaxErrors \in Nat

-----------------------------------------------------------------------------
(* The inductive invariant                                                 *)

BridgeTypeOK ==
    /\ asks \in {Coded, Agreed}
    /\ published \in SUBSET Message /\ waiting \in SUBSET Message
    /\ open \in SUBSET Message /\ stale \in SUBSET Message
    /\ collected \in SUBSET Message
    /\ toAck \in SUBSET Message /\ toNack \in SUBSET Message
    /\ refused \in SUBSET Message
    /\ phase \in {"connect", "get", "settle"}
    /\ sent \in [Message -> Nat]
    /\ errors \in Nat

(* A delivery is at one place, and what the forwarder has in hand is open. *)
PlacesOK ==
    /\ waiting \cap open = {} /\ waiting \cap stale = {} /\ open \cap stale = {}
    /\ phase = "connect" => open = {} /\ collected = {}
    /\ phase = "get" => collected \subseteq open
    /\ phase # "settle" => toAck = {} /\ toNack = {}
    /\ toAck \cup toNack \subseteq open /\ toAck \cap toNack = {}

(* Who declares the queue as it is.                                        *)
DeclaredOK ==
    /\ published # {} => declared = {asks["runner"]}
    /\ phase # "connect" => declared = {asks["forwarder"]}

(* Nothing is sent that was not published, and nothing leaves RabbitMQ     *)
(* that was not sent.                                                      *)
SentOK ==
    /\ InRabbitMQ \subseteq published
    /\ \A m \in Message : sent[m] > 0 => m \in published
    /\ \A m \in toAck : sent[m] > 0
    /\ \A m \in published : m \in InRabbitMQ \/ sent[m] > 0

(* What is still to be sent was sent once for each error at most.          *)
SendsPaid ==
    \A m \in Message : /\ sent[m] <= 1 + errors
                       /\ m \in InRabbitMQ \ toAck => sent[m] <= errors

(* What no batch of the open connection will settle.                       *)
Stranded == open \ (IF phase = "settle" THEN toAck \cup toNack ELSE collected)

(* It is what idle flushes of this connection were refused.                *)
StrandedOK == Stranded = refused

BridgeInv == /\ BridgeTypeOK /\ PlacesOK
             /\ DeclaredOK /\ BridgeNeedsAgreement
             /\ SentOK /\ SendsPaid /\ StrandedOK

-----------------------------------------------------------------------------
(* Steps                                                                   *)

(* The actions of Next, one by one.                                        *)
LEMMA NextCases ==
    ASSUME Next
    PROVE  \/ SetUp \/ Connect \/ Settled \/ Lose \/ DropStale
           \/ \E m \in Message : Publish(m) \/ Get(m) \/ Ack(m) \/ Nack(m)
           \/ \E A \in SUBSET collected : SendBatch(A) \/ SendRaises(A)
  BY DEF Next, Loop

(* Every variable keeps its type.                                          *)
LEMMA TypeStep ==
    ASSUME Bounds, BridgeTypeOK, Next
    PROVE  BridgeTypeOK'
<1> USE DEF Bounds, BridgeTypeOK, queueVars, brokerVars
<1>1. CASE SetUp \/ Connect \/ Settled \/ DropStale
  BY <1>1 DEF SetUp, Connect, Settled, DropStale, Declare
<1>2. CASE Lose
  BY <1>2 DEF Lose, Leave
<1>3. ASSUME NEW m \in Message, Publish(m) \/ Get(m) \/ Ack(m) \/ Nack(m)
      PROVE  BridgeTypeOK'
  BY <1>3 DEF Publish, Get, Ack, Nack, Declare
<1>4. ASSUME NEW A \in SUBSET collected, SendBatch(A)
      PROVE  BridgeTypeOK'
  <2>1. IsFiniteSet(collected \ A)
    BY FS_Subset
  <2>2. Cardinality(collected \ A) \in Nat
    BY <2>1, FS_CardinalityType
  <2>3. sent' \in [Message -> Nat]
    BY <1>4 DEF SendBatch, Deliver
  <2>4. toNack' \in SUBSET Message
    BY <1>4 DEF SendBatch
  <2> QED
    BY <1>4, <2>2, <2>3, <2>4 DEF SendBatch
<1>5. ASSUME NEW A \in SUBSET collected, SendRaises(A)
      PROVE  BridgeTypeOK'
  <2>1. sent' \in [Message -> Nat]
    BY <1>5 DEF SendRaises, Deliver
  <2> QED
    BY <1>5, <2>1 DEF SendRaises, Leave
<1> QED
  BY NextCases, <1>1, <1>2, <1>3, <1>4, <1>5

(* No step puts a delivery at two places.                                  *)
LEMMA PlacesStep ==
    ASSUME BridgeTypeOK, PlacesOK, SentOK, Next
    PROVE  PlacesOK'
<1> USE DEF BridgeTypeOK, PlacesOK, queueVars, brokerVars
<1>1. CASE SetUp \/ Connect \/ Settled
  BY <1>1 DEF SetUp, Connect, Settled
<1>2. CASE Lose \/ DropStale
  BY <1>2 DEF Lose, Leave, DropStale
<1>3. ASSUME NEW m \in Message, Publish(m)
      PROVE  PlacesOK'
  BY <1>3 DEF Publish, SentOK, InRabbitMQ
<1>4. ASSUME NEW m \in Message, Get(m)
      PROVE  PlacesOK'
  BY <1>4 DEF Get
<1>5. ASSUME NEW m \in Message, Ack(m)
      PROVE  PlacesOK'
  BY <1>5 DEF Ack
<1>6. ASSUME NEW m \in Message, Nack(m)
      PROVE  PlacesOK'
  BY <1>6 DEF Nack
<1>7. ASSUME NEW A \in SUBSET collected, SendBatch(A)
      PROVE  PlacesOK'
  BY <1>7 DEF SendBatch, Due
<1>8. ASSUME NEW A \in SUBSET collected, SendRaises(A)
      PROVE  PlacesOK'
  BY <1>8 DEF SendRaises, Leave
<1> QED
  BY NextCases, <1>1, <1>2, <1>3, <1>4, <1>5, <1>6, <1>7, <1>8

(* The queue is as whoever uses it declares it.                            *)
LEMMA DeclaredStep ==
    ASSUME BridgeTypeOK, PlacesOK, SentOK, DeclaredOK, BridgeNeedsAgreement, Next
    PROVE  DeclaredOK' /\ BridgeNeedsAgreement'
<1> USE DEF BridgeTypeOK, DeclaredOK, BridgeNeedsAgreement
<1>1. CASE SetUp
  BY <1>1 DEF SetUp, Declare, brokerVars
<1>2. CASE Connect
  BY <1>2 DEF Connect, Declare, brokerVars
<1>3. ASSUME NEW m \in Message, Publish(m)
      PROVE  DeclaredOK' /\ BridgeNeedsAgreement'
  BY <1>3 DEF Publish, Declare
<1>4. CASE Settled \/ Lose \/ DropStale
  BY <1>4 DEF Settled, Lose, Leave, DropStale, queueVars, brokerVars, PlacesOK
<1>5. ASSUME NEW m \in Message, Get(m) \/ Ack(m) \/ Nack(m)
      PROVE  DeclaredOK' /\ BridgeNeedsAgreement'
  BY <1>5 DEF Get, Ack, Nack, queueVars
<1>6. ASSUME NEW A \in SUBSET collected, SendBatch(A) \/ SendRaises(A)
      PROVE  DeclaredOK' /\ BridgeNeedsAgreement'
  <2>1. /\ asks' = asks /\ declared' = declared /\ published' = published
        /\ phase = "get" /\ phase' \in {"settle", "connect"}
        /\ collected # {} /\ collected \subseteq open
    BY <1>6 DEF SendBatch, SendRaises, Leave, Due, queueVars, brokerVars, PlacesOK
  <2>2. published # {}
    BY <2>1 DEF SentOK, InRabbitMQ
  <2>3. asks["forwarder"] = asks["runner"]
    BY <2>1, <2>2
  <2> QED
    BY <2>1, <2>3
<1> QED
  BY NextCases, <1>1, <1>2, <1>3, <1>4, <1>5, <1>6

(* What SQS receives grows by what a batch delivers.                       *)
LEMMA Delivered ==
    ASSUME BridgeTypeOK, NEW A \in SUBSET collected, Deliver(A), NEW m \in Message
    PROVE  /\ sent'[m] = IF m \in A THEN sent[m] + 1 ELSE sent[m]
           /\ sent[m] \in Nat /\ sent'[m] \in Nat
  BY DEF Deliver, BridgeTypeOK

(* No step drops a message, or sends one nobody published.                 *)
LEMMA SentStep ==
    ASSUME BridgeTypeOK, PlacesOK, SentOK, Next
    PROVE  SentOK'
<1> USE DEF SentOK, InRabbitMQ, queueVars, brokerVars
<1>1. CASE SetUp \/ Connect \/ Settled \/ Lose \/ DropStale
  BY <1>1 DEF SetUp, Connect, Settled, Lose, Leave, DropStale
<1>2. ASSUME NEW m \in Message, Publish(m)
      PROVE  SentOK'
  BY <1>2 DEF Publish
<1>3. ASSUME NEW m \in Message, Get(m)
      PROVE  SentOK'
  BY <1>3 DEF Get
<1>4. ASSUME NEW m \in Message, Ack(m)
      PROVE  SentOK'
  BY <1>4 DEF Ack
<1>5. ASSUME NEW m \in Message, Nack(m)
      PROVE  SentOK'
  BY <1>5 DEF Nack, PlacesOK
<1>6. ASSUME NEW A \in SUBSET collected, SendBatch(A) \/ SendRaises(A)
      PROVE  SentOK'
  <2>1. A \subseteq published /\ Deliver(A) /\ A \subseteq Message
    BY <1>6 DEF SendBatch, SendRaises, Due, PlacesOK, BridgeTypeOK
  <2>2. \A m \in Message : /\ sent'[m] > 0 => sent[m] > 0 \/ m \in A
                           /\ sent[m] > 0 => sent'[m] > 0
                           /\ m \in A => sent'[m] > 0
    BY <2>1, Delivered
  <2>3. published' = published /\ InRabbitMQ' = InRabbitMQ
    BY <1>6 DEF SendBatch, SendRaises
  <2>4. toAck' = A \/ toAck' = {}
    BY <1>6 DEF SendBatch, SendRaises, Leave
  <2>5. published \subseteq Message
    BY DEF BridgeTypeOK
  <2> QED
    BY <2>1, <2>2, <2>3, <2>4, <2>5
<1> QED
  BY NextCases, <1>1, <1>2, <1>3, <1>4, <1>5, <1>6

(* A message is sent again only after an error paid for it.                *)
LEMMA SendsStep ==
    ASSUME Bounds, BridgeTypeOK, BridgeTypeOK', PlacesOK, SentOK, SendsPaid, Next
    PROVE  SendsPaid'
<1> USE DEF SendsPaid, InRabbitMQ, queueVars, brokerVars
<1>1. CASE SetUp \/ Connect \/ Settled \/ DropStale
  BY <1>1 DEF SetUp, Connect, Settled, DropStale, PlacesOK
<1>2. CASE Lose
  BY <1>2 DEF Lose, Leave, BridgeTypeOK
<1>3. ASSUME NEW m \in Message, Publish(m)
      PROVE  SendsPaid'
  <2>1. sent[m] = 0 /\ errors \in Nat
    BY <1>3 DEF Publish, SentOK, BridgeTypeOK
  <2> QED
    BY <1>3, <2>1 DEF Publish
<1>4. ASSUME NEW m \in Message, Get(m) \/ Ack(m) \/ Nack(m)
      PROVE  SendsPaid'
  BY <1>4 DEF Get, Ack, Nack, PlacesOK
<1>5. ASSUME NEW A \in SUBSET collected, SendBatch(A)
      PROVE  SendsPaid'
  <2>1. /\ Deliver(A) /\ toAck' = A /\ toAck = {} /\ A \subseteq open /\ errors \in Nat
        /\ waiting' = waiting /\ open' = open /\ stale' = stale
    BY <1>5 DEF SendBatch, Due, PlacesOK, BridgeTypeOK
  <2>2. errors' >= errors /\ errors' \in Nat
    <3>1. IsFiniteSet(collected \ A)
      BY FS_Subset DEF Bounds, BridgeTypeOK
    <3>2. Cardinality(collected \ A) \in Nat
      BY <3>1, FS_CardinalityType
    <3> QED
      BY <1>5, <2>1, <3>2 DEF SendBatch
  <2> SUFFICES ASSUME NEW m \in Message
               PROVE  /\ sent'[m] <= 1 + errors'
                      /\ m \in (waiting \cup open \cup stale) \ A => sent'[m] <= errors'
    BY <2>1
  <2>3. /\ sent'[m] = IF m \in A THEN sent[m] + 1 ELSE sent[m]
        /\ sent[m] \in Nat /\ sent[m] <= 1 + errors
        /\ m \in waiting \cup open \cup stale => sent[m] <= errors
    BY <2>1, Delivered
  <2> QED
    BY <2>1, <2>2, <2>3
<1>6. ASSUME NEW A \in SUBSET collected, SendRaises(A)
      PROVE  SendsPaid'
  <2>1. /\ Deliver(A) /\ toAck' = {} /\ toAck = {} /\ A \subseteq open /\ errors \in Nat
        /\ errors' = errors + 1
        /\ waiting' \cup open' \cup stale' = waiting \cup open \cup stale
    BY <1>6 DEF SendRaises, Leave, Due, PlacesOK, BridgeTypeOK
  <2> SUFFICES ASSUME NEW m \in Message
               PROVE  /\ sent'[m] <= 1 + errors'
                      /\ m \in waiting \cup open \cup stale => sent'[m] <= errors'
    BY <2>1
  <2>2. /\ sent'[m] = IF m \in A THEN sent[m] + 1 ELSE sent[m]
        /\ sent[m] \in Nat /\ sent[m] <= 1 + errors
        /\ m \in waiting \cup open \cup stale => sent[m] <= errors
    BY <2>1, Delivered
  <2> QED
    BY <2>1, <2>2
<1> QED
  BY NextCases, <1>1, <1>2, <1>3, <1>4, <1>5, <1>6

(* A batch strands what SQS refused of it when it is not full, and a new   *)
(* connection leaves nothing stranded.                                     *)
LEMMA StrandedStep ==
    ASSUME PlacesOK, StrandedOK, Next
    PROVE  StrandedOK'
<1> USE DEF StrandedOK, Stranded, PlacesOK, queueVars, brokerVars
<1>1. CASE SetUp \/ DropStale \/ Settled
  BY <1>1 DEF SetUp, DropStale, Settled
<1>2. CASE Connect
  BY <1>2 DEF Connect
<1>3. CASE Lose
  BY <1>3 DEF Lose, Leave
<1>4. ASSUME NEW A \in SUBSET collected, SendRaises(A)
      PROVE  StrandedOK'
  BY <1>4 DEF SendRaises, Leave
<1>5. ASSUME NEW m \in Message, Publish(m) \/ Get(m)
      PROVE  StrandedOK'
  BY <1>5 DEF Publish, Get
<1>6. ASSUME NEW m \in Message, Ack(m) \/ Nack(m)
      PROVE  StrandedOK'
  BY <1>6 DEF Ack, Nack
<1>7. ASSUME NEW A \in SUBSET collected, SendBatch(A)
      PROVE  StrandedOK'
  <2>1. /\ phase = "get" /\ phase' = "settle" /\ open' = open /\ collected \subseteq open
        /\ toAck' = A /\ toNack' = (IF Full THEN collected \ A ELSE {})
        /\ refused' = refused \cup (IF Full THEN {} ELSE collected \ A)
    BY <1>7 DEF SendBatch, Due
  <2>2. refused = open \ collected
    BY <2>1
  <2>3. CASE Full
    BY <2>1, <2>2, <2>3
  <2>4. CASE ~Full
    BY <2>1, <2>2, <2>4
  <2> QED
    BY <2>3, <2>4
<1> QED
  BY NextCases, <1>1, <1>2, <1>3, <1>4, <1>5, <1>6, <1>7

-----------------------------------------------------------------------------
(* The invariant                                                           *)

(* The bridge begins with nothing published and nobody connected.          *)
LEMMA BridgeInit == Init => BridgeInv
<1> SUFFICES ASSUME Init
             PROVE  BridgeInv
  OBVIOUS
<1>1. StrandedOK
  BY DEF Init, StrandedOK, Stranded
<1> QED
  BY <1>1 DEF Init, BridgeInv, BridgeTypeOK, PlacesOK, DeclaredOK, BridgeNeedsAgreement, SentOK,
              SendsPaid, InRabbitMQ

(* Every step of the bridge keeps the invariant.                           *)
LEMMA BridgeStep ==
    ASSUME Bounds, BridgeInv, [Next]_vars
    PROVE  BridgeInv'
<1>1. CASE Next
  BY <1>1, TypeStep, PlacesStep, DeclaredStep, SentStep, SendsStep, StrandedStep DEF BridgeInv
<1>2. CASE UNCHANGED vars
  <2> USE <1>2 DEF vars, forwarderVars, queueVars, brokerVars, BridgeInv
  <2> QED
    BY DEF BridgeTypeOK, PlacesOK, DeclaredOK, BridgeNeedsAgreement, SentOK, SendsPaid,
           InRabbitMQ, StrandedOK, Stranded
<1> QED
  BY <1>1, <1>2

(* The invariant gives what the bridge promises.                           *)
LEMMA BridgePromises ==
    ASSUME BridgeInv
    PROVE  /\ RepeatsNeedErrors /\ StrandedAreRefused /\ BridgeNeedsAgreement
           /\ \A m \in published : m \in InRabbitMQ \/ sent[m] > 0
<1>1. RepeatsNeedErrors
  BY DEF BridgeInv, SendsPaid, RepeatsNeedErrors
<1>2. StrandedAreRefused
  BY DEF BridgeInv, StrandedOK, Stranded, StrandedAreRefused
<1> QED
  BY <1>1, <1>2 DEF BridgeInv, SentOK

(* Whatever is refused, lost or sent again, the bridge keeps its invariant.*)
THEOREM BridgeInvariant ==
    ASSUME Bounds
    PROVE  Spec => []BridgeInv
<1>1. BridgeInv /\ [Next]_vars => BridgeInv'
  BY BridgeStep
<1> QED
  BY BridgeInit, <1>1, PTL DEF Spec
=============================================================================
