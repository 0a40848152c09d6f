# Verification of the ticket systems of CommunicationModels-SD

This directory holds TLA+ models of the ticket systems under `src/`, the
TLC configurations that check them on small instances, and proofs, checked by
TLAPS, of the properties that matter most. Every definition is translated from
the source; the table in `PROJECT.json` ("map") names the lines of each.

To check it: `tlc -config X.cfg M` for the runs below, `tlapm M.tla` for
`DirectApiProofs`, `DirectRunsProofs`, `IndirectQueueProofs`, `IndirectUseProofs`, `LambdaHandlerProofs`,
`ForwarderProofs`, `AwsProofs` and `ConsistencyLocksProofs`.

## The system

Two variants sell the same tickets: 20,000 unnumbered ones, counted, and 20,000
numbered seats, each sold once. A third, newer variant in `p2-aws/` moves the
purchase into AWS Lambda functions over PostgreSQL.

| Component (source) | State it keeps | Operations | What makes it correct |
|---|---|---|---|
| Ticket store `RedisBackend` (`src/backend/storage.py`) | counter key, one key per sold seat | bounded INCR (Lua), SET NX, reset (DEL, SCAN/DEL loop), get_stats | never more than the limit, one winner per seat, a reset that leaves nothing |
| `TicketManager` (`src/backend/ticket_manager.py`), one per process | `processed_requests`, a dictionary of responses by request id | buy_ticket, buy_unnumbered, buy_numbered, reset | a repeated request id gets the first answer, only answers that were given are cached |
| Direct API server (`src/direct/api/server.py`), 3 replicas | the TicketManager | POST /buy, POST /reset, GET /stats, /health | every call ends, the answer is what happened |
| Direct client, load balancers (`src/direct/client`, `load_balancer`, `nginx/`) | a thread pool; a round-robin counter | send a request, choose a replica | no request is sent twice |
| Indirect worker (`src/indirect/worker/worker.py`), 2 to 4 containers | connection, channel, the TicketManager | consume, process, respond, ack or nack, shutdown | the response precedes the ack; no message lost |
| RabbitMQ queues (`src/indirect/queue/queue_config.py`) | ticket_purchases, ticket_responses, ticket_dlq | deliver, take back, expire, dead-letter | a copy is in one place |
| `WorkerPool` (`worker.py`, `__main__.py`), with `--workers` above 1 | workers and their threads under a lock | add, remove, stop all, a signal handler | who is stopped stops; what a stopped or ended thread held is settled by another |
| Producer, bulk producer (`src/indirect/producer`) | connection; a buffer under a lock | publish, flush | what is buffered is sent |
| Benchmark runs (`src/experiments/benchmark.py`, `scripts/run_all_benchmarks.sh`) | the results of a run | reset everything, publish, collect responses | a run measures itself only |
| `ConsistencyManager` (`src/backend/consistency.py`) | lock objects, Redis locks with expiry | acquire, release | one holder, up to the races it leaves open; no lock outlives its holder |
| AWS forwarder (`src/p2-aws/src/forwarder/forwarder.py`) | a batch and its delivery tags | collect, send to SQS, ack, nack, flush when idle | no message lost between RabbitMQ and SQS; one is repeated only after an error |
| AWS workload generator and runner (`src/p2-aws/src/client`) | a channel shared by threads | declare the queue, publish | what is published reaches the forwarder |
| AWS Lambda handler, SQS (`src/p2-aws/src/lambda_worker/handler.py`, `infra/`) | the batch of an invocation | receive, process each record, delete or retry | a deleted record was decided; every record settles |
| AWS ticket processor, PostgreSQL (`ticket_processor.py`, `setup_postgres.sh`) | counter row, seat rows, request rows | buy in one transaction | the counter is the rows; no seat and no request sold twice |
| AWS scaler (`src/p2-aws/src/scaling/scaler.py`) | the concurrency it last set, the last backlog | poll the queue depth, compute, set the reserved concurrency | it knows the concurrency in force; a surge does not leave the function scaled up |
| Metrics, plots, scripts, infrastructure | files | calculations, container lifecycle | |

How they interact. **Direct:** a client's call goes through nginx (or the
round-robin balancer) to one replica, whose TicketManager asks the one Redis all
replicas share. The handlers are coroutines that never await, so each replica
runs one handler at a time; handlers of different replicas interleave at every
Redis command. **Indirect:** a producer publishes to `ticket_purchases`; a worker
with a prefetch of one takes a message, buys at the same Redis, publishes the
response, and acknowledges. A message it cannot process is rejected to
`ticket_dlq`. Redis itself is modelled as reliable, its connections are not.
**AWS:** a forwarder takes messages from RabbitMQ, sends them to SQS ten at a time,
and acknowledges those SQS accepted. SQS invokes Lambda environments with batches, as many at
once as the scaler, a process of its own, has reserved; each
record is one PostgreSQL transaction (a row lock on the counter, or
`FOR UPDATE SKIP LOCKED` on the seat). If a record raises, the whole batch comes
back, the records that were committed with it, and after enough receives the
batch goes to the dead-letter queue.

What is hard: a sale takes place in Redis, before and apart from the cache
entry and the answer that tell of it. Between these steps other processes
run, connections break (redis-py repeats a command that may have run
already), processes crash and restart with an empty cache, RabbitMQ hands a
message to a second worker while the first still works on it, and resets
delete what was sold. `PROJECT.json` ("hazards") lists each such place and the
properties that watch it.

## Modules

```
TicketSale            what a variant promises
   ^ implements                   ^ implements
DirectApi --> TicketBackend   LambdaHandler --> TicketProcessor
   ^            ^  (Redis +       ^    ^          (PostgreSQL)
   |            |  TicketManager) |    |
   |      IndirectQueue           |  AwsPipeline ----> Forwarder
   |       ^    ^    ^            |
DirectRuns |    |  IndirectRuns  ScaledLambda
           |  WorkerPool
      BulkProducer                    ConsistencyLocks
Proofs (TLAPS), each of which EXTENDS what it is about:
  DirectApiProofs <- DirectRunsProofs
  IndirectQueueProofs (IndirectQueue, BulkProducer) <- IndirectUseProofs (WorkerPool, IndirectRuns)
  LambdaHandlerProofs <- AwsProofs (AwsPipeline, ScaledLambda) -> ForwarderProofs
  ConsistencyLocksProofs
MCDirectApi, MCDirectRuns, MCBulkProducer, MCWorkerPool, MCIndirectRuns,
MCLambdaHandler, MCScaledLambda, MCForwarder, MCAwsPipeline,
MCConsistencyLocks (instances for TLC)
```

**TicketSale** is the abstract sale: a purchase is asked for, may take a ticket
of a limited stock or a free seat, and is confirmed only if it did; an operator
may withdraw what was sold. A lost reply may waste stock; nothing else may.

**TicketBackend** holds what both transports share. `count` and `owner` are the
Redis keys (`owner[s] # Nobody` is the existence of a seat's key), `processed` the
`processed_requests` of each process. `IncrBounded` is the Lua script, `SetSeatNX`
the SET NX, `DeleteCounter` and `DeleteSeats` the deletions of `reset`;
`Cached`, `NeedsStore`, `RunCommand`, `Answer`, `DuplicateOf`, `Remember`, `Forget` are the
parts of `TicketManager.buy_ticket` and `reset`. For whom a ticket was taken
(`buyers`, who `owner` names, `voided`) is history: Redis does not store it and no guard
reads it.

**DirectApi** is the REST variant. A purchase is one HTTP call. `Send` is the client
and the load balancer; `RejectMalformed`, `AnswerDuplicate`, `RefuseOutOfRange` are the
three ways POST /buy ends without a Redis command; `BeginPurchase`, `Execute`, `Finish` are the
handler up to its command, the command in Redis, and the handler from the
reply to the answer. POST /reset is `BeginReset`, `ResetCounter`, any number of `ResetBatch`
(a SCAN that returns some keys, and their DEL), and `FinishReset` (the last SCAN and
the cache). SCAN is modelled by its guarantee: it returns every key that is
there from its start to its end, in any order, and may return any key that
exists now. `BreakConnection` and `BreakReset` are a broken Redis connection before or after
the command ran; `Crash` and `Restart` are the container. `quiet`, `blind` and `forgotten` are
history for the properties.

**DirectRuns** puts the benchmark over it: `PostReset`, `ResetRefused`, `Watch` and `FallBack` are
reset_direct_state; `Post`, `Refused`, `Receive`, `TimeOut` a thread of the client's pool with one item, sent through nginx or the
client's own round robin (any replica, which covers both); `EndRun` the
summary, `SuccessfulRequests` what get_results counts in it, DUPLICATE answers among them, `DuplicateSales` what
get_stats_numbered finds, `NextRun` the loop of the script. A call whose client timed out is still served, in
this run or a later one; `clean` says that the run began without any.

**IndirectQueue** is the queue variant: `Publish`, `Expire`, `Deliver` for the broker; `RejectMalformed`,
`AnswerDuplicate`, `RefuseSeat`, `Execute`, `Finish`, `PublishResponse`, `Ack` for
`_process_message`, one action for every interval in which nothing outside can
happen; `GiveUp` for a worker that finds its channel closed; `Disconnect`, `Crash`, `BreakRedis`,
`Restart`. The queues are counts of the copies of each message, so a waiting copy may be
delivered in any order, which covers the order RabbitMQ keeps and the one it
loses by taking copies back.

**BulkProducer** puts the producer mode over it: `AddRequest` and `EndOfFile` are load_and_send_file, `PublishNext`
and `ClearBuffer` the flush. `PublishRaises` ends a flush where it is and keeps the buffer, and with it
what was published already; then the caller may flush again (`FlushAgain`), run the producer again from the
start of the file (`RunAgain`), or leave it. After `FlushAgain` the model's caller also goes on with the rest of the
file, which load_and_send_file, left by an exception, does not do: more behaviour than the code has, none less. The lock that add_request and flush share is why their
parts are not interleaved with each other; the workers go on underneath. The properties of IndirectQueue are
checked here, where messages reach the queue as the code sends them.

**WorkerPool** runs the workers of IndirectQueue in the two ways a container can. Alone, a worker is its process
and is restarted. In a pool, `StartThread` starts the thread and `Register` enters it in `workers` only
afterwards; `Connect` is start() up to basic_consume, `ConnectRaises` a start that fails, `Consume` the handler.
`Take` is the part of remove_worker under the lock and `Stop` what follows outside it: the channel closes under
a worker that may be anywhere in its handler, and its Redis connection with it (`CutRedis`). `ListWorkers`,
`RemoveNext`, `StopAllReturns` are stop_all. A worker stopped before it connected is `doomed`: nothing in start()
asks for it, so it connects and consumes (`astray`), in nobody's registry (the exception in StopAllStops). `Connect` is one step, so a stop between the connection and
basic_consume is not told apart from one before both. `ExitProcess` is a signal: the handler
that the last worker installed stops that worker and exits, which ends all the other threads where they are.

**IndirectRuns** puts the benchmark over IndirectQueue: `Flush`, `FlushFails`, `RestartWorker` (reset_indirect_state),
`BeginRun`, `Send`, `AllSent`, `Collect`, `EndRun`, `AbandonRun`, with all the steps of workers, queue and
faults going on underneath. The script calls the reset as `reset_indirect_state || log_warning ...`
(`run_all_benchmarks.sh:343`). Left of `||` bash ignores `set -e`, so a FLUSHDB that fails or is left out (remote
Redis) does not stop the reset, a restart may restart any of the workers or none, and since the status of the function is that
of its last command, the warning is hardly ever printed; the run starts in any case. `BeginRun` therefore asks
neither for the flush nor for the restarts. The purge changes nothing in the model, because it empties queues of other names;
that it fails changes nothing either. `emptied` and `leftover`, what the reset found in the queue and at
the workers, are history: FreshStart says that whatever of it failed, what a run starts with comes from `leftover`.

**TicketProcessor** is `process_unnumbered` and `process_numbered` of the AWS variant, one
action per SQL statement, for any number of Lambda environments with one
connection each. The committed tables are `sold` (the counter) and `rows` (tickets, by request id); what a
transaction has written and not committed, and which row it has locked, follow from where
the environment is and what it found, so a crash (`Discard`) needs no undo. An `UPDATE` or
an insert of a key that another transaction has inserted waits, as PostgreSQL
makes it wait; `SKIP LOCKED` does not: a row that another transaction has locked is not seen, so the seat looks
free although it is sold, its INSERT is tried, and the unique index rejects it. The exception leaves the handler and the
whole batch comes back; nobody is told SOLD OUT on account of a hidden row. A message without a request_id
(NULL in a NOT NULL column) and a seat number that is no integer (TypeError) are left out; both end, as what `Fail`
stands for, in an exception and the batch's retry.

**LambdaHandler** puts SQS and `lambda_handler` over it: `Arrive`, `Invoke` (a batch of waiting
records), `BeginRecord`, `RunStatement`, `EndRecord`, `Unparsable` and `RaiseViolation` (the exceptions that leave the handler),
`FinishBatch`, `Interrupt` (a timeout or a lost environment), `DeadLetter`. It implements
TicketSale, with the committed rows as sales.

**ScaledLambda** puts the scaler beside it: `StartScaler` (a process that sets MIN_WORKERS first), `Poll` (queue depth, arrival
rate since the last poll, number of environments; `PollAtOnce` and `PollAfter` are the two ways
`_estimate_arrival_rate` ends), `SetConcurrency`, `SetRaises` (boto3 raises, with or without effect),
`Miscount` (the depth SQS reports is approximate), `StopScaler`. `RunReserved` is a step of an environment under the
reserved concurrency, `Throttle` a batch that found no free slot. A throttled batch has been received once more,
so a record can reach the dead-letter queue without having been processed at all: RecordsSettle says that it
settles, not that it was tried. A call that raised after it had taken effect leaves the scaler
with a `current_n` that is not in force (`drifted`), and since it calls Lambda only when the computed number
differs from `current_n`, the function may stay scaled up until the next surge; CurrentIsReserved says that
this is the only way.

**Forwarder** is the bridge from RabbitMQ to SQS. Three programs declare `ticket_requests` (`SetUp`, `Connect`, `Publish`,
each with `Declare`): the set-up script, the forwarder at each connection, the benchmark runner. `asks` says with
which arguments: as `Coded`, where they differ, or as `Agreed`, which a repaired set-up would use; RabbitMQ refuses a
declaration that differs from what the queue has. As coded, whichever of forwarder and runner comes second is
refused, so nothing the runner publishes reaches SQS (BridgeNeedsAgreement); all that the other properties say of
the bridge they say of the agreed declarations. A body that is not UTF-8, for which body.decode() raises and
ends the connection each time (`forwarder.py:76`), is left out: the generator publishes JSON. Between `Connect` and the end of its connection the loop of `forwarder.py` is
`Get`, `SendBatch` (SQS accepts any part of the batch), `Ack` and `Nack` one tag at a time, `Settled`,
`SendRaises` (boto3 raises; the loop goes on with the batch still in memory), `Lose` (the connection, SIGTERM or
RabbitMQ's delivery timeout), `DropStale`. **AwsPipeline** composes it with LambdaHandler: what the forwarder has
sent is what SQS receives.

**ConsistencyLocks** is ConsistencyManager for one key. With a Redis client, with_lock is `SetKey` (SET NX PX, which does not
wait), `DeleteKey` (release_lock, whoever set the key), `HolderFails` and `SetReplyLost` (the key stays), and `Lapse` (PX). Without one,
and always for get_seat_lock, `Look` and `Make` are the check and the creation of the Lock object, `Fetch`, `Acquire`,
`TimeOut`, `Leave` and `Release` its use; release_lock looks the object up again (`Leave`). The class is not used by either
variant; its theorems hold for any number of threads, so there is no run beside MCConsistencyLocks.

Operators commented "Slip" are plausible mistakes in the code next to them.
No action uses them: the mutants of `PROJECT.json` put them in place of the
right definition, and the property named there then fails.

## Runs

| Run | Module, cfg | Checks | Instance |
|---|---|---|---|
| direct_safety | MCDirectApi, MCDirectApi.cfg | IInv, NoDoubleSale, NoSilentSale, SameReplicaIdempotent, DuplicateIsGenuine, CacheWriteOnce, QuietResetClears, ImplementsSale | 2 replicas, 4 calls, 1 ticket, 1 seat, 1 retry, 1 fault, 1 reset: 310,556 states |
| direct_live | MCDirectApi, MCDirectApiLive.cfg | CallsSettle | 3 calls with a malformed and an out-of-range one, no retry, 2 faults, 1 reset: 48,060 states |
| direct_reset_caches | MCDirectApi, MCDirectApiReset.cfg | ResetClearsEveryCache is violated | no fault |
| direct_runs | MCDirectRuns, MCDirectRuns.cfg | SummaryAgrees, NoDuplicateSales, DuplicatesExplained, RunsFinish | 2 replicas, 2 runs for one seat (2 calls, then 1 with a request id of the first run), 1 retry, 1 fault, any timeouts: 229,663 states |
| queue_safety | MCBulkProducer, MCBulkProducer.cfg | TypeOK, Conservation, AnswersMatchAcks, SeatToldOnce, StockAccounted, NoUntoldSale, NoOrphanDuplicate, FileSent, RepeatsNeedFailures | 2 workers (symmetric), 3 messages under one request id in batches of 2, one for the ticket and two for the seat, the first published at most twice, 1 retry, 2 faults: 608,743 states |
| queue_pool | MCWorkerPool, MCWorkerPool.cfg | StopAllStops, PoolSettles | 2 workers, alone or in a pool, one purchase and one message that cannot be parsed, no retry, 1 fault: 265,631 states |
| runs_clean | MCIndirectRuns, MCIndirectRuns.cfg | FreshStart, OwnResponses | 2 workers (symmetric), 2 runs of one message, the second with a seat out of range and the same request id, a flush that may fail, any of the workers restarted, 2 faults: 535,451 states |
| runs_stray | MCIndirectRuns, MCIndirectRunsStray.cfg | NoContamination is violated | no fault |
| aws_contention | MCLambdaHandler, MCLambdaHandler.cfg | TypeOK, CounterMatchesRows, SoldToOneRecord, SeatSoldOnce, DeletedIsDecided, NoStandstill, ImplementsSale | 2 environments (symmetric), 6 records, of which either four (two with one request id, two for the last ticket, one unparsable) or the three for one seat arrive; batches of 2, 2 receives, 1 interruption: 537,225 states |
| aws_scaled | MCScaledLambda, MCScaledLambda.cfg | CurrentIsReserved, ScalesBack, RecordsSettle | 1 to 2 environments, 2 records for one seat, 2 receives, 2 faults (of the scaler or of an invocation): 117,247 states |
| aws_pipeline | MCAwsPipeline, MCAwsPipeline.cfg | RepeatsNeedErrors, StrandedAreRefused, BridgeNeedsAgreement, NothingLostEndToEnd | 2 messages, one unparsable, declarations as coded or agreed, 1 forwarder error, 1 interrupted invocation: 244,502 states |
| forwarder_refused | MCForwarder, MCForwarder.cfg | RefusedGoesBack is violated | 1 message, no error of the connection |

Why the bounds are enough to be of interest. One ticket and one seat are the
limit every purchase runs into; the purchases are chosen so that two want the last
ticket, two the same seat, and two carry the same request id, once for
different things. In aws_contention a third record for the seat is what reaches a committed row that SKIP LOCKED hides: the
first sells it, the second holds its row lock, the third does not see it. With all six records at once the run
would not end, so the state constraint `OneCrowd` lets either the one crowd or the other arrive. A record that SQS delivers to
two environments at once is not modelled; two records of one request id stand in for it. Two processes are the least that interleave and the
properties about a replica do not depend on how many others there are (the
proofs cover the rest). One retry lets a command run twice; with none
the same fault makes buy_ticket raise. One fault may come at any step, and its consequences
(a redelivery, a repeated command, a second batch) run on to the end; where the second fault is
of interest, because the first one only causes the second attempt, there are two: direct_live,
queue_safety, runs_clean, aws_scaled. In the AWS runs one row is what two transactions can contend for, two
environments are the least that do, and two receives let a record be retried
once and then dead-lettered. `MaxFaults`, `MaxErrors`, `MaxResets`, `MaxCopies`, `MaxLapses`, `Runs`, `File`
are bounds of the models, not of the code.

Deadlock is not checked: with every call sent, every copy settled and the
bounds used up the models stop, as the systems idle.

**Fairness.** DirectApi: weak fairness of each replica's handler steps (the event loop of
uvicorn runs queued handlers and Redis answers) and of its restart (`restart:
unless-stopped`). DirectRuns: also of the script and its threads, but not of a timeout. WorkerPool: weak
fairness of each worker's own steps (start_consuming delivers while there are messages; a single worker's
container is restarted) and of the callers of add_worker and of a stop_all under way, not of anyone removing a worker or
calling stop_all: PoolSettles is about a pool of which some thread goes on consuming, and about single workers. ScaledLambda: weak fairness of each
environment's steps while a slot is reserved for it (a transaction waits only for one that commits or is rolled back), of the move to the
dead-letter queue, and of the loop of a scaler that runs; nothing starts or restarts the scaler for certain. Nothing is
assumed of clients, faults, resets or throttling.

## What is proved

Every invariant and every action property that a passing run checks, and both refinements of TicketSale, are
theorems for all values of the constants that meet the assumptions below. Nothing else is assumed. The bounds of
the models (`MaxFaults`, `Runs`, ...) are constants too, so the theorems hold for any number of faults, retries,
resets and runs.

| Module | About | Assumptions | Theorems |
|---|---|---|---|
| DirectApiProofs | DirectApi | LimitsAssumption, PurchaseAssumption (finitely many purchases), OrderAssumption, NoSeatAssumption, BoundsAssumption | Invariance (IInv), TypeCorrect, NeverSoldTwice (NoDoubleSale), NoSaleIsSilent (NoSilentSale), IdempotentPerReplica (SameReplicaIdempotent), DuplicatesAreGenuine (DuplicateIsGenuine), CacheNeverRewritten (CacheWriteOnce), QuietResetIsComplete (QuietResetClears), Implementation (ImplementsSale) |
| DirectRunsProofs | DirectRuns | those and RunsAssumption | RunsKeepInvariant (IInv and RunsInv), NeverToldTwice (NoDuplicateSales), DuplicatesRepeatTheRun (DuplicatesExplained), SummariesAgree (SummaryAgrees) |
| IndirectQueueProofs | IndirectQueue, BulkProducer | those of the store, QueueBoundsAssumption, WorkersAssumption (finitely many workers), FileAssumption | QueueInvariant, ServiceInvariant, TypesHold (TypeOK), CopiesConserved (Conservation), AcksFollowAnswers (AnswersMatchAcks), OneBuyerPerSeat (SeatToldOnce), StockIsAccounted (StockAccounted), SalesAreTold (NoUntoldSale), DuplicatesAreDecided (NoOrphanDuplicate), WholeFileSent (FileSent), OnePassPerFailure (RepeatsNeedFailures) |
| IndirectUseProofs | WorkerPool | NumberedAssumption (containers are numbered) | StopAllStopsAll (StopAllStops) |
| | IndirectRuns | those of the queue and RunsAssumption | RunsInvariant, OwnResponsesOnly (OwnResponses), RunsStartFresh (FreshStart) |
| LambdaHandlerProofs | LambdaHandler, TicketProcessor | TicketLimitsAssumption, RecordAssumption (finitely many records), RequestAssumption, SeatNumberAssumption, InvocationAssumption | HandlerInvariant, TypesHold (TypeOK), CounterCountsRows (CounterMatchesRows), SeatsSoldOnce (SeatSoldOnce), OneSalePerRequest (SoldToOneRecord), DeletedWasDecided (DeletedIsDecided), SomeoneGoesOn (NoStandstill), Implementation (ImplementsSale) |
| ForwarderProofs | Forwarder | Bounds | BridgeInvariant |
| AwsProofs | AwsPipeline | those of the handlers, ForwarderAssumption, MessageOfAssumption | PipelineInvariant, PipelineBridges (AwsPipeline implements Forwarder), RepeatsCostErrors (RepeatsNeedErrors), OnlyRefusedStranded (StrandedAreRefused), AgreementNeeded (BridgeNeedsAgreement), NothingLost (NothingLostEndToEnd) |
| | ScaledLambda | those of the handlers, ScalerAssumption | ScaledInvariant, ScalerKnowsReserved (CurrentIsReserved), ConcurrencyBounded, ScaledHandlersKeepTheirWord (SeatSoldOnce, DeletedIsDecided), ScaledImplementation (ImplementsSale) |
| ConsistencyLocksProofs | ConsistencyLocks | LockAssumption (finitely many threads) | LockInvariance, CrowdIsBounded, StuckLockNeedsFault |

The arguments follow, one component at a time. The shape is always the same: few of the properties are inductive, so a
conjunction of named parts is proved inductive, each part with a lemma for the actions that can disturb
it, and the theorems are read off.

**DirectApi.** NoDoubleSale speaks of answers, which
are given long after the sale, so `SalesBacked` follows a sale from the Redis reply
to the answer, and `StoreOK` bounds the buyers by the counter, which the Lua
script bounds by the stock: two confirmed seats would be two owners of one key. `ServingOK`
says that a replica runs one handler, and that the request id of the call it
runs is not in its cache: this is where "handlers never await" enters, and
without it SameReplicaIdempotent fails. `CacheOK` makes a replica's cache the same thing as
its answers, less those a crash or a reset dropped; idempotence and
genuine duplicates follow. `SalesTold` splits NoSilentSale by where the sale is now. `QuietOK` says
what an undisturbed reset has still to delete: exactly what its SCAN has
still to return; that is why the cache and Redis are empty when it answers.

**DirectRuns.** The replicas keep IInv under the benchmark, because each step of it is one of DirectApi's or leaves
the replicas alone. What has to be added is what the script knows. Only the script resets, and only before its run
(`ScriptOK`); a call that was not sent has bought nothing (`UnsentOK`); so no reset withdraws what the current run
bought (`NoneWithdrawn`), and with NoDoubleSale that is NoDuplicateSales, whatever its reset left undone. The other two
are about a run that started clean. Only its own calls are then under way (`OnlyOwn`), so the cache that the reset
emptied remembers only them (`FreshCache`) and a DUPLICATE from there repeats one of them (`OwnDuplicates`).
`SalesPaid` counts: what Redis has sold is at most the calls that were told so or are about to be, and one for
each fault. It starts from zero because a reset that nothing disturbed leaves nothing, which is `QuietOK`
once more, carried through `clean`. SummaryAgrees counts as get_results does, DUPLICATE as successful: those with an
explanation are set off against Redis, and by DuplicatesExplained a run that started clean has no others (`DuplicatesRepeat`).

**IndirectQueue and BulkProducer.** `WorkersOK` is what a worker has in hand at each point of `_process_message`. A seat's
SUCCESS may be carried by a message that was redelivered, so SeatToldOnce rests on two facts: who carries one owns
the key (`SeatClaims`), and of all workers and copies one carries it, once (`SeatClaimedOnce`). A DUPLICATE quotes a
cache, and what is cached was published or is what that worker publishes next (`CacheBacked`, `DuplicateBacked`): a worker
reads its cache again only for its next message, after that response, which is why NoOrphanDuplicate holds. StockAccounted is not inductive either: a worker whose channel is closed will still give
up later, at no further fault, so `StockOK` keeps one fault in reserve for each of these workers (`Cut`).
The producer's part relates the buffer to the file (`BufferOfFile`) and counts passes: every message is published at
most once for each pass over the file, and a pass begins anew only after a publish that raised (`CopiesBounded`).

**WorkerPool.** A worker that stop_all listed and that may still consume is registered or is being stopped by somebody
(`ListedOK`); it cannot come back, because only a worker that was never started is added (`KnownStarted`).

**IndirectRuns.** While a run goes on that began drained, the messages of all other runs are quiet: none waits, none is
being processed, and each response was collected (`OthersQuiet`). FreshStart is inductive by itself: until the run
sends, nothing is published, so the messages still there only become fewer (`RemainingShrinks`), and what is sold after a
flush or cached after a restart is for one of them (`SalesForRemaining`). That the responses collected are all there are is a sum over the runs
(`Taken`); the proof never evaluates the sum and needs only that it depends on nothing but `results`.

**LambdaHandler.** The heart is what PostgreSQL keeps apart while several transactions are open. `CounterHeld`: one transaction at a
time holds the row lock of the counter, and only while there is stock. `Isolated`: what is inserted and not committed
collides neither with a committed row nor with what another transaction inserted, which is what the two unique indexes
guarantee by making the second insert wait. From the first follows CounterMatchesRows, from the second SeatSoldOnce and
that a repeated request id finds its row. `SaleUntold` says that a sale about to be told was told to no other
record; `PassedDecided` that a batch may be deleted only when the handler is past all of it. NoStandstill needs no invariant: it follows from the order of the statements, the counter's
lock before the insert and nothing after it. For the refinement the
committed rows are the abstract sales, and a batch that comes back after its commit is a stutter.

**Forwarder and AwsPipeline.** `PlacesOK`: a delivery is at one place. `SendsPaid`: a message still in RabbitMQ, unless it is about to be acknowledged, was
sent at most once for each error, and any other once more than that. `StrandedOK` follows the refused messages of an idle
flush through the acknowledgements of the others, so that those left without a batch when the next begins are these and no others. `DeclaredOK` ties the
arguments of the queue to who declared it, which is BridgeNeedsAgreement. AwsPipeline implements Forwarder with the records
that have arrived at SQS in place of `sent` (PipelineBridges), and each of its steps is one of Forwarder's or one of
LambdaHandler's, so both invariants hold of it, and NothingLostEndToEnd needs the two together.

**ScaledLambda.** What the scaler computes is within its bounds whatever the queue reports (`_compute_n`), what is in force is
at most MAX_WORKERS, and no more environments are busy than were ever allowed (`ScalerInv`). Throttling and scaling disturb
nothing of HandlerInv, so the handlers keep their word and still implement TicketSale.

**ConsistencyLocks.** `CrowdBounded` is not inductive: that at most one more thread is inside than keys lapsed holds because
the one not let in by a lapse is the key's owner (`LapsesOK`), and that no more threads use Lock objects than are made because
no more use them than are locked (`HeldOK`). With a single object made, locked objects and threads
inside are equally many (`StuckNeedsFault`), which is why a release then finds it locked. The lemmas say how one thread's
move changes the set of those inside, and each action is one of the three cases: enters, leaves, stays.

## Only model-checked

CallsSettle, RunsFinish, PoolSettles, ScalesBack and RecordsSettle: they are liveness properties under fairness, and that
needs ENABLED and an induction over a measure, which are out of TLAPS's reach. The three violations are
counterexamples, which need no proof. MCConsistencyLocks is
the instance (4 threads, 858,837 states) on which the invariant of the locks was tried before it was proved. The other
inductive invariants were tried on the instances of the runs above.

## Disagreements with the repository's own words

1. POST /reset answers "All ticket state cleared" (`server.py:124`), but only the replica
   that handled it forgets its responses; the others go on answering
   DUPLICATE for tickets that are on sale again (direct_reset_caches). The benchmark matrix resets
   this way between runs that use the same request ids, and `get_results` counts a DUPLICATE as
   successful: DuplicatesExplained says that this is where they come from.
2. `run_all_benchmarks.sh:164` purges the queues "to avoid cross-run contamination", but
   under names nothing uses; a run that gave up waiting leaves messages whose
   responses the next run counts as its own (runs_stray).
3. `forwarder.py:82` says that messages SQS refused are nacked "so they retry in RabbitMQ". The flush of
   a full batch does so; the flush of an idle queue (`forwarder.py:72`) acknowledges what was accepted and
   forgets the rest, which stays unacknowledged as long as the connection lives (forwarder_refused).
   RabbitMQ's own delivery timeout would end that connection, so this is a delay, not a loss: the messages refused
   are exactly those stranded (StrandedAreRefused), and NothingLostEndToEnd holds. The trace begins with declarations that
   agree, which is not how the programs declare the queue today.

Three more, which passing runs state as what does hold: `ticket_requests` is declared in three ways, so forwarder and
runner cannot both use it (BridgeNeedsAgreement). `ticket_manager.py:18-20` says that a duplicate request gets the original response
"without re-running the purchase logic", and `server.py:58` calls the request id an idempotency key; that holds of one process
(SameReplicaIdempotent), but `docker-compose.direct.yml` runs three, and a repeated request that nginx sends to
another one is bought again. `worker.py:311` says of stop_all "Stop every worker in the pool."; a worker whose thread has not
connected yet has nothing to close, connects afterwards and consumes (the exception in StopAllStops).

Where a property makes an exception, the excepted case is what the code does and is not caught: StopAllStops leaves out
workers stopped before they connected or registered after stop_all made its list, CurrentIsReserved and ScalesBack a function that a call which
raised after it took effect left scaled up (`drifted`).

## Not modelled, and the plan

Next, in this order:

1. IndirectQueue against TicketSale, with a redelivered message as a purchase asked for again; today only the other two variants are
   shown to implement it.
2. The abstract sale under the benchmark: DirectRuns against TicketSale, with the resets of the script as its withdrawals.
3. Further facts about what is proved already that a reader of the code might ask for: how many sales a redelivery
   can waste in IndirectQueue, what a worker stopped before it connected can still do in WorkerPool.

Not modelled, and why. GET /stats reads the counter and the seats at two moments and only reports them. The AWS workload generator sends from
many threads over one pika channel, for which pika defines nothing; the models take each send as one step that succeeds.
Percentiles, ratios and the validators of `metrics.py` are calculations over finished lists; what they count is
checked where it is made (SummaryAgrees, NoDuplicateSales). Left out of
DirectRuns: nginx gives up a reset after 60 s while the replica goes on with it; what would follow is what
the mutant `PostResetAndGo` shows. Of WorkerPool, pika's behaviour when stop() uses a connection from another thread is
taken to be that of a channel that closes.

Left out for good: plots, workload generation, container set-up, logging,
configuration parsing, and the CDK declarations, which keep no state of the ticket
systems. Abstracted: HTTP status codes (the kinds of answers stay), which thread of a client sends
a call, message contents beyond request id, kind and seat, time (a timeout may come whenever
its wait is on), the order within a queue. In DirectApi a client's timeout is no step: the
replica never learns of it. In DirectRuns, where it decides what the runner counts, it is `TimeOut`.
