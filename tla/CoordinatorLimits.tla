-------------------------- MODULE CoordinatorLimits --------------------------
(***************************************************************************)
(* The coordinator's limits: BackpressureController::try_acquire and its   *)
(* guard (coordinator/src/backpressure.rs), and BatchProcessor (batch.rs). *)
(*                                                                         *)
(* Every counter is an atomic of its own, so that requests interleave      *)
(* between any two of them.  A request that waits for a permit may be      *)
(* dropped by its caller, which leaves its slot taken: leaked counts them. *)
(***************************************************************************)
EXTENDS Naturals, Sequences, FiniteSets

CONSTANTS
    Requests,
    MaxConcurrent,    \* max_concurrent
    MaxQueue,         \* max_queue_depth, 0 for none
    MaxRate,          \* requests per window, 0 for no limit
    MaxLeaks,         \* bound: waits dropped
    Batches,          \* concurrent callers of the batch processor
    MaxPending, BatchPermits,   \* max_pending_requests, max_concurrent_batches
    MinSize, MaxSize, \* min_batch_size, max_batch_size
    MaxBatches        \* bound: batches recorded

ASSUME LimitsAssumption ==
    /\ MaxConcurrent \in Nat \ {0} /\ {MaxQueue, MaxRate, MaxLeaks} \subseteq Nat
    /\ BatchPermits \in Nat \ {0} /\ MaxPending \in Nat
    /\ MinSize \in 1..MaxSize /\ MaxSize \in Nat
    /\ IsFiniteSet(Requests) /\ IsFiniteSet(Batches)

VARIABLES
    shedding,         \* enable_load_shedding
    permits, inFlight, queueDepth, windowCount, windowOver,
    request,          \* where each request is
    waiting,          \* the semaphore's queue
    leaked,
    pending, batchPermits, batchSize, batch, batchStats, batchLeaked

limitVars == <<shedding, permits, inFlight, queueDepth, windowCount, windowOver, request,
               waiting, leaked>>
batchVars == <<pending, batchPermits, batchSize, batch, batchStats, batchLeaked>>

-----------------------------------------------------------------------------
LimitsInit ==
    /\ shedding \in BOOLEAN
    /\ permits = MaxConcurrent /\ inFlight = 0 /\ queueDepth = 0
    /\ windowCount = 0 /\ windowOver = FALSE
    /\ request = [r \in Requests |-> "idle"]
    /\ waiting = <<>> /\ leaked = 0

Go(r, at) == request' = [request EXCEPT ![r] = at]

(* RateLimiter::try_acquire, under the lock of the window.                 *)
RateAllows == MaxRate = 0 \/ windowOver \/ windowCount < MaxRate
CheckRate(r) ==
    /\ request[r] = "idle"
    /\ Go(r, IF RateAllows THEN "reserve" ELSE "rejected")
    /\ windowCount' = IF MaxRate = 0 \/ ~RateAllows THEN windowCount
                      ELSE IF windowOver THEN 1 ELSE windowCount + 1
    /\ windowOver' = (windowOver /\ MaxRate = 0)
    /\ UNCHANGED <<permits, inFlight, queueDepth, waiting, leaked>>

(* reserve_queue_slot.                                                     *)
QueueFull == MaxQueue > 0 /\ queueDepth >= MaxQueue
ReserveSlot(r) ==
    /\ request[r] = "reserve"
    /\ IF QueueFull THEN Go(r, "rejected") /\ UNCHANGED queueDepth
       ELSE Go(r, "acquire") /\ queueDepth' = queueDepth + 1
    /\ UNCHANGED <<permits, inFlight, windowCount, windowOver, waiting, leaked>>

(* A permit at once; or the request is shed, or waits in the order of      *)
(* arrival.                                                                *)
Acquire(r) ==
    /\ request[r] = "acquire"
    /\ IF permits > 0 /\ waiting = <<>>
       THEN permits' = permits - 1 /\ Go(r, "unqueue") /\ UNCHANGED waiting
       ELSE IF shedding THEN Go(r, "shed") /\ UNCHANGED <<permits, waiting>>
       ELSE Go(r, "wait") /\ waiting' = Append(waiting, r) /\ UNCHANGED permits
    /\ UNCHANGED <<inFlight, queueDepth, windowCount, windowOver, leaked>>

Granted(r) ==
    /\ request[r] = "wait" /\ permits > 0 /\ Head(waiting) = r
    /\ permits' = permits - 1 /\ waiting' = Tail(waiting) /\ Go(r, "unqueue")
    /\ UNCHANGED <<inFlight, queueDepth, windowCount, windowOver, leaked>>

(* A plausible bug: a request that is shed keeps its slot.                 *)
ShedKeepsSlot(r) ==
    /\ request[r] = "shed" /\ Go(r, "rejected")
    /\ UNCHANGED <<permits, inFlight, queueDepth, windowCount, windowOver, waiting, leaked>>

Shed(r) ==
    /\ request[r] = "shed" /\ Go(r, "rejected")
    /\ queueDepth' = queueDepth - 1
    /\ UNCHANGED <<permits, inFlight, windowCount, windowOver, waiting, leaked>>

Unqueue(r) ==
    /\ request[r] = "unqueue" /\ Go(r, "count")
    /\ queueDepth' = queueDepth - 1
    /\ UNCHANGED <<permits, inFlight, windowCount, windowOver, waiting, leaked>>

CountIn(r) ==
    /\ request[r] = "count" /\ Go(r, "running")
    /\ inFlight' = inFlight + 1
    /\ UNCHANGED <<permits, queueDepth, windowCount, windowOver, waiting, leaked>>

(* RequestGuard: its own drop, then its permit's.                          *)
DropGuard(r) ==
    \/ /\ request[r] = "running" /\ Go(r, "release") /\ inFlight' = inFlight - 1
       /\ UNCHANGED <<permits, queueDepth, windowCount, windowOver, waiting, leaked>>
    \/ /\ request[r] = "release" /\ Go(r, "idle") /\ permits' = permits + 1
       /\ UNCHANGED <<inFlight, queueDepth, windowCount, windowOver, waiting, leaked>>

RejectionTold(r) ==
    /\ request[r] = "rejected" /\ Go(r, "idle")
    /\ UNCHANGED <<permits, inFlight, queueDepth, windowCount, windowOver, waiting, leaked>>

(* The caller gives up while its request waits: nothing gives the slot     *)
(* back.                                                                   *)
DropWait(r) ==
    /\ request[r] = "wait" /\ leaked < MaxLeaks
    /\ waiting' = SelectSeq(waiting, LAMBDA x : x # r) /\ Go(r, "idle")
    /\ leaked' = leaked + 1
    /\ UNCHANGED <<permits, inFlight, queueDepth, windowCount, windowOver>>

WindowPasses ==
    /\ ~windowOver /\ windowOver' = TRUE
    /\ UNCHANGED <<permits, inFlight, queueDepth, windowCount, request, waiting, leaked>>

LimitsNext ==
    /\ UNCHANGED shedding
    /\ \/ \E r \in Requests :
            \/ CheckRate(r) \/ ReserveSlot(r) \/ Acquire(r) \/ Granted(r) \/ Shed(r)
            \/ Unqueue(r) \/ CountIn(r) \/ DropGuard(r) \/ RejectionTold(r) \/ DropWait(r)
       \/ WindowPasses

-----------------------------------------------------------------------------
(* BatchProcessor.                                                         *)
BatchInit ==
    /\ pending = 0 /\ batchPermits = BatchPermits /\ batchSize = MaxSize
    /\ batch = [b \in Batches |-> [at |-> "idle", size |-> 0, seen |-> 0]]
    /\ batchStats = [batches |-> 0, items |-> 0, good |-> 0, failed |-> 0]
    /\ batchLeaked = 0

(* process_batch reserves without a bound, try_process_batch within it.    *)
BatchReserve(b, bounded) ==
    /\ batch[b].at = "idle" /\ batchStats.batches < MaxBatches
    /\ bounded => pending < MaxPending
    /\ pending' = pending + 1
    /\ batch' = [batch EXCEPT ![b] = [at |-> "wait", size |-> batchSize, seen |-> 0]]
    /\ UNCHANGED <<batchPermits, batchSize, batchStats, batchLeaked>>

BatchAcquire(b) ==
    /\ batch[b].at = "wait" /\ batchPermits > 0
    /\ batchPermits' = batchPermits - 1
    /\ batch' = [batch EXCEPT ![b].at = "process"]
    /\ UNCHANGED <<pending, batchSize, batchStats, batchLeaked>>

(* record_batch trusts the processor for no more than the batch.           *)
Successes(size, oks) == IF oks < size THEN oks ELSE size

(* The processor returns, the slot is released and the batch recorded.     *)
BatchRecord(b, oks) ==
    /\ batch[b].at = "process" /\ batchStats.batches < MaxBatches
    /\ pending' = IF pending = 0 THEN 0 ELSE pending - 1
    /\ LET n == batch[b].size
           good == Successes(n, oks) IN
       batchStats' = [batches |-> batchStats.batches + 1, items |-> batchStats.items + n,
                      good |-> batchStats.good + good,
                      failed |-> batchStats.failed + (IF good > n THEN 0 ELSE n - good)]
    /\ batch' = [batch EXCEPT ![b].at = "adjust", ![b].seen = batchSize]
    /\ UNCHANGED <<batchPermits, batchSize, batchLeaked>>

(* adjust_batch_size towards what the latency suggests, from the size read *)
(* before: a tenth of the way, at least one.                               *)
Stepped(current, ideal) ==
    LET tenth(n) == IF n \div 10 < 1 THEN 1 ELSE n \div 10 IN
    IF ideal > current THEN current + tenth(ideal - current)
    ELSE IF ideal < current THEN current - tenth(current - ideal)
    ELSE current

Clamped(n) == IF n < MinSize THEN MinSize ELSE IF n > MaxSize THEN MaxSize ELSE n

BatchAdjust(b, ideal) ==
    /\ batch[b].at = "adjust"
    /\ batchSize' = IF Clamped(Stepped(batch[b].seen, ideal)) = batch[b].seen THEN batchSize
                    ELSE Clamped(Stepped(batch[b].seen, ideal))
    /\ batchPermits' = batchPermits + 1
    /\ batch' = [batch EXCEPT ![b] = [at |-> "idle", size |-> 0, seen |-> 0]]
    /\ UNCHANGED <<pending, batchStats, batchLeaked>>

(* The caller gives up while it waits or its batch is processed: the       *)
(* permit goes back, the pending count does not.                           *)
BatchDrop(b) ==
    /\ batch[b].at \in {"wait", "process"} /\ batchLeaked < MaxLeaks
    /\ batchPermits' = batchPermits + (IF batch[b].at = "process" THEN 1 ELSE 0)
    /\ batch' = [batch EXCEPT ![b] = [at |-> "idle", size |-> 0, seen |-> 0]]
    /\ batchLeaked' = batchLeaked + 1
    /\ UNCHANGED <<pending, batchSize, batchStats>>

BatchNext ==
    \E b \in Batches :
        \/ \E bounded \in BOOLEAN : BatchReserve(b, bounded)
        \/ BatchAcquire(b) \/ BatchDrop(b)
        \/ \E oks \in {0, 1, MaxSize + 1} : BatchRecord(b, oks)
        \/ \E ideal \in {0, MinSize, MaxSize, 2 * MaxSize} : BatchAdjust(b, ideal)

LimitsSpec ==
    /\ LimitsInit /\ BatchInit
    /\ [][\/ LimitsNext /\ UNCHANGED batchVars
          \/ BatchNext /\ UNCHANGED limitVars]_<<limitVars, batchVars>>

-----------------------------------------------------------------------------
(* The count of requests in flight never exceeds the permits handed out,   *)
(* at any point between two updates of the counters.                       *)
InFlightIsPermitted == inFlight + permits <= MaxConcurrent

(* The counters come back to rest: when no request is under way, every     *)
(* permit is free and every queue slot is given back, but those of waits   *)
(* that were dropped.                                                      *)
LimitsAtRest ==
    (\A r \in Requests : request[r] \in {"idle", "rejected"}) =>
        permits = MaxConcurrent /\ inFlight = 0 /\ queueDepth = leaked

(* Batch accounting: items are good or failed and nothing else, whatever   *)
(* the processor returns, and the pending count is that of the batches     *)
(* under way and of those that were dropped.                               *)
BatchesAccounted ==
    /\ batchStats.good + batchStats.failed = batchStats.items
    /\ pending = batchLeaked + Cardinality({b \in Batches : batch[b].at \in {"wait", "process"}})

(* Batches that adjust the size at once, each from the size it read, never *)
(* leave it outside its bounds, and never at zero, which would chunk items *)
(* into nothing.                                                           *)
BatchSizeBounded == batchSize \in MinSize..MaxSize

(* The coordinator's permits, queue and adaptive batch size stay within    *)
(* their limits and come back to rest when nothing runs, whoever went away *)
(* waiting.                                                                *)
LimitsKept ==
    /\ InFlightIsPermitted
    /\ LimitsAtRest
    /\ BatchesAccounted
    /\ BatchSizeBounded
=============================================================================
