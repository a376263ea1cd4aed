--------------------------- MODULE WebhookDelivery ---------------------------
(***************************************************************************)
(* The webhook sender (grpc-server/src/webhook.rs): a queue of events that *)
(* every caller of send drains itself, retries that wait in the queue with *)
(* a time, and tasks that sleep until the earliest of them.                *)
(*                                                                         *)
(* A runner is a call of send, or the task it left behind to wake up.  It  *)
(* holds what it took out of the queue while it waits for the receiver; a  *)
(* call of send may be dropped there by its caller, a woken task may not.  *)
(* Time is counted in units of RETRY_BACKOFF_BASE_MS.                      *)
(***************************************************************************)
EXTENDS Integers, Sequences

CONSTANTS
    Events,      \* payloads; an event is sent once
    Senders,     \* calls of send and woken tasks at a time
    Subscribed,  \* payloads whose event type the configuration lists
    MAX_RETRIES,
    MAX_QUEUE_SIZE

ASSUME WebhookAssumption ==
    /\ MAX_RETRIES \in Nat /\ MAX_QUEUE_SIZE \in Nat \ {0}
    /\ Subscribed \subseteq Events /\ Senders # {}
ASSUME PowerAssumption == \A n \in 0..MAX_RETRIES : 2 ^ n \in Nat

VARIABLES
    hookEnabled,  \* WebhookConfig.enabled
    hookQueue,      \* the queue
    runner,       \* the runners
    hookClock,    \* Instant::now
    fate,         \* what became of each event
    attempted     \* the times at which each event was put on the wire

hookVars == <<hookEnabled, hookQueue, runner, hookClock, fate, attempted>>

PendingWebhook(e, n, t) == [payload |-> e, attempts |-> n, ready_at |-> t]
NoRunner == [pc |-> "idle", caller |-> FALSE, now |-> 0, item |-> <<>>, deferred |-> <<>>, wake |-> 0]

WebhookInit ==
    /\ hookEnabled \in BOOLEAN
    /\ hookQueue = <<>> /\ runner = [r \in Senders |-> NoRunner] /\ hookClock = 0
    /\ fate = [e \in Events |-> "new"] /\ attempted = [e \in Events |-> <<>>]

-----------------------------------------------------------------------------
(* update_config: what is queued stays queued.                             *)
UpdateConfig ==
    /\ hookEnabled' = ~hookEnabled
    /\ UNCHANGED <<hookQueue, runner, hookClock, fate, attempted>>

(* send queues an event, at the price of the oldest if the queue is full.  *)
Enqueue(e) ==
    LET full == Len(hookQueue) >= MAX_QUEUE_SIZE
        room == IF full THEN Tail(hookQueue) ELSE hookQueue
    IN  /\ hookQueue' = Append(room, PendingWebhook(e, 0, hookClock))
        /\ fate' = [x \in Events |->
               IF x = e THEN "held"
               ELSE IF full /\ x = Head(hookQueue).payload THEN "dropped" ELSE fate[x]]

Send(r, e) ==
    /\ runner[r].pc = "idle" /\ fate[e] = "new"
    /\ IF hookEnabled /\ e \in Subscribed
       THEN /\ Enqueue(e)
            /\ runner' = [runner EXCEPT ![r] = [NoRunner EXCEPT !.pc = "enter", !.caller = TRUE]]
       ELSE /\ fate' = [fate EXCEPT ![e] = "skipped"]
            /\ UNCHANGED <<hookQueue, runner>>
    /\ UNCHANGED <<hookEnabled, hookClock, attempted>>

(* process_pending reads the clock once.                                   *)
Enter(r) ==
    /\ runner[r].pc = "enter"
    /\ runner' = [runner EXCEPT ![r].pc = "drain", ![r].now = hookClock]
    /\ UNCHANGED <<hookEnabled, hookQueue, hookClock, fate, attempted>>

(* The first event that is ready, behind those that are not; Len + 1 if    *)
(* there is none.                                                          *)
FirstReady(q, now) ==
    CHOOSE i \in 1..(Len(q) + 1) :
        /\ \A j \in 1..(i - 1) : q[j].ready_at > now
        /\ i <= Len(q) => q[i].ready_at <= now

(* Under the queue's lock: events that are not ready yet are set aside.    *)
DrainQueue(r) ==
    /\ runner[r].pc = "drain"
    /\ LET i == FirstReady(hookQueue, runner[r].now)
           found == i <= Len(hookQueue)
       IN  /\ hookQueue' = SubSeq(hookQueue, i + 1, Len(hookQueue))
           /\ runner' = [runner EXCEPT
                  ![r].deferred = @ \o SubSeq(hookQueue, 1, i - 1),
                  ![r].item = IF found THEN <<hookQueue[i]>> ELSE <<>>,
                  ![r].pc = IF found THEN "deliver" ELSE "requeue"]
           /\ attempted' = IF found
                           THEN [attempted EXCEPT ![hookQueue[i].payload] = Append(@, hookClock)]
                           ELSE attempted
    /\ UNCHANGED <<hookEnabled, hookClock, fate>>

(* An attempt is over: the runner goes on with what it has set aside.      *)
SettledEvents(r, more) ==
    runner' = [runner EXCEPT ![r].pc = "drain", ![r].item = <<>>, ![r].deferred = @ \o more]

(* The receiver's answer: a status of 200..299 is a success.               *)
Delivered(r) ==
    /\ runner[r].pc = "deliver"
    /\ fate' = [fate EXCEPT ![runner[r].item[1].payload] = "delivered"]
    /\ SettledEvents(r, <<>>)
    /\ UNCHANGED <<hookEnabled, hookQueue, hookClock, attempted>>

Backoff(attempts) == 2 ^ attempts

RetryOf(r, it) == PendingWebhook(it.payload, it.attempts + 1, hookClock + Backoff(it.attempts))

NotDelivered(r) ==
    /\ runner[r].pc = "deliver"
    /\ LET it == runner[r].item[1]
           again == it.attempts < MAX_RETRIES
       IN  /\ fate' = [fate EXCEPT ![it.payload] = IF again THEN @ ELSE "failed"]
           /\ SettledEvents(r, IF again THEN <<RetryOf(r, it)>> ELSE <<>>)
    /\ UNCHANGED <<hookEnabled, hookQueue, hookClock, attempted>>

EarliestReady(q) ==
    CHOOSE t \in {q[i].ready_at : i \in DOMAIN q} : \A i \in DOMAIN q : t <= q[i].ready_at

(* A plausible bug: the task sleeps until the last of them is ready.       *)
LatestReady(q) ==
    CHOOSE t \in {q[i].ready_at : i \in DOMAIN q} : \A i \in DOMAIN q : t >= q[i].ready_at

(* schedule_wake_at: the call returns, a task of its own sleeps.           *)
ScheduleWakeLate(r, q) ==
    runner' = [runner EXCEPT ![r] = [NoRunner EXCEPT !.pc = "sleep", !.wake = LatestReady(q)]]

ScheduleWake(r, q) ==
    runner' = [runner EXCEPT ![r] = [NoRunner EXCEPT !.pc = "sleep", !.wake = EarliestReady(q)]]

(* The end of process_pending: what was set aside goes back.               *)
Requeue(r) ==
    /\ runner[r].pc = "requeue"
    /\ LET back == runner[r].deferred
       IN  IF back = <<>> THEN runner' = [runner EXCEPT ![r] = NoRunner] /\ UNCHANGED hookQueue
           ELSE hookQueue' = hookQueue \o back /\ ScheduleWake(r, back)
    /\ UNCHANGED <<hookEnabled, hookClock, fate, attempted>>

Wake(r) ==
    /\ runner[r].pc = "sleep" /\ runner[r].wake <= hookClock
    /\ runner' = [runner EXCEPT ![r].pc = "enter"]
    /\ UNCHANGED <<hookEnabled, hookQueue, hookClock, fate, attempted>>

HeldBy(r) == runner[r].item \o runner[r].deferred

(* The caller drops the future of send at its await: what the call has in  *)
(* hand goes with it.                                                      *)
DropCall(r) ==
    /\ runner[r].pc = "deliver" /\ runner[r].caller
    /\ fate' = [e \in Events |->
           IF \E i \in DOMAIN HeldBy(r) : HeldBy(r)[i].payload = e THEN "lost" ELSE fate[e]]
    /\ runner' = [runner EXCEPT ![r] = NoRunner]
    /\ UNCHANGED <<hookEnabled, hookQueue, hookClock, attempted>>

(* Time passes while something waits for it.                               *)
Waits(q) == \E i \in DOMAIN q : q[i].ready_at > hookClock
Tick ==
    /\ Waits(hookQueue) \/ \E r \in Senders : Waits(HeldBy(r))
    /\ hookClock' = hookClock + 1
    /\ UNCHANGED <<hookEnabled, hookQueue, runner, fate, attempted>>

WebhookNext ==
    \/ UpdateConfig \/ Tick
    \/ \E r \in Senders :
          \/ \E e \in Events : Send(r, e)
          \/ Enter(r) \/ DrainQueue(r) \/ Delivered(r) \/ NotDelivered(r) \/ Requeue(r) \/ Wake(r)
          \/ DropCall(r)

WebhookSpec == WebhookInit /\ [][WebhookNext]_hookVars

-----------------------------------------------------------------------------
(* An accepted event is in one place until its end, whoever drains the     *)
(* queue meanwhile: it is neither sent twice at a time nor forgotten.      *)
In(q, e) == \E i \in DOMAIN q : q[i].payload = e
Distinct(q) == \A i, j \in DOMAIN q : q[i].payload = q[j].payload => i = j
EventAccounted ==
    /\ \A e \in Events :
          /\ fate[e] = "held" <=> In(hookQueue, e) \/ \E r \in Senders : In(HeldBy(r), e)
          /\ \A r \in Senders : In(HeldBy(r), e) =>
                /\ ~In(hookQueue, e)
                /\ \A q \in Senders \ {r} : ~In(HeldBy(q), e)
    /\ Distinct(hookQueue) /\ \A r \in Senders : Distinct(HeldBy(r))

(* The contract of schedule_wake_at, retry without another send: for every *)
(* event in the queue somebody is about to drain it, or sleeps no longer   *)
(* than until it is ready, or wakes at this instant; also after the call   *)
(* that queued it took an older event instead and was dropped.             *)
QueuedIsWoken ==
    \A i \in DOMAIN hookQueue : \E r \in Senders :
        \/ runner[r].pc \in {"enter", "drain", "deliver", "requeue"}
        \/ /\ runner[r].pc = "sleep"
           /\ runner[r].wake <= hookQueue[i].ready_at \/ runner[r].wake <= hookClock

(* The receiver gets the time the backoff promises between two attempts,   *)
(* although ready_at is compared with a clock read before.                 *)
BackoffKept ==
    \A e \in Events : \A k \in 1..(Len(attempted[e]) - 1) :
        attempted[e][k + 1] - attempted[e][k] >= Backoff(k - 1)

(* Every event enqueued for the webhook is in the queue, held by a sender  *)
(* or settled, somebody will wake for what is queued, and a retry waits at *)
(* least its backoff.                                                      *)
DeliveriesAccounted ==
    /\ EventAccounted
    /\ QueuedIsWoken
    /\ BackoffKept
=============================================================================
