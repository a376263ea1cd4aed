------------------------- MODULE CompactionScheduler -------------------------
(***************************************************************************)
(* The compaction scheduler of the coordinator: run_scheduler              *)
(* (coordinator/src/compaction.rs), the events sent to it and the triggers *)
(* it sends to a worker, which is outside.                                 *)
(*                                                                         *)
(* Both channels are bounded; the scheduler handles no event while it      *)
(* waits for room for a trigger.  dirty is the truth about a shard, a      *)
(* statistic is a sample of it that may arrive late.                       *)
(***************************************************************************)
EXTENDS Naturals, Sequences, FiniteSets

CONSTANTS
    CShards,
    EventRoom, TriggerRoom,  \* the channels' capacities
    MaxCompactions           \* max_concurrent_compactions

ASSUME CompactionAssumption ==
    {EventRoom, TriggerRoom, MaxCompactions} \subseteq Nat \ {0} /\ IsFiniteSet(CShards)

VARIABLES
    dirty,       \* shards whose tombstones are over the threshold
    sched,       \* ShardState of each shard
    sending,     \* the triggers the scheduler is about to send
    events, triggers,
    working,     \* the shard the worker compacts, and whether it is done
    ranToday     \* last_scheduled_date is today

compactionVars == <<dirty, sched, sending, events, triggers, working, ranToday>>

Free == [kind |-> "free"]
Looping == <<>>

-----------------------------------------------------------------------------
CompactionInit ==
    /\ dirty \in [CShards -> BOOLEAN]
    /\ sched = [s \in CShards |-> [known |-> FALSE, over |-> FALSE, compacting |-> FALSE,
                                   stale |-> FALSE, recent |-> FALSE]]
    /\ sending = Looping /\ events = <<>> /\ triggers = <<>>
    /\ working = Free /\ ranToday = FALSE

Deletes(s) == ~dirty[s] /\ dirty' = [dirty EXCEPT ![s] = TRUE]
              /\ UNCHANGED <<sched, sending, events, triggers, working, ranToday>>

Post(e) == Len(events) < EventRoom /\ events' = Append(events, e)

(* update_shard_stats, trigger_compaction.                                 *)
ReportStats(s) ==
    /\ Post([kind |-> "stats", shard |-> s, over |-> dirty[s]])
    /\ UNCHANGED <<dirty, sched, sending, triggers, working, ranToday>>

TriggerCompaction ==
    /\ Post([kind |-> "now"])
    /\ UNCHANGED <<dirty, sched, sending, triggers, working, ranToday>>

Compacting == {s \in CShards : sched[s].compacting}

(* A check interval: the shards due, in any order, each sent for unless    *)
(* too many compact by then.                                               *)
NeedsCompaction(s) ==
    sched[s].known /\ ~sched[s].compacting /\ ~sched[s].stale /\ sched[s].over /\ ~sched[s].recent

Orders(S) == {q \in [1..Cardinality(S) -> S] : \A i, j \in DOMAIN q : i # j => q[i] # q[j]}
Sends(S, k) == {[i \in DOMAIN q |-> [kind |-> k, shard |-> q[i]]] : q \in Orders(S)}
Scheduled == [kind |-> "scheduled"]

(* Afterwards, once a day, the hour may have come for a scheduled run.     *)
CheckTick(due) ==
    /\ sending = Looping /\ (due => ~ranToday)
    /\ \E checks \in Sends({s \in CShards : NeedsCompaction(s)}, "check") :
         sending' = checks \o (IF due THEN <<Scheduled>> ELSE <<>>)
    /\ sending' # Looping
    /\ UNCHANGED <<dirty, sched, events, triggers, working, ranToday>>

(* A scheduled or a manual run: every known shard that does not compact.   *)
Unoccupied == {s \in CShards : sched[s].known /\ ~sched[s].compacting}
ScheduledRun ==
    /\ sending = <<Scheduled>>
    /\ ranToday' = TRUE
    /\ sending' \in Sends(Unoccupied, "run")
    /\ UNCHANGED <<dirty, sched, events, triggers, working>>

NextDay == ranToday /\ ranToday' = FALSE
           /\ UNCHANGED <<dirty, sched, sending, events, triggers, working>>

(* One send of the loop; the loop of the check stops at the limit.         *)
AtLimit(t) == t.kind = "check" /\ Cardinality(Compacting) >= MaxCompactions
SendTrigger ==
    /\ sending # Looping /\ sending # <<Scheduled>>
    /\ IF AtLimit(Head(sending))
       THEN /\ sending' = SelectSeq(sending, LAMBDA t : t = Scheduled)
            /\ UNCHANGED <<sched, triggers>>
       ELSE /\ Len(triggers) < TriggerRoom
            /\ triggers' = Append(triggers, Head(sending).shard)
            /\ sched' = [sched EXCEPT ![Head(sending).shard].compacting = TRUE]
            /\ sending' = Tail(sending)
    /\ UNCHANGED <<dirty, events, working, ranToday>>

(* A plausible bug: fresh statistics are not trusted again.                *)
NotedStillStale(st, over) == [st EXCEPT !.known = TRUE, !.over = over]

(* UpdateStats creates the shard's entry; CompactionCompleted distrusts    *)
(* the statistics after a success.                                         *)
Noted(st, over) == [st EXCEPT !.known = TRUE, !.over = over, !.stale = FALSE]
Completed(st, success) ==
    [st EXCEPT !.compacting = FALSE, !.recent = TRUE, !.stale = @ \/ success]

HandleEvent ==
    /\ sending = Looping /\ events # <<>>
    /\ LET e == Head(events) IN
       CASE e.kind = "stats" ->
              sched' = [sched EXCEPT ![e.shard] = Noted(@, e.over)] /\ sending' = Looping
         [] e.kind = "now" ->
              sending' \in Sends(Unoccupied, "run") /\ UNCHANGED sched
         [] e.kind = "completed" ->
              sched' = [sched EXCEPT ![e.shard] = Completed(@, e.success)] /\ sending' = Looping
    /\ events' = Tail(events)
    /\ UNCHANGED <<dirty, triggers, working, ranToday>>

(* min_compaction_interval passes.                                         *)
IntervalPasses(s) ==
    /\ sched[s].recent /\ sched' = [sched EXCEPT ![s].recent = FALSE]
    /\ UNCHANGED <<dirty, sending, events, triggers, working, ranToday>>

(* The worker: one trigger at a time, and a report for each.               *)
TakeTrigger ==
    /\ working = Free /\ triggers # <<>>
    /\ working' = [kind |-> "busy", shard |-> Head(triggers)]
    /\ triggers' = Tail(triggers)
    /\ UNCHANGED <<dirty, sched, sending, events, ranToday>>

FinishCompaction(success) ==
    /\ working.kind = "busy"
    /\ working' = [kind |-> "report", shard |-> working.shard, success |-> success]
    /\ dirty' = [dirty EXCEPT ![working.shard] = @ /\ ~success]
    /\ UNCHANGED <<sched, sending, events, triggers, ranToday>>

ReportCompleted ==
    /\ working.kind = "report"
    /\ Post([kind |-> "completed", shard |-> working.shard, success |-> working.success])
    /\ working' = Free
    /\ UNCHANGED <<dirty, sched, sending, triggers, ranToday>>

CompactionNext ==
    \/ \E s \in CShards : Deletes(s) \/ ReportStats(s) \/ IntervalPasses(s)
    \/ TriggerCompaction \/ ScheduledRun \/ NextDay \/ SendTrigger
    \/ HandleEvent \/ TakeTrigger \/ ReportCompleted
    \/ \E b \in BOOLEAN : CheckTick(b) \/ FinishCompaction(b)
-----------------------------------------------------------------------------

(* A shard over the threshold is not forgotten: compactions go on until    *)
(* none is, and none hangs, though statistics arrive late, compactions     *)
(* fail and the two channels fill up.                                      *)
DirtyIsServed ==
    /\ []<>(Compacting # {} \/ \A s \in CShards : ~dirty[s])
    /\ \A s \in CShards : []<>(~sched[s].compacting)
=============================================================================
