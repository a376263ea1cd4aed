-------------------------- MODULE BackgroundTasks ---------------------------
(***************************************************************************)
(* Background tasks: what operators see of them, and the governor that     *)
(* admits them.                                                            *)
(***************************************************************************)
EXTENDS Integers, Sequences, FiniteSets, SequencesExt

(***************************************************************************)
(* What operators see of the background tasks: the executions AdminState   *)
(* keeps (grpc-server/src/admin.rs), the operations, the audit events and  *)
(* the import plans of the management service (management.rs).             *)
(*                                                                         *)
(* A list is read page by page with a cursor that is a mere offset, while  *)
(* the tasks go on: an execution that ends leaves registered_tasks first   *)
(* and enters task_history in a second step, and a listing reads the two   *)
(* in the opposite order.                                                  *)
(***************************************************************************)

CONSTANTS
    Tasks,        \* registered tasks
    Outcomes,     \* end states of an execution: Completed, Failed, Cancelled
    MaxRuns,      \* bound: executions
    MaxSeconds,   \* bound: the clock
    MaxHistory,   \* max_history_entries
    PageSize,     \* the limit a reader asks for
    AuditMax,     \* audit_max_entries
    MaxAudits,    \* bound: audited calls of others
    Workspaces, StagingIds, Fingerprints,
    NoExecution

ASSUME TasksAssumption ==
    /\ {MaxRuns, MaxSeconds, MaxAudits} \subseteq Nat
    /\ {MaxHistory, PageSize, AuditMax} \subseteq Nat \ {0}

VARIABLES
    current,    \* current_execution of each registered task
    reported,   \* executions that have left current and are not in history yet
    history,    \* task_history
    seconds,    \* the clock of TaskExecution
    runs,       \* executions so far
    pager,      \* a reader of list_management_operations
    audits,     \* audit_events, newest first
    audited,    \* events so far
    auditor,    \* a reader of list_audit_events
    staged      \* the staging registry

tasksVars == <<current, reported, history, seconds, runs, pager, audits, audited, auditor, staged>>

NewPager == [pc |-> "idle", hist |-> <<>>, cursor |-> 0, seen |-> {}, settled |-> {}, torn |-> FALSE]
NewAuditor == [pc |-> "idle", cursor |-> 0, seen |-> {}, before |-> {}]

TasksInit ==
    /\ current = [t \in Tasks |-> NoExecution] /\ reported = [t \in Tasks |-> NoExecution]
    /\ history = <<>> /\ seconds = 1 /\ runs = 0
    /\ pager = NewPager
    /\ audits = <<>> /\ audited = 0 /\ auditor = NewAuditor
    /\ staged = {}

-----------------------------------------------------------------------------
(* Executions: update_task_execution, called by whoever runs the task.     *)

Later == \E s \in {seconds, seconds + 1} : s <= MaxSeconds /\ seconds' = s

StartExecution(t) ==
    /\ current[t] = NoExecution /\ reported[t] = NoExecution /\ runs < MaxRuns
    /\ Later
    /\ runs' = runs + 1
    /\ current' = [current EXCEPT ![t] = [task |-> t, run |-> runs', state |-> "Running", updated |-> seconds']]
    /\ UNCHANGED <<reported, history, pager, audits, audited, auditor, staged>>

(* The first step of an end, under the lock of registered_tasks.           *)
EndExecution(t, s) ==
    /\ current[t] # NoExecution
    /\ Later
    /\ reported' = [reported EXCEPT ![t] = [current[t] EXCEPT !.state = s, !.updated = seconds']]
    /\ current' = [current EXCEPT ![t] = NoExecution]
    /\ pager' = [pager EXCEPT !.torn = @ \/ pager.pc = "tasks"]
    /\ UNCHANGED <<history, runs, audits, audited, auditor, staged>>

Trim(h) == IF Len(h) > MaxHistory THEN SubSeq(h, Len(h) - MaxHistory + 1, Len(h)) ELSE h

(* The history is full and an execution that ended in the same second or   *)
(* earlier is listed behind the one that falls out.                        *)
OvertakenAtLimit ==
    /\ Len(history) = MaxHistory
    /\ \E i \in 2..Len(history) : history[i].updated <= history[1].updated

(* The second step, under the lock of task_history.                        *)
RecordExecution(t) ==
    /\ reported[t] # NoExecution
    /\ history' = Trim(Append(history, reported[t]))
    /\ reported' = [reported EXCEPT ![t] = NoExecution]
    /\ pager' = [pager EXCEPT !.torn = @ \/ OvertakenAtLimit]
    /\ UNCHANGED <<current, seconds, runs, audits, audited, auditor, staged>>

-----------------------------------------------------------------------------
(* Operations, page by page.                                               *)

IdOf(x) == x.run
IdsOf(s) == {IdOf(s[i]) : i \in DOMAIN s}

(* collect_operations reads the history ...                                *)
ListHistory ==
    /\ pager.pc \in {"idle", "next"}
    /\ pager' = [pager EXCEPT
           !.pc = "tasks", !.hist = history,
           !.settled = IF pager.pc = "idle" THEN IdsOf(history) ELSE @,
           !.torn = @ \/ \E t \in Tasks : reported[t] # NoExecution]
    /\ UNCHANGED <<current, reported, history, seconds, runs, audits, audited, auditor, staged>>

(* ... and then the tasks, in no order, without what it has seen.          *)
RunningNow(seen) ==
    LET now == {current[t] : t \in Tasks} \ {NoExecution}
    IN  SetToSeq({x \in now : IdOf(x) \notin seen})

(* sort_by_key is stable; SortSeq is too.                                  *)
NewestFirst(s) == SortSeq(s, LAMBDA x, y : x.updated > y.updated)

(* paginate: an offset beyond the list is an error.                        *)
Least(a, b) == IF a < b THEN a ELSE b
Page(s, offset) == SubSeq(s, offset + 1, Least(offset + PageSize, Len(s)))
NextCursor(s, offset) ==
    LET next == offset + Len(Page(s, offset)) IN IF next < Len(s) THEN next ELSE 0

(* list_management_operations: the rest of it.                             *)
ListTasks ==
    /\ pager.pc = "tasks"
    /\ LET ops == NewestFirst(pager.hist \o RunningNow(IdsOf(pager.hist)))
       IN  pager' =
             IF pager.cursor > Len(ops) THEN NewPager
             ELSE [pager EXCEPT
                     !.hist = <<>>,
                     !.seen = @ \cup IdsOf(Page(ops, pager.cursor)),
                     !.cursor = NextCursor(ops, pager.cursor),
                     !.pc = IF NextCursor(ops, pager.cursor) = 0 THEN "done" ELSE "next"]
    /\ UNCHANGED <<current, reported, history, seconds, runs, audits, audited, auditor, staged>>

PagerLeaves ==
    /\ pager.pc = "done" /\ pager' = NewPager
    /\ UNCHANGED <<current, reported, history, seconds, runs, audits, audited, auditor, staged>>

-----------------------------------------------------------------------------
(* Audit events.                                                           *)

Keep(s) == SubSeq(s, 1, Least(Len(s), AuditMax))

Audited(s, n) == Keep(<<n>> \o s)

EventsOf(s) == {s[i] : i \in DOMAIN s}

(* Any other audited call.                                                 *)
AuditCall ==
    /\ audited < MaxAudits
    /\ audited' = audited + 1 /\ audits' = Audited(audits, audited')
    /\ UNCHANGED <<current, reported, history, seconds, runs, pager, auditor, staged>>

(* list_audit_events records itself before it reads.  Its own event is     *)
(* given the number 0 here: a reader that asks for nothing else sees it    *)
(* at the head of every page's list.                                       *)
ListAuditEvents ==
    /\ auditor.pc \in {"idle", "next"}
    /\ LET listed == Audited(audits, 0)
       IN  /\ audits' = listed
           /\ auditor' =
                 IF auditor.cursor > Len(listed) THEN NewAuditor
                 ELSE [auditor EXCEPT
                         !.before = IF auditor.pc = "idle" THEN EventsOf(audits) ELSE @,
                         !.seen = @ \cup EventsOf(Page(listed, auditor.cursor)),
                         !.cursor = NextCursor(listed, auditor.cursor),
                         !.pc = IF NextCursor(listed, auditor.cursor) = 0 THEN "done" ELSE "next"]
    /\ UNCHANGED <<current, reported, history, seconds, runs, pager, audited, staged>>

AuditorLeaves ==
    /\ auditor.pc = "done" /\ auditor' = NewAuditor
    /\ UNCHANGED <<current, reported, history, seconds, runs, pager, audits, audited, staged>>

-----------------------------------------------------------------------------
(* Import plans.                                                           *)

(* StagingRegistry::register: an identifier names its last object.         *)
RegisterStaged(id, w, f) ==
    /\ staged' = {o \in staged : o.id # id} \cup {[id |-> id, workspace |-> w, print |-> f]}
    /\ UNCHANGED <<current, reported, history, seconds, runs, pager, audits, audited, auditor>>

(* resolve, for the caller's workspace only.                               *)
Resolve(reg, w, id) == {o \in reg : o.id = id /\ o.workspace = w}

(* plan_import up to the plan, whose findings are about the object itself. *)
PlanImport(reg, w, asked, id, f) ==
    IF asked # w THEN "PermissionDenied"
    ELSE IF Resolve(reg, w, id) = {} THEN "NotFound"
    ELSE IF \E o \in Resolve(reg, w, id) : o.print # f THEN "FingerprintChanged"
    ELSE "Planned"

TasksNext ==
    \/ \E t \in Tasks :
          \/ StartExecution(t) \/ RecordExecution(t)
          \/ \E s \in Outcomes : EndExecution(t, s)
    \/ ListHistory \/ ListTasks \/ PagerLeaves
    \/ AuditCall \/ ListAuditEvents \/ AuditorLeaves
    \/ \E id \in StagingIds, w \in Workspaces, f \in Fingerprints : RegisterStaged(id, w, f)

TasksSpec == TasksInit /\ [][TasksNext]_tasksVars

-----------------------------------------------------------------------------
(* A reader who follows the cursors to the end has seen every execution    *)
(* that had ended when it began and is still in the history, although new  *)
(* ones are added, old ones fall out and running ones move to the front    *)
(* between its pages; unless a page was read in the middle of the two      *)
(* steps of an end, or the full history dropped one of two executions that *)
(* ended in the same second.                                               *)
PagesCoverSettled ==
    pager.pc = "done" /\ ~pager.torn => pager.settled \cap IdsOf(history) \subseteq pager.seen

(* A reader of the audit events, whose own calls shift the list, has seen  *)
(* every event that was there when it began and is still retained.         *)
AuditCoversRetained ==
    auditor.pc = "done" => auditor.before \cap EventsOf(audits) \subseteq auditor.seen

(* An answer to plan_import depends on nothing of another workspace: its   *)
(* objects look as if they did not exist.                                  *)
ForeignLooksAbsent ==
    \A w \in Workspaces, a \in Workspaces, id \in StagingIds, f \in Fingerprints :
        PlanImport(staged, w, a, id, f)
            = PlanImport({o \in staged : o.workspace = w}, w, a, id, f)

-----------------------------------------------------------------------------
(***************************************************************************)
(* The resource governor of the background tasks                           *)
(* (common/src/scheduler/governor.rs), lock by lock: can_start decides     *)
(* under the read lock of running_tasks, register_task writes it later.    *)
(* parking_lot's lock lets no new reader in while a writer waits, and is   *)
(* not reentrant.                                                          *)
(***************************************************************************)

CONSTANTS
    Starters,     \* threads that start tasks, pause them or ask for a summary
    Requirements, \* records [cpu, memory] a task may declare
    LowNeeds,     \* ResourceRequirements::low
    GovernorCfg,  \* record [tasks, cpu, memory, cooldown] of ResourceGovernorConfig
    CpuReadings,  \* what get_cpu_usage_percent may return
    MaxStarted    \* bound: tasks registered over time

ASSUME GovernorAssumption ==
    /\ MaxStarted \in Nat /\ LowNeeds \in Requirements
    /\ IsFiniteSet(Starters) /\ Starters # {} /\ GovernorCfg.tasks \in Nat

VARIABLES
    runningTasks,     \* running_tasks
    readers, writers, \* threads holding its read lock; waiting for its write lock
    lastHighLatency,  \* time since the last observation, or the cooldown if none
    latencyHigh,      \* whether p95 is above defer_when_p95_above_ms
    starter,          \* the threads
    started

governorVars == <<runningTasks, readers, writers, lastHighLatency, latencyHigh, starter, started>>

IdleStarter == [pc |-> "idle", for |-> "start", needs |-> LowNeeds]

GovernorInit ==
    /\ runningTasks = <<>> /\ readers = {} /\ writers = {}
    /\ lastHighLatency = GovernorCfg.cooldown /\ latencyHigh = FALSE
    /\ starter = [t \in Starters |-> IdleStarter] /\ started = 0

Total(s, f(_)) == FoldLeft(LAMBDA n, x : n + f(x), 0, s)
CpuOf(x) == x.cpu
MemoryOf(x) == x.memory

-----------------------------------------------------------------------------
AskToStart(t, n) ==
    /\ starter[t].pc = "idle" /\ started < MaxStarted
    /\ starter' = [starter EXCEPT ![t] = [pc |-> "lock", for |-> "start", needs |-> n]]
    /\ UNCHANGED <<runningTasks, readers, writers, lastHighLatency, latencyHigh, started>>

(* A plausible bug: the guard outlives the statement.                      *)
SummaryKeepingGuard(t) ==
    /\ starter[t].pc = "idle" /\ writers = {} /\ readers' = readers \cup {t}
    /\ starter' = [starter EXCEPT ![t] = [pc |-> "lock", for |-> "summary", needs |-> LowNeeds]]
    /\ UNCHANGED <<runningTasks, writers, lastHighLatency, latencyHigh, started>>

(* resource_summary counts the running tasks under a guard of one          *)
(* statement and then asks can_start for a small task.                     *)
Summary(t) ==
    /\ starter[t].pc = "idle" /\ writers = {}
    /\ starter' = [starter EXCEPT ![t] = [pc |-> "lock", for |-> "summary", needs |-> LowNeeds]]
    /\ UNCHANGED <<runningTasks, readers, writers, lastHighLatency, latencyHigh, started>>

MayRead(t) == writers = {}
Lock(t) ==
    /\ starter[t].pc = "lock" /\ MayRead(t)
    /\ readers' = readers \cup {t}
    /\ starter' = [starter EXCEPT ![t].pc = "cooldown"]
    /\ UNCHANGED <<runningTasks, writers, lastHighLatency, latencyHigh, started>>

Refuse(t) ==
    /\ readers' = readers \ {t}
    /\ starter' = [starter EXCEPT ![t] = IdleStarter]

SlotFree == Len(runningTasks) < GovernorCfg.tasks

WithinBudget(n, cpu) ==
    /\ cpu + Total(runningTasks, CpuOf) + n.cpu <= GovernorCfg.cpu + 50
    /\ Total(runningTasks, MemoryOf) + n.memory <= GovernorCfg.memory

(* The first half of can_start: a slot, and the cooldown.                  *)
CheckCooldown(t) ==
    /\ starter[t].pc = "cooldown"
    /\ IF SlotFree /\ lastHighLatency >= GovernorCfg.cooldown
       THEN starter' = [starter EXCEPT ![t].pc = "latency"] /\ UNCHANGED readers
       ELSE Refuse(t)
    /\ UNCHANGED <<runningTasks, writers, lastHighLatency, latencyHigh, started>>

(* The second half: the latency, which it records, and the budgets.        *)
CheckLatency(t) ==
    /\ starter[t].pc = "latency"
    /\ \E cpu \in CpuReadings :
          IF latencyHigh THEN lastHighLatency' = 0 /\ Refuse(t)
          ELSE /\ UNCHANGED lastHighLatency
               /\ IF WithinBudget(starter[t].needs, cpu) /\ starter[t].for = "start"
                  THEN /\ readers' = readers \ {t}
                       /\ starter' = [starter EXCEPT ![t].pc = "admitted"]
                  ELSE Refuse(t)
    /\ UNCHANGED <<runningTasks, writers, latencyHigh, started>>

(* register_task, and unregister_task of some task, wait for the lock ...  *)
WaitToWrite(t) ==
    /\ starter[t].pc = "admitted"
    /\ writers' = writers \cup {t}
    /\ starter' = [starter EXCEPT ![t].pc = "register"]
    /\ UNCHANGED <<runningTasks, readers, lastHighLatency, latencyHigh, started>>

TaskEnds(t) ==
    /\ starter[t].pc = "idle" /\ runningTasks # <<>>
    /\ writers' = writers \cup {t}
    /\ starter' = [starter EXCEPT ![t].pc = "unregister"]
    /\ UNCHANGED <<runningTasks, readers, lastHighLatency, latencyHigh, started>>

(* ... and write when the readers have gone.                               *)
RegisterTask(t) ==
    /\ starter[t].pc = "register" /\ readers = {}
    /\ runningTasks' = Append(runningTasks, starter[t].needs) /\ started' = started + 1
    /\ writers' = writers \ {t} /\ starter' = [starter EXCEPT ![t] = IdleStarter]
    /\ UNCHANGED <<readers, lastHighLatency, latencyHigh>>

UnregisterTask(t) ==
    /\ starter[t].pc = "unregister" /\ readers = {}
    /\ \E i \in DOMAIN runningTasks : runningTasks' = RemoveAt(runningTasks, i)
    /\ writers' = writers \ {t} /\ starter' = [starter EXCEPT ![t] = IdleStarter]
    /\ UNCHANGED <<readers, lastHighLatency, latencyHigh, started>>

UnregisterMissing(t) ==
    /\ starter[t].pc = "unregister" /\ readers = {} /\ runningTasks = <<>>
    /\ writers' = writers \ {t} /\ starter' = [starter EXCEPT ![t] = IdleStarter]
    /\ UNCHANGED <<runningTasks, readers, lastHighLatency, latencyHigh, started>>

(* should_pause records what it sees without the lock.                     *)
ShouldPause(t) ==
    /\ starter[t].pc = "idle" /\ latencyHigh
    /\ lastHighLatency' = 0
    /\ UNCHANGED <<runningTasks, readers, writers, latencyHigh, starter, started>>

(* The metrics move, and time passes.                                      *)
Weather ==
    /\ \/ latencyHigh' = ~latencyHigh /\ UNCHANGED lastHighLatency
       \/ lastHighLatency < GovernorCfg.cooldown /\ lastHighLatency' = lastHighLatency + 1 /\ UNCHANGED latencyHigh
    /\ UNCHANGED <<runningTasks, readers, writers, starter, started>>

GovernorNext ==
    \/ Weather
    \/ \E t \in Starters :
          \/ \E n \in Requirements : AskToStart(t, n)
          \/ Summary(t) \/ Lock(t) \/ CheckCooldown(t) \/ CheckLatency(t)
          \/ WaitToWrite(t) \/ TaskEnds(t) \/ RegisterTask(t) \/ UnregisterTask(t) \/ UnregisterMissing(t)
          \/ ShouldPause(t)

GovernorSpec == GovernorInit /\ [][GovernorNext]_governorVars

-----------------------------------------------------------------------------
(* The comment of resource_summary: nobody waits for a read lock that a    *)
(* queued writer withholds while the writer waits for him.                 *)
NobodyWaitsForHimself ==
    \A t \in Starters : starter[t].pc = "lock" /\ ~MayRead(t) => t \notin readers

(* Admission and registration are two steps, so the limit on concurrent    *)
(* tasks is exceeded by at most one task for each other starter, however   *)
(* the starters interleave.                                                *)
OvershootBounded == Len(runningTasks) <= GovernorCfg.tasks + Cardinality(Starters) - 1

(* The same of the memory budget.                                          *)
MemoryOvershootBounded ==
    LET largest == CHOOSE n \in {r.memory : r \in Requirements} : \A r \in Requirements : r.memory <= n
    IN  Total(runningTasks, MemoryOf) <= GovernorCfg.memory + (Cardinality(Starters) - 1) * largest

(* Lists of tasks and audit events, read page by page while tasks go on,   *)
(* miss nothing that was there throughout; a plan of another workspace     *)
(* looks absent; and the governor's threads neither wait for themselves    *)
(* nor overshoot by more than the threads that raced.                      *)
TasksSound ==
    /\ PagesCoverSettled
    /\ AuditCoversRetained
    /\ ForeignLooksAbsent
    /\ NobodyWaitsForHimself
    /\ OvershootBounded
    /\ MemoryOvershootBounded
=============================================================================
