-------------------------- MODULE RequestAdmission --------------------------
(***************************************************************************)
(* What surrounds every data-plane call of a shard (grpc-server/src):      *)
(* run_admitted of service.rs, the permits of admission.rs, and the access *)
(* record each finished call leaves in the spool of access_log.rs.         *)
(*                                                                         *)
(* The work of a call is synchronous, so a call can be cancelled (its      *)
(* future dropped) only while it waits for a permit.                       *)
(***************************************************************************)
EXTENDS Naturals, Sequences, FiniteSets, SequencesExt, FiniteSetsExt

CONSTANTS
    Calls,          \* the calls
    CallOp,         \* Calls -> the operation called
    TimeoutHeader,  \* Calls -> [digits, value, unit], the grpc-timeout header
    Permits,        \* class -> permits, as configured
    AcquireTimeout, \* how long a call waits for a permit; 0: not at all
    LongestWait,    \* the largest duration a 64-bit nanosecond count holds
    RecordQueue,    \* capacity of the record channel
    FileRecords,    \* records after which a spool file is full
    MaxFiles,       \* spool files kept
    LastTick,       \* bound: the clock
    MaxSpoolFaults, \* bound: failures of the spool's file system
    MaxServerRuns   \* bound: starts of the process

VARIABLES
    callAt,     \* Calls -> [step, since]: idle, waiting, granted, working, done, gone
    waiters,    \* class -> the calls queued on its semaphore, first come first served
    gateNow,    \* the clock
    channel,    \* records sent to the writer
    spool,      \* file sequence -> records
    spoolSeq, open, openCount,
    dropped,    \* the counter of dropped records
    emitted,    \* history: calls in the order their records were emitted
    forgotten,  \* history: records deleted with the oldest files, or lost in the channel by a stop
    spoolFaults, serverRuns

callVars == <<callAt, waiters>>
spoolVars == <<channel, spool, spoolSeq, open, openCount, dropped, emitted, forgotten, spoolFaults>>
gateVars == <<callVars, gateNow, spoolVars, serverRuns>>

(* The operations and the class of permit each asks for.                   *)
ChangeCalls == [Insert |-> "mutation", Search |-> "search", Delete |-> "mutation"]
PointCalls == [Update |-> "mutation", Get |-> "search"]
BatchCalls == [InsertBatch |-> "mutation", SearchBatch |-> "search"]
TextCalls == [TextSearch |-> "search"]

Classes == {"search", "mutation"}
CallClass == [c \in Calls |-> (ChangeCalls @@ PointCalls @@ BatchCalls @@ TextCalls)[CallOp[c]]]
NoTimeout == LongestWait + 1

ASSUME GateAssumption ==
    /\ IsFiniteSet(Calls)
    /\ CallClass \in [Calls -> Classes]
    /\ Permits \in [Classes -> Nat]
    /\ MaxFiles \in Nat \ {0}

-----------------------------------------------------------------------------
(* client_timeout: at most eight digits and a unit; anything else is no    *)
(* timeout, and the product saturates.                                     *)
UnitLength == [S |-> 4, m |-> 1]
ClientTimeout(h) ==
    IF h.digits \in 1 .. 8 /\ h.unit \in DOMAIN UnitLength
    THEN Min({h.value * UnitLength[h.unit], LongestWait}) ELSE NoTimeout

(* check_deadline.                                                         *)
Expired(c, received) ==
    /\ ClientTimeout(TimeoutHeader[c]) # NoTimeout
    /\ gateNow - received >= ClientTimeout(TimeoutHeader[c])

(* AdmissionController::new raises a limit of zero to one.                 *)
Limit(class) == Max({Permits[class], 1})
Holding(class) == {c \in Calls : CallClass[c] = class /\ callAt[c].step \in {"granted", "working"}}
Free(class) == Cardinality(Holding(class)) < Limit(class)

GateInit ==
    /\ callAt = [c \in Calls |-> [step |-> "idle", since |-> 0]]
    /\ waiters = [k \in Classes |-> <<>>]
    /\ gateNow = 0
    /\ channel = <<>> /\ spool = [n \in {1} |-> <<>>]
    /\ spoolSeq = 1 /\ open = 1 /\ openCount = 0
    /\ dropped = 0 /\ emitted = <<>> /\ forgotten = {} /\ spoolFaults = 0 /\ serverRuns = 1

(* AccessLog::emit never waits for room in the channel.                    *)
SendRecord(c) ==
    IF Len(channel) < RecordQueue
    THEN channel' = Append(channel, c) /\ UNCHANGED dropped
    ELSE dropped' = dropped + 1 /\ UNCHANGED channel

(* emit_access_record: every outcome of run_admitted leaves one record.    *)
Emit(c) == SendRecord(c) /\ emitted' = Append(emitted, c)

Step(c, step) == [callAt EXCEPT ![c].step = step]
AnswerCall(c) ==
    /\ callAt' = Step(c, "done")
    /\ Emit(c)
    /\ UNCHANGED <<gateNow, spool, spoolSeq, open, openCount, forgotten, spoolFaults, serverRuns>>

(* Any of the handlers, up to its first wait.                              *)
Receive(c) ==
    /\ callAt[c].step = "idle"
    /\ callAt' = [callAt EXCEPT ![c] = [step |-> "received", since |-> gateNow]]
    /\ UNCHANGED <<waiters, gateNow, spoolVars, serverRuns>>

(* A deadline of zero has passed when the call arrives.                    *)
RefuseLate(c) ==
    /\ callAt[c].step = "received" /\ Expired(c, callAt[c].since)
    /\ AnswerCall(c) /\ UNCHANGED waiters

(* acquire: at once, or in the semaphore's queue, or not at all.           *)
AcquirePermit(c) ==
    LET k == CallClass[c]
    IN /\ callAt[c].step = "received" /\ ~Expired(c, callAt[c].since)
       /\ IF Free(k) /\ waiters[k] = <<>>
          THEN /\ callAt' = [callAt EXCEPT ![c].step = "granted"]
               /\ UNCHANGED <<waiters, gateNow, spoolVars, serverRuns>>
          ELSE IF AcquireTimeout = 0
          THEN AnswerCall(c) /\ UNCHANGED waiters
          ELSE /\ callAt' = [callAt EXCEPT ![c].step = "waiting"]
               /\ waiters' = [waiters EXCEPT ![k] = Append(@, c)]
               /\ UNCHANGED <<gateNow, spoolVars, serverRuns>>

(* The semaphore gives a freed permit to the call that waits longest.      *)
HandOver(k) ==
    /\ waiters[k] # <<>> /\ Free(k)
    /\ callAt' = [callAt EXCEPT ![Head(waiters[k])].step = "granted"]
    /\ waiters' = [waiters EXCEPT ![k] = Tail(@)]
    /\ UNCHANGED <<gateNow, spoolVars, serverRuns>>

(* The wait ends without a permit.                                         *)
GiveUp(c) ==
    /\ callAt[c].step = "waiting" /\ gateNow - callAt[c].since >= AcquireTimeout
    /\ waiters' = [waiters EXCEPT ![CallClass[c]] = RemoveFirst(@, c)]
    /\ AnswerCall(c)

(* run_admitted looks at the deadline again before the work starts.        *)
BeginWork(c) ==
    /\ callAt[c].step = "granted"
    /\ IF Expired(c, callAt[c].since)
       THEN AnswerCall(c) /\ UNCHANGED waiters
       ELSE /\ callAt' = Step(c, "working")
            /\ UNCHANGED <<waiters, gateNow, spoolVars, serverRuns>>

(* The work ends, well or badly; the guard is dropped, then the record     *)
(* written.                                                                *)
Finish(c) ==
    /\ callAt[c].step = "working"
    /\ AnswerCall(c) /\ UNCHANGED waiters

(* A plausible bug: the place of a dropped call in the queue is kept.      *)
CancelInQueue(c) ==
    /\ callAt[c].step \in {"waiting", "granted"}
    /\ callAt' = Step(c, "gone")
    /\ UNCHANGED <<waiters, gateNow, spoolVars, serverRuns>>

(* The client goes away: its future is dropped, and with it the place in   *)
(* the queue or the permit.                                                *)
Cancel(c) ==
    /\ callAt[c].step \in {"waiting", "granted"}
    /\ waiters' = [waiters EXCEPT ![CallClass[c]] = RemoveFirst(@, c)]
    /\ callAt' = Step(c, "gone")
    /\ UNCHANGED <<gateNow, spoolVars, serverRuns>>

-----------------------------------------------------------------------------
(* enforce_retention: the files with the lowest sequence go.               *)
Excess(files) == Cardinality(files) - MaxFiles
LowestOf(files, n) == {f \in files : Cardinality({g \in files : g < f}) < n}

Evicted(files, current) ==
    IF Excess(files) > 0 THEN LowestOf(files, Excess(files)) \ {current} ELSE {}

(* roll: the next file, and the oldest ones removed.                       *)
Rolled(files, n) ==
    LET all == [f \in DOMAIN files \cup {n} |-> IF f \in DOMAIN files THEN files[f] ELSE <<>>]
        gone == Evicted(DOMAIN all, n)
    IN [kept |-> [f \in DOMAIN all \ gone |-> all[f]],
        lost |-> UNION {Range(all[f]) : f \in gone}]

WriterTakes == channel # <<>> /\ channel' = Tail(channel)

(* append.                                                                 *)
AppendRecord ==
    /\ WriterTakes
    /\ LET roll == openCount >= FileRecords
           next == Rolled(spool, spoolSeq + 1)
           base == IF roll THEN next.kept ELSE spool
           file == IF roll THEN spoolSeq + 1 ELSE open
       IN /\ spool' = [base EXCEPT ![file] = Append(@, Head(channel))]
          /\ forgotten' = IF roll THEN forgotten \cup next.lost ELSE forgotten
          /\ spoolSeq' = IF roll THEN spoolSeq + 1 ELSE spoolSeq
          /\ open' = file
          /\ openCount' = IF roll THEN 1 ELSE openCount + 1
    /\ UNCHANGED <<callVars, gateNow, dropped, emitted, spoolFaults, serverRuns>>

(* A roll whose open fails has taken a sequence number and keeps the old   *)
(* file; one whose clean-up fails has changed to the new one.  Or the      *)
(* write fails.  Either way the record is counted as dropped.              *)
AppendFails ==
    /\ WriterTakes
    /\ spoolFaults < MaxSpoolFaults /\ spoolFaults' = spoolFaults + 1
    /\ dropped' = dropped + 1
    /\ \/ openCount < FileRecords /\ UNCHANGED <<spool, spoolSeq, open, openCount>>
       \/ /\ openCount >= FileRecords
          /\ spoolSeq' = spoolSeq + 1
          /\ UNCHANGED <<spool, open, openCount>>
       \/ /\ openCount >= FileRecords
          /\ spoolSeq' = spoolSeq + 1 /\ open' = spoolSeq + 1 /\ openCount' = 0
          /\ spool' = [f \in DOMAIN spool \cup {spoolSeq + 1} |->
                          IF f \in DOMAIN spool THEN spool[f] ELSE <<>>]
    /\ UNCHANGED <<callVars, gateNow, emitted, forgotten, serverRuns>>

LastSequence == Max(DOMAIN spool \cup {0})

(* The process stops with what is in the channel, and starts again:        *)
(* SpoolWriter::new goes on after the last file it finds.                  *)
RestartServer ==
    /\ serverRuns < MaxServerRuns /\ serverRuns' = serverRuns + 1
    /\ callAt' = [c \in Calls |-> IF callAt[c].step \in {"idle", "done"} THEN callAt[c]
                                  ELSE [callAt[c] EXCEPT !.step = "gone"]]
    /\ waiters' = [k \in Classes |-> <<>>]
    /\ LET next == Rolled(spool, LastSequence + 1)
       IN /\ spool' = next.kept
          /\ forgotten' = forgotten \cup next.lost \cup Range(channel)
          /\ spoolSeq' = LastSequence + 1 /\ open' = LastSequence + 1
          /\ openCount' = Len(next.kept[LastSequence + 1])
    /\ channel' = <<>>
    /\ UNCHANGED <<gateNow, dropped, emitted, spoolFaults>>

GateTick ==
    /\ gateNow < LastTick /\ gateNow' = gateNow + 1
    /\ UNCHANGED <<callVars, spoolVars, serverRuns>>

GateNext ==
    \/ \E c \in Calls : \/ Receive(c) \/ RefuseLate(c) \/ AcquirePermit(c) \/ GiveUp(c)
                        \/ BeginWork(c) \/ Finish(c) \/ Cancel(c)
    \/ \E k \in Classes : HandOver(k)
    \/ AppendRecord \/ AppendFails \/ RestartServer \/ GateTick

GateSpec == GateInit /\ [][GateNext]_gateVars

-----------------------------------------------------------------------------
(* Nobody waits in vain: everyone in a semaphore's queue is a call that    *)
(* still wants a permit, so a freed permit goes to work and never to a     *)
(* call that was cancelled, timed out or answered (admission.rs 118-145).  *)
QueueIsLive ==
    \A k \in Classes : /\ \A n \in DOMAIN waiters[k] : callAt[waiters[k][n]].step = "waiting"
                       /\ Cardinality(Holding(k)) <= Limit(k)

(* Every answered call is accounted for once: its record is on its way, in *)
(* a file, deleted with an old file, or counted as dropped (access_log.rs  *)
(* 200-217, 350-376).                                                      *)
InFiles == UNION {Range(spool[f]) : f \in DOMAIN spool}
RecordsAccounted ==
    Len(emitted) = dropped + Len(channel) + Cardinality(InFiles) + Cardinality(forgotten)

(* The files, read in the order of their names, hold records in the order  *)
(* they were emitted, and an older record is never kept when a newer one   *)
(* was deleted (roll, enforce_retention).                                  *)
Emission(c) == CHOOSE n \in DOMAIN emitted : emitted[n] = c
SpoolInOrder ==
    /\ \A f, g \in DOMAIN spool : f < g =>
          \A c \in Range(spool[f]), d \in Range(spool[g]) : Emission(c) < Emission(d)
    /\ \A f \in DOMAIN spool : \A i, j \in DOMAIN spool[f] :
          i < j => Emission(spool[f][i]) < Emission(spool[f][j])
    /\ serverRuns = 1 =>
          \A c \in InFiles, d \in forgotten : Emission(d) < Emission(c)

(* The gate of a shard queues only live calls, and every access record is  *)
(* spooled in order or counted as dropped.                                 *)
GateAccounts ==
    /\ QueueIsLive
    /\ RecordsAccounted
    /\ SpoolInOrder
=============================================================================
