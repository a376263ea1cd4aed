---------------------------- MODULE CompilerJobs ----------------------------
(***************************************************************************)
(* The queue of memory compiler jobs: MemoryLedger::enqueue_compiler_job,  *)
(* claim_next_compiler_job, complete_compiler_job and fail_compiler_job in *)
(* storage/src/memory.rs, over the job and status rows of                  *)
(* contracts/src/memory_compiler.rs.                                       *)
(*                                                                         *)
(* Every call is one synced batch under the transition lock.  Workers are  *)
(* outside: they keep what they claimed and come back late, or never.      *)
(* Times are kept as what is left of them, so that a clock that never      *)
(* stops has finitely many readings: left is 0 at the instant itself and   *)
(* -1 once it has passed.                                                  *)
(***************************************************************************)
EXTENDS Integers, FiniteSets, FiniteSetsExt

CONSTANTS
    Jobs,         \* a set of numbers, in the order of scheduled_at_ms and job_id
    Workers,
    MaxAttempts,  \* max_attempts of a job
    Lease,        \* lease_duration_ms of a claim
    Delay,        \* retry_delay_ms of a failure
    Absent

ASSUME JobsAssumption ==
    /\ Jobs \subseteq Nat /\ IsFiniteSet(Jobs)
    /\ MaxAttempts \in [Jobs -> Nat \ {0}]
    /\ Lease \in Nat \ {0} /\ Delay \in Nat
    /\ Absent \notin Workers

VARIABLES
    jobStatus,    \* the status row of each job, Absent before it is enqueued
    jobFailures,  \* the failure rows: job, attempt and the worker they blame
    jobHeld       \* what each worker believes it is working on

jobVars == <<jobStatus, jobFailures, jobHeld>>

-----------------------------------------------------------------------------
(* MemoryCompilerJobStatus.                                                *)

JobStates == {"Pending", "Running", "Succeeded", "DeadLetter"}

(* left counts down to next_attempt_at_ms of a pending job and to          *)
(* lease_expires_at_ms of a running one.                                   *)
Statuses == [state : JobStates, attempts : Nat, left : Int,
             owner : Workers \cup {Absent}, plan : Workers \cup {Absent}, error : BOOLEAN]

ASSUME AbsentAssumption == Absent \notin Statuses

(* MemoryCompilerJobStatus::validate.                                      *)
StatusValid(j, s) ==
    /\ s.attempts <= MaxAttempts[j]
    /\ s.state = "Pending" => s.owner = Absent /\ s.plan = Absent
    /\ s.state = "Running" => s.attempts > 0 /\ s.owner # Absent /\ s.plan = Absent
    /\ s.state = "Succeeded" => s.attempts > 0 /\ s.owner = Absent /\ s.plan # Absent
    /\ s.state = "DeadLetter" => s.attempts > 0 /\ s.owner = Absent /\ s.plan = Absent /\ s.error

Failure(j, n, w) == [job |-> j, attempt |-> n, worker |-> w]

-----------------------------------------------------------------------------
JobsInit ==
    /\ jobStatus = [j \in Jobs |-> Absent]
    /\ jobFailures = {}
    /\ jobHeld = [w \in Workers |-> Absent]

(* load_compiler_job and its status: both rows are written in one batch.   *)
Known(j) == jobStatus[j] # Absent

(* get_compiler_job.                                                       *)
GetCompilerJob(j) ==
    IF ~Known(j) THEN "None" ELSE IF StatusValid(j, jobStatus[j]) THEN "Found" ELSE "CorruptState"

(* A second enqueue of the same job changes nothing.                       *)
EnqueueJob(j) ==
    /\ ~Known(j)
    /\ \E wait \in 0..1 :
           jobStatus' = [jobStatus EXCEPT ![j] =
               [state |-> "Pending", attempts |-> 0, left |-> wait, owner |-> Absent,
                plan |-> Absent, error |-> FALSE]]
    /\ UNCHANGED <<jobFailures, jobHeld>>

(* A plausible bug: a lease never runs out.                                *)
NeverExpired(j) == FALSE

ExpiredRunning(j) == jobStatus[j].state = "Running" /\ jobStatus[j].left <= 0
EligiblePending(j) == jobStatus[j].state = "Pending" /\ jobStatus[j].left <= 0
Eligible == {j \in Jobs : Known(j) /\ (ExpiredRunning(j) \/ EligiblePending(j))}

Claimable == {j \in Eligible : jobStatus[j].attempts < MaxAttempts[j]}

(* The exhausted jobs the scan meets before it finds one to claim.         *)
Exhausted == {j \in Eligible \ Claimable : \A k \in Claimable : j < k}

(* A plausible bug: an exhausted job is dead-lettered without its failure. *)
ExpiryRowsClaimed(S) ==
    {Failure(j, jobStatus[j].attempts, jobStatus[j].owner) :
        j \in {k \in S : ExpiredRunning(k) /\ jobStatus[k].attempts < MaxAttempts[k]}}

(* The LEASE_EXPIRED failures of the jobs a claim passes or takes.         *)
ExpiryRows(S) ==
    {Failure(j, jobStatus[j].attempts, jobStatus[j].owner) : j \in {k \in S : ExpiredRunning(k)}}

Dead(s) == [s EXCEPT !.state = "DeadLetter", !.owner = Absent, !.plan = Absent, !.error = TRUE]
Claimed(s, w, expired) ==
    [s EXCEPT !.state = "Running", !.attempts = @ + 1, !.owner = w, !.left = Lease,
              !.plan = Absent, !.error = @ \/ expired]

(* Jobs are scanned in order; exhausted ones are dead-lettered on the way, *)
(* and the first that may run again is leased to the caller.               *)
ClaimNext(w) ==
    LET taken == IF Claimable = {} THEN {} ELSE {Min(Claimable)} IN
    /\ Exhausted \cup taken # {}
    /\ jobStatus' = [j \in Jobs |->
           CASE j \in Exhausted -> Dead(jobStatus[j])
             [] j \in taken -> Claimed(jobStatus[j], w, ExpiredRunning(j))
             [] OTHER -> jobStatus[j]]
    /\ jobFailures' = jobFailures \cup ExpiryRows(Exhausted \cup taken)
    /\ jobHeld' = [jobHeld EXCEPT ![w] = IF taken = {} THEN @ ELSE Min(taken)]

(* The guard of a completion and of a failure.                             *)
HoldsLease(j, w) ==
    Known(j) /\ jobStatus[j].state = "Running" /\ jobStatus[j].owner = w /\ jobStatus[j].left >= 0

(* The plan names the worker that computed it.                             *)
CompleteJob(w, j) ==
    /\ jobHeld[w] = j /\ HoldsLease(j, w)
    /\ jobStatus' = [jobStatus EXCEPT ![j].state = "Succeeded", ![j].owner = Absent,
                                      ![j].left = -1, ![j].plan = w, ![j].error = FALSE]
    /\ jobHeld' = [jobHeld EXCEPT ![w] = Absent]
    /\ UNCHANGED jobFailures

Retry(s) == [s EXCEPT !.state = "Pending", !.left = Delay]

FailJob(w, j, retryable) ==
    /\ jobHeld[w] = j /\ HoldsLease(j, w)
    /\ LET s == [jobStatus[j] EXCEPT !.owner = Absent, !.plan = Absent, !.error = TRUE] IN
       jobStatus' = [jobStatus EXCEPT ![j] =
           IF retryable /\ s.attempts < MaxAttempts[j] THEN Retry(s)
           ELSE [s EXCEPT !.state = "DeadLetter", !.left = -1]]
    /\ jobFailures' = jobFailures \cup {Failure(j, jobStatus[j].attempts, w)}
    /\ jobHeld' = [jobHeld EXCEPT ![w] = Absent]

(* A worker crashes, or hangs until somebody else has its job: nothing     *)
(* reaches the ledger.                                                     *)
LoseWorker(w) == jobHeld[w] # Absent /\ jobHeld' = [jobHeld EXCEPT ![w] = Absent]
                 /\ UNCHANGED <<jobStatus, jobFailures>>

(* Time passes.                                                            *)
JobsTick ==
    /\ jobStatus' = [j \in Jobs |->
           IF jobStatus[j] = Absent \/ jobStatus[j].left = -1 THEN jobStatus[j]
           ELSE [jobStatus[j] EXCEPT !.left = @ - 1]]
    /\ UNCHANGED <<jobFailures, jobHeld>>

JobsNext ==
    \/ \E j \in Jobs : EnqueueJob(j)
    \/ \E w \in Workers : ClaimNext(w) \/ LoseWorker(w)
    \/ \E w \in Workers, j \in Jobs :
           CompleteJob(w, j) \/ \E retryable \in BOOLEAN : FailJob(w, j, retryable)
    \/ JobsTick

(* Somebody polls the queue and the clock runs; a worker promises nothing. *)
JobsFairness == WF_jobVars(\E w \in Workers : ClaimNext(w)) /\ WF_jobVars(JobsTick)
JobsSpec == JobsInit /\ [][JobsNext]_jobVars /\ JobsFairness

-----------------------------------------------------------------------------
(* Every stored status is one that claim_next_compiler_job and             *)
(* get_compiler_job accept: they refuse the whole scan, or the job, with   *)
(* CorruptState when a status does not validate.                           *)
StatusesValid ==
    \A j \in Jobs : Known(j) => jobStatus[j] \in Statuses /\ GetCompilerJob(j) = "Found"

(* Attempts are accounted for: each attempt but the one that runs or       *)
(* succeeded has exactly one failure row, whether its worker reported the  *)
(* failure or its lease ran out, and whoever noticed first.                *)
AttemptsAccounted ==
    \A j \in Jobs : jobStatus[j] # Absent =>
        LET rows == {f \in jobFailures : f.job = j}
            open == IF jobStatus[j].state \in {"Running", "Succeeded"} THEN 1 ELSE 0
        IN  /\ {f.attempt : f \in rows} = 1..(jobStatus[j].attempts - open)
            /\ Cardinality(rows) = jobStatus[j].attempts - open

(* Every enqueued job is settled in the end, however its workers crash or  *)
(* hang: leases run out, attempts are bounded, and somebody polls.         *)
JobsSettle ==
    \A j \in Jobs :
        jobStatus[j] # Absent ~> jobStatus[j] # Absent
                               /\ jobStatus[j].state \in {"Succeeded", "DeadLetter"}

(* A compiler job's rows agree in every interleaving of workers, leases    *)
(* and expiry: its status fits its attempts, and each attempt is accounted *)
(* for once.                                                               *)
JobsSound ==
    /\ StatusesValid
    /\ AttemptsAccounted
=============================================================================
