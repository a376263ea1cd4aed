-------------------------- MODULE IngestionPipeline --------------------------
(***************************************************************************)
(* The ingestion orchestrator: IngestionPipeline::run (ingestion-          *)
(* orchestrator/src/pipeline.rs) between the JetStream queue (nats/        *)
(* consumer.rs), the content-hash store (idempotency.rs), the document     *)
(* states (state.rs), the parser's circuit breaker (circuit_breaker.rs)    *)
(* and the vectors in AkiDB (akidb_client.rs).                             *)
(*                                                                         *)
(* One process handles one message at a time, and may die between any two  *)
(* steps.  A document is its content; a delivery that is not answered in   *)
(* time is made again, with the process none the wiser.                    *)
(***************************************************************************)
EXTENDS Naturals, Sequences, FiniteSets, SequencesExt

CONSTANTS
    Messages, Docs,
    DocsOf,            \* the upload events of a message, by content; <<>> if it does not parse
    Python,            \* documents for the external parser
    MaxDeliver,        \* MAX_DELIVER
    MaxMarks,          \* max_entries of the content-hash store
    FailureThreshold,  \* failure_threshold of the circuit breaker
    HalfOpenCalls,     \* half_open_max_calls
    MaxFaults,         \* bound: crashes, and writes to the hash store that fail
    Repeats,           \* bound: messages published again
    Nothing

ASSUME PipelineAssumption ==
    /\ {MaxDeliver, MaxMarks, FailureThreshold, HalfOpenCalls} \subseteq Nat \ {0} /\ MaxFaults \in Nat
    /\ DocsOf \in [Messages -> Seq(Docs)] /\ Nothing \notin Messages

VARIABLES
    queue,       \* JetStream's state of a message, and how often it was delivered
    work,        \* the message in hand, its events left, the document and its stage
    marks,       \* processed: hashes in memory, in order
    marksDb,     \* processed_hashes, on disk
    docState,    \* StateTracker
    vectors,     \* what AkiDB holds of a document
    breaker,     \* circuit state, failures, half-open calls, timeout passed
    deadLetters, \* messages published to the dead-letter queue
    faults,
    excused      \* history: documents whose mark outlived failed work,
                 \* messages whose dead letter could not be published

pipelineVars == <<queue, work, marks, marksDb, docState, vectors, breaker, deadLetters, faults, excused>>

Idle == [msg |-> Nothing]
Busy == work # Idle
Stage == work.stage
ClosedBreaker == [state |-> "closed", failures |-> 0, tests |-> 0, cooled |-> FALSE]

-----------------------------------------------------------------------------
PipelineInit ==
    /\ queue = [m \in Messages |-> [at |-> "pending", deliveries |-> 0]]
    /\ work = Idle
    /\ marks = <<>> /\ marksDb = <<>>
    /\ docState = [d \in Docs |-> "none"]
    /\ vectors = [d \in Docs |-> "none"]
    /\ breaker = ClosedBreaker
    /\ deadLetters = {} /\ faults = 0 /\ excused = {}

(* fetch, one message of the batch after the other.                        *)
Deliver(m) ==
    /\ ~Busy /\ queue[m].at = "pending" /\ queue[m].deliveries < MaxDeliver
    /\ queue' = [queue EXCEPT ![m] = [at |-> "inflight", deliveries |-> @.deliveries + 1]]
    /\ work' = [msg |-> m, left |-> DocsOf[m], doc |-> Nothing, stage |-> "next",
                attempt |-> queue[m].deliveries + 1, failed |-> FALSE]
    /\ UNCHANGED <<marks, marksDb, docState, vectors, breaker, deadLetters, faults, excused>>

(* The upload is announced anew.                                           *)
Publish(m) ==
    /\ m \in Repeats /\ queue[m].at \in {"acked", "terminated"} /\ work.msg # m
    /\ queue' = [queue EXCEPT ![m] = [at |-> "pending", deliveries |-> 0]]
    /\ UNCHANGED <<work, marks, marksDb, docState, vectors, breaker, deadLetters, faults, excused>>

(* ack_wait passes: the message is due again, to nobody at its last try.   *)
AckWaitPasses(m) ==
    /\ queue[m].at = "inflight"
    /\ queue' = [queue EXCEPT ![m].at = "pending"]
    /\ UNCHANGED <<work, marks, marksDb, docState, vectors, breaker, deadLetters, faults, excused>>

-----------------------------------------------------------------------------
Skip(ok) == [work EXCEPT !.left = Tail(@), !.doc = Nothing, !.stage = "next",
                         !.failed = @ \/ ~ok]

(* process_event: the object cannot be fetched.                            *)
FetchFails ==
    /\ Busy /\ Stage = "next" /\ work.left # <<>>
    /\ work' = Skip(FALSE)
    /\ UNCHANGED <<queue, marks, marksDb, docState, vectors, breaker, deadLetters, faults, excused>>

Marked(d) == d \in Range(marks)

(* check_and_mark finds the content processed already.                     *)
Duplicate ==
    /\ Busy /\ Stage = "next" /\ work.left # <<>> /\ Marked(Head(work.left))
    /\ work' = Skip(TRUE)
    /\ UNCHANGED <<queue, marks, marksDb, docState, vectors, breaker, deadLetters, faults, excused>>

(* IndexSet::shift_remove, and the delete of a row.                        *)
Unmarked(s, d) == RemoveFirst(s, d)

(* check_and_mark evicts the oldest mark of a full store, which is never   *)
(* more than full, and writes through; a write that fails is logged.       *)
(* record_document follows.                                                *)
Full == Len(marks) >= MaxMarks
CheckAndMark(deleted, inserted) ==
    /\ Busy /\ Stage = "next" /\ work.left # <<>> /\ ~Marked(Head(work.left))
    /\ (deleted /\ inserted) \/ faults < MaxFaults
    /\ Full \/ deleted
    /\ LET d == Head(work.left)
           kept == IF Full /\ deleted THEN Unmarked(marksDb, Head(marks)) ELSE marksDb IN
       /\ marks' = Append(IF Full THEN Tail(marks) ELSE marks, d)
       /\ marksDb' = IF inserted /\ d \notin Range(kept) THEN Append(kept, d) ELSE kept
       /\ docState' = [docState EXCEPT ![d] = "queued"]
       /\ work' = [work EXCEPT !.doc = d, !.stage = "parsing"]
    /\ faults' = faults + (IF deleted /\ inserted THEN 0 ELSE 1)
    /\ UNCHANGED <<queue, vectors, breaker, deadLetters, excused>>

-----------------------------------------------------------------------------
(* CircuitBreaker::allow_request: whether a call may go, and what it costs. *)
MayCall(b) ==
    \/ b.state = "closed"
    \/ b.state = "open" /\ b.cooled
    \/ b.state = "halfopen" /\ b.tests < HalfOpenCalls
AllowRequest(b) ==
    CASE b.state = "closed" -> b
      [] b.state = "open" -> [b EXCEPT !.state = "halfopen", !.tests = 1]
      [] b.state = "halfopen" -> [b EXCEPT !.tests = @ + 1]

RecordSuccess(b) ==
    CASE b.state = "closed" -> [b EXCEPT !.failures = 0]
      [] b.state = "halfopen" ->
            IF b.tests >= HalfOpenCalls THEN [b EXCEPT !.state = "closed", !.failures = 0] ELSE b
      [] b.state = "open" -> [b EXCEPT !.state = "closed"]

RecordFailure(b) ==
    [b EXCEPT !.failures = IF @ < FailureThreshold THEN @ + 1 ELSE @, !.cooled = FALSE,
              !.state = IF @ = "halfopen" \/ b.failures + 1 >= FailureThreshold
                        THEN "open" ELSE @]

(* parse_document: an open breaker refuses before allow_request is asked.  *)
Refused(d) == d \in Python /\ (breaker.state = "open" \/ ~MayCall(breaker))

Advance(to) ==
    /\ work' = [work EXCEPT !.stage = to]
    /\ docState' = [docState EXCEPT ![work.doc] = IF to = "undo" THEN "failed" ELSE to]

Parse(ok) ==
    /\ Busy /\ Stage = "parsing" /\ (ok => ~Refused(work.doc))
    /\ Advance(IF ok THEN "embedding" ELSE "undo")
    /\ breaker' = IF work.doc \notin Python \/ Refused(work.doc) THEN breaker
                  ELSE IF ok THEN RecordSuccess(AllowRequest(breaker))
                  ELSE RecordFailure(AllowRequest(breaker))
    /\ UNCHANGED <<queue, marks, marksDb, vectors, deadLetters, faults, excused>>

(* Chunking, and the embeddings, one for each chunk.                       *)
Embed(ok) ==
    /\ Busy /\ Stage = "embedding" /\ Advance(IF ok THEN "inserting" ELSE "undo")
    /\ UNCHANGED <<queue, marks, marksDb, vectors, breaker, deadLetters, faults, excused>>

More(old, new) == IF old = "all" THEN old ELSE new

(* build_batch_insert_result: the answer says which vectors are in; one    *)
(* that does not add up, like one that never comes, is an error.           *)
InsertOutcomes == {"all", "partial", "lost"}

(* ensure_complete_insert.                                                 *)
CompleteInsert(outcome) == outcome = "all"

(* The batch is inserted, or part of it; or the answer is lost, whatever   *)
(* was inserted.                                                           *)
InsertBatch(outcome, kept) ==
    /\ Busy /\ Stage = "inserting" /\ (outcome # "lost" => kept = outcome)
    /\ vectors' = [vectors EXCEPT ![work.doc] = IF kept = "none" THEN @ ELSE More(@, kept)]
    /\ Advance(IF CompleteInsert(outcome) THEN "completed" ELSE "undo")
    /\ UNCHANGED <<queue, marks, marksDb, breaker, deadLetters, faults, excused>>

(* unmark_hash: the row on disk may stay, which is logged.                 *)
Undo(written) ==
    /\ Busy /\ Stage = "undo" /\ (written \/ faults < MaxFaults)
    /\ marks' = Unmarked(marks, work.doc)
    /\ marksDb' = IF written THEN Unmarked(marksDb, work.doc) ELSE marksDb
    /\ excused' = IF written THEN excused ELSE excused \cup {work.doc}
    /\ faults' = faults + (IF written THEN 0 ELSE 1)
    /\ work' = Skip(FALSE)
    /\ UNCHANGED <<queue, docState, vectors, breaker, deadLetters>>

EndEvent ==
    /\ Busy /\ Stage = "completed" /\ work' = Skip(TRUE)
    /\ UNCHANGED <<queue, marks, marksDb, docState, vectors, breaker, deadLetters, faults, excused>>

-----------------------------------------------------------------------------
AtEnd == Busy /\ Stage = "next" /\ work.left = <<>>
Malformed == DocsOf[work.msg] = <<>>

(* A plausible bug: the last attempt is one too many.                      *)
NeverLast(attempt) == attempt > MaxDeliver

(* decide_failure_outcome: failures of events come as one error that is    *)
(* never permanent, whatever they are.                                     *)
LastAttempt(attempt) == attempt >= MaxDeliver

Answer(at) ==
    /\ queue' = [queue EXCEPT ![work.msg].at = at]
    /\ work' = Idle
    /\ UNCHANGED <<marks, marksDb, docState, vectors, breaker, faults>>

Ack == AtEnd /\ ~work.failed /\ ~Malformed
       /\ Answer("acked") /\ UNCHANGED <<deadLetters, excused>>

Nack == AtEnd /\ work.failed /\ ~LastAttempt(work.attempt)
        /\ Answer("pending")
        /\ UNCHANGED <<deadLetters, excused>>

(* The dead letter goes out, or that fails; the message ends all the same. *)
DeadLetter(sent) ==
    /\ AtEnd /\ (Malformed \/ (work.failed /\ LastAttempt(work.attempt)))
    /\ Answer("terminated")
    /\ deadLetters' = IF sent THEN deadLetters \cup {work.msg} ELSE deadLetters
    /\ excused' = IF sent THEN excused ELSE excused \cup {work.msg}

(* new_persistent loads the newest marks of the disk.                      *)
Newest(s) == IF Len(s) > MaxMarks THEN SubSeq(s, Len(s) - MaxMarks + 1, Len(s)) ELSE s

(* The process dies, or ends for an answer it could not send, and is       *)
(* started again.                                                          *)
Crash ==
    /\ Busy /\ faults < MaxFaults /\ faults' = faults + 1
    /\ work' = Idle
    /\ marks' = Newest(marksDb)
    /\ breaker' = ClosedBreaker
    /\ excused' = excused \cup (IF Stage \in {"parsing", "embedding", "inserting", "undo"}
                               THEN {work.doc} ELSE {}) \cup {work.msg}
    /\ UNCHANGED <<queue, marksDb, docState, vectors, deadLetters>>

(* reset_timeout_secs pass after a failure.                                *)
Cool ==
    /\ breaker.state = "open" /\ ~breaker.cooled
    /\ breaker' = [breaker EXCEPT !.cooled = TRUE]
    /\ UNCHANGED <<queue, work, marks, marksDb, docState, vectors, deadLetters, faults, excused>>

PipelineNext ==
    \/ \E m \in Messages : Deliver(m) \/ AckWaitPasses(m) \/ Publish(m)
    \/ FetchFails \/ Duplicate \/ EndEvent \/ Ack \/ Nack \/ Crash \/ Cool
    \/ \E b, c \in BOOLEAN : CheckAndMark(b, c)
    \/ \E b \in BOOLEAN : Parse(b) \/ Embed(b) \/ Undo(b) \/ DeadLetter(b)
    \/ \E outcome \in InsertOutcomes, kept \in {"none", "partial", "all"} :
          InsertBatch(outcome, kept)

PipelineSpec == PipelineInit /\ [][PipelineNext]_pipelineVars

-----------------------------------------------------------------------------
(* A message is acknowledged only when AkiDB holds every vector of every   *)
(* document it announced, whoever ingested it, through failures, duplicate *)
(* deliveries and evicted marks.  Excused are documents whose mark was     *)
(* left behind by a crash or a failed write: they are skipped for good.    *)
AckedIsIngested ==
    \A m \in Messages : queue[m].at = "acked" =>
        \A d \in Range(DocsOf[m]) : vectors[d] = "all" \/ d \in excused

(* A document recorded as completed is searchable in full.                 *)
CompletedIsInserted == \A d \in Docs : docState[d] = "completed" => vectors[d] = "all"

(* No message is dropped in silence: one that will not be delivered again  *)
(* was acknowledged, is in the dead-letter queue, or is still in hand;     *)
(* but for those in hand at a crash or whose dead letter was not sent.     *)
DroppedIsRecorded ==
    \A m \in Messages :
        \/ queue[m].at = "acked" \/ m \in deadLetters \cup excused
        \/ queue[m].deliveries < MaxDeliver
        \/ work.msg = m /\ work.attempt = MaxDeliver

(* Every step the process or the queue owes is taken, uploads keep coming, *)
(* the document is fetched and the parser answers whenever it is asked     *)
(* often enough, and time passes.                                          *)
PipelineFairness ==
    /\ \A m \in Messages : SF_pipelineVars(Deliver(m)) /\ WF_pipelineVars(Publish(m))
    /\ SF_pipelineVars(CheckAndMark(TRUE, TRUE)) /\ SF_pipelineVars(Parse(TRUE))
    /\ WF_pipelineVars(\E b \in BOOLEAN : Parse(b) \/ Embed(b) \/ Undo(b) \/ DeadLetter(b))
    /\ WF_pipelineVars(InsertBatch("all", "all"))
    /\ WF_pipelineVars(EndEvent \/ Ack \/ Nack) /\ WF_pipelineVars(Duplicate)
    /\ WF_pipelineVars(Cool)

(* What the service's guide says of an open circuit, "Circuit will         *)
(* auto-reset after timeout": it does not stay open when its timeout       *)
(* passes and documents for the parser keep coming.                        *)
CircuitResets == []<>(breaker.state # "open")

(* A message the ingestion acknowledged is ingested or recorded as         *)
(* dropped, though deliveries repeat, parsers fail and the process         *)
(* restarts.                                                               *)
PipelineAccounted ==
    /\ AckedIsIngested
    /\ CompletedIsInserted
    /\ DroppedIsRecorded
=============================================================================
