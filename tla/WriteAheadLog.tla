--------------------------- MODULE WriteAheadLog ----------------------------
(***************************************************************************)
(* The write-ahead log of storage/src/wal.rs: append, flush, read,         *)
(* truncate_to and open, over a file that a crash or a failed write leaves *)
(* torn.                                                                   *)
(*                                                                         *)
(* The file is a sequence of units, each a whole entry or the torn start   *)
(* of one.  The reader takes a torn entry's length at its word and reads   *)
(* it out of the bytes that follow, so the head of the next unit is gone   *)
(* when it starts to scan for a magic number; when the tear left nothing   *)
(* but the magic number, the length is the next magic number and what is   *)
(* left of the file is consumed.  walAcked and the field n of an entry are *)
(* history: the acknowledged entries with nothing torn ahead of them, and  *)
(* an identity that outlives the reuse of a number.                        *)
(***************************************************************************)
EXTENDS Naturals, Sequences, FiniteSets, FiniteSetsExt, SequencesExt

CONSTANT
    MaxAppends   \* bound: appends in a behaviour

ASSUME WalAssumption == MaxAppends \in Nat

VARIABLES
    syncMode,    \* "Sync", or "BatchSync" and "NoSync", which append alike
    walFile,     \* units on disk
    walBuffer,   \* units written and not synced
    walTemp,     \* the entries of the .wal.tmp file, NoTemp if there is none
    currentLsn,  \* the next number
    walWriter,   \* "open", "closed" (the Option is None) or "down" (no process)
    walStep,     \* where truncate_to is
    appends, walAcked

walVars == <<syncMode, walFile, walBuffer, walTemp, currentLsn, walWriter, walStep, appends, walAcked>>

Whole(lsn, n) == [kind |-> "entry", lsn |-> lsn, n |-> n]
Torn(k) == [kind |-> k, lsn |-> 0, n |-> 0]
NoTemp == <<[kind |-> "none"]>>
NotTruncating == [at |-> "no", lsn |-> 0]

(* read_entries_from_reader.  A torn entry swallows the unit after it, so  *)
(* of torn units in a row every other one is swallowed itself, and a whole *)
(* entry is read when an even number of them stands directly before it.    *)
InStep(units, k) ==
    \E s \in 0..k - 1 :
        /\ s > 0 => units[s].kind = "entry"
        /\ \A j \in s + 1..k - 1 : units[j].kind # "entry"
        /\ (k - 1 - s) % 2 = 0

(* Whether the reader stands at the start of a unit when it gets there: it *)
(* does not get past a magic number that nothing follows.                  *)
Aligned(units, k) ==
    /\ InStep(units, k)
    /\ \A m \in 1..k - 1 : ~(InStep(units, m) /\ units[m].kind = "magic")

Readable(units) == {k \in 1..Len(units) : Aligned(units, k) /\ units[k].kind = "entry"}

EntriesOf(units) == {units[k] : k \in Readable(units)}

(* find_max_lsn.                                                           *)
MaxLsn(units) == Max({e.lsn : e \in EntriesOf(units)} \cup {0})

-----------------------------------------------------------------------------
WalInit ==
    /\ syncMode \in {"Sync", "BatchSync"}
    /\ walFile = <<>> /\ walBuffer = <<>> /\ walTemp = NoTemp
    /\ currentLsn = 1 /\ walWriter = "open"
    /\ walStep = NotTruncating
    /\ appends = 0 /\ walAcked = {}

Clean(units) == \A k \in DOMAIN units : units[k].kind = "entry"

Idling == walStep = NotTruncating

(* append_entry: the number is taken under the writer's lock.              *)
TakeNumber(writes, acks) ==
    /\ Idling /\ appends < MaxAppends
    /\ appends' = appends + 1
    /\ currentLsn' = currentLsn + 1
    /\ walAcked' = walAcked \cup (IF Clean(walFile) THEN acks ELSE {})
    /\ IF syncMode = "Sync"
       THEN /\ walFile' = walFile \o walBuffer \o writes /\ walBuffer' = <<>>
       ELSE /\ walBuffer' = walBuffer \o writes /\ UNCHANGED walFile
    /\ UNCHANGED <<walTemp, walWriter, walStep>>

(* write_entry_locked to the end: acknowledged, and durable in Sync mode.  *)
AppendEntry ==
    /\ walWriter = "open"
    /\ LET e == Whole(currentLsn, appends + 1) IN
       TakeNumber(<<e>>, IF syncMode = "Sync" THEN {e} ELSE {})

(* One of its writes fails: the number is gone and part of the entry stays. *)
AppendFails ==
    /\ walWriter = "open"
    /\ \E k \in {"cut", "magic"} : TakeNumber(<<Torn(k)>>, {})

(* "WAL writer closed", after the number was taken.                        *)
AppendClosed ==
    /\ walWriter = "closed"
    /\ TakeNumber(<<>>, {})

(* flush, and Drop: everything buffered is on disk.                        *)
Synced ==
    /\ walFile' = walFile \o walBuffer
    /\ walBuffer' = <<>>
    /\ walAcked' = walAcked \cup
         (IF Clean(walFile)
          THEN {walBuffer[k] : k \in {j \in DOMAIN walBuffer : Clean(SubSeq(walBuffer, 1, j))}}
          ELSE {})

Flush ==
    /\ Idling /\ walWriter = "open" /\ walBuffer # <<>>
    /\ Synced
    /\ UNCHANGED <<walTemp, currentLsn, walWriter, walStep, appends>>

Close ==
    /\ Idling /\ walWriter = "open"
    /\ Synced
    /\ walWriter' = "down"
    /\ UNCHANGED <<walTemp, currentLsn, walStep, appends>>

(* A crash keeps a prefix of what was not synced, and may tear the unit    *)
(* after it.                                                               *)
WalCrash ==
    /\ walWriter # "down"
    /\ \E n \in 0..Len(walBuffer) : \E torn \in {<<>>, <<Torn("cut")>>, <<Torn("magic")>>} :
         /\ n = Len(walBuffer) => torn = <<>>
         /\ walFile' = walFile \o SubSeq(walBuffer, 1, n) \o torn
    /\ walBuffer' = <<>>
    /\ walWriter' = "down" /\ walStep' = NotTruncating
    /\ UNCHANGED <<walTemp, currentLsn, appends, walAcked>>

(* open: leftovers of a truncation go, numbering goes on after the highest *)
(* number the reader finds.                                                *)
Open ==
    /\ walWriter = "down"
    /\ walTemp' = NoTemp
    /\ currentLsn' = MaxLsn(walFile) + 1
    /\ walWriter' = "open"
    /\ UNCHANGED <<walFile, walBuffer, walStep, appends, walAcked>>

-----------------------------------------------------------------------------
(* truncate_to, under the writer's lock throughout.                        *)

(* The units at the given places, in the order of the file.                *)
Ascending(f) == \A i, j \in DOMAIN f : i < j => f[i] < f[j]
InFileOrder(units, places) ==
    LET n == Cardinality(places)
        at == CHOOSE f \in [1..n -> places] : Ascending(f) /\ \A k \in places : \E i \in 1..n : f[i] = k
    IN [i \in 1..n |-> units[at[i]]]

(* A plausible bug: the entry after the checkpoint goes too.               *)
EntriesWellAfter(units, lsn) == InFileOrder(units, {k \in Readable(units) : units[k].lsn > lsn + 1})

(* The entries to keep, as the reader finds them.                          *)
EntriesAfter(units, lsn) == InFileOrder(units, {k \in Readable(units) : units[k].lsn > lsn})

(* The writer is dropped, which flushes it.                                *)
TruncateBegin(lsn) ==
    /\ Idling /\ walWriter \in {"open", "closed"}
    /\ walWriter' = "closed"
    /\ walFile' = walFile \o walBuffer /\ walBuffer' = <<>>
    /\ walStep' = [at |-> "temp", lsn |-> lsn]
    /\ UNCHANGED <<walTemp, currentLsn, appends, walAcked>>

TruncateTemp ==
    /\ walStep.at = "temp"
    /\ walTemp' = EntriesAfter(walFile, walStep.lsn)
    /\ walStep' = [walStep EXCEPT !.at = "rename"]
    /\ UNCHANGED <<walFile, walBuffer, currentLsn, walWriter, appends, walAcked>>

TruncateRename ==
    /\ walStep.at = "rename"
    /\ walFile' = walTemp /\ walTemp' = NoTemp
    /\ walAcked' = {e \in walAcked : e.lsn > walStep.lsn}
    /\ walStep' = [walStep EXCEPT !.at = "reopen"]
    /\ UNCHANGED <<walBuffer, currentLsn, walWriter, appends>>

TruncateReopen ==
    /\ walStep.at = "reopen"
    /\ walWriter' = "open" /\ walStep' = NotTruncating
    /\ UNCHANGED <<walFile, walBuffer, walTemp, currentLsn, appends, walAcked>>

(* An error at any of these steps returns with the writer still closed.    *)
TruncateFails ==
    /\ walStep # NotTruncating
    /\ walStep' = NotTruncating
    /\ UNCHANGED <<walFile, walBuffer, walTemp, currentLsn, walWriter, appends, walAcked>>

-----------------------------------------------------------------------------
WalNext ==
    /\ UNCHANGED syncMode
    /\ \/ AppendEntry \/ AppendFails \/ AppendClosed \/ Flush \/ Close \/ WalCrash \/ Open
       \/ \E lsn \in 0..MaxAppends : TruncateBegin(lsn)
       \/ TruncateTemp \/ TruncateRename \/ TruncateReopen \/ TruncateFails

WalSpec == WalInit /\ [][WalNext]_walVars

-----------------------------------------------------------------------------
(* What a reader of the file gets has numbers that go up, however often    *)
(* the log was torn, truncated and opened again: replay never sees two     *)
(* entries with one number, nor an older one after a newer.                *)
LsnsIncrease ==
    \A j, k \in Readable(walFile) : j < k => walFile[j].lsn < walFile[k].lsn

(* An entry whose append or flush returned is read back, through crashes   *)
(* at any point of a truncation, until a truncation asks for its removal,  *)
(* unless an append or a crash had torn the log before it was written.     *)
AckedIsRead == walAcked \subseteq EntriesOf(walFile)

(* LSNs in the log increase across torn tails, truncations and reopenings, *)
(* and a read after an LSN returns every acknowledged entry.               *)
LogSafe ==
    /\ LsnsIncrease
    /\ AckedIsRead
=============================================================================
