----------------------------- MODULE MCProgress -----------------------------
(***************************************************************************)
(* Searches of the coordinator, the merge of their answers and the         *)
(* compaction scheduler on small instances, one at a time.  focus picks    *)
(* the component that moves, the other keeps an initial state.             *)
(***************************************************************************)
EXTENDS FanoutSearch, CompactionScheduler

VARIABLE focus

progressVars == <<focus, searchVars, mergeVars, compactionVars>>

Groups == <<1, 2, 1>>

MCInit ==
    /\ focus \in {"search", "merge", "compaction"}
    /\ SearchInit /\ MergeInit /\ CompactionInit
    /\ poolless \subseteq {2} /\ (focus # "search" => poolless = {})
    /\ focus # "compaction" => dirty = [s \in CShards |-> FALSE]

MCNext ==
    /\ UNCHANGED focus
    /\ focus # "search" => UNCHANGED searchVars
    /\ focus # "merge" => UNCHANGED mergeVars
    /\ focus # "compaction" => UNCHANGED compactionVars
    /\ \/ focus = "search" /\ SearchNext
       \/ focus = "merge" /\ MergeNext
       \/ focus = "compaction" /\ CompactionNext

(* Callers keep searching, a call ends in an answer or a timeout, and time *)
(* passes; outages end.                                                    *)
SearchFairness ==
    /\ \A c \in Searches :
         /\ WF_searchVars(focus = "search" /\ UNCHANGED poolless /\ StartSearch(c))
         /\ WF_searchVars(focus = "search" /\ UNCHANGED poolless /\ CollectNext(c, "results"))
         /\ WF_searchVars(focus = "search" /\ UNCHANGED poolless /\ FinishSearch(c))
    /\ WF_searchVars(focus = "search" /\ UNCHANGED poolless /\ SearchTick)
    /\ WF_searchVars(focus = "search" /\ UNCHANGED poolless /\ Mend)

(* The scheduler and the worker run, select! picks among its ready arms at *)
(* random, senders wait for a channel in order, and statistics keep coming.*)
CompactionFairness ==
    /\ SF_compactionVars(focus = "compaction" /\ HandleEvent)
    /\ WF_compactionVars(focus = "compaction" /\ (SendTrigger \/ ScheduledRun))
    /\ SF_compactionVars(focus = "compaction" /\ (\E due \in BOOLEAN : CheckTick(due)))
    /\ WF_compactionVars(focus = "compaction" /\ TakeTrigger)
    /\ SF_compactionVars(focus = "compaction" /\ ReportCompleted)
    /\ WF_compactionVars(focus = "compaction" /\ (\E success \in BOOLEAN : FinishCompaction(success)))
    /\ \A s \in CShards :
         /\ SF_compactionVars(focus = "compaction" /\ ReportStats(s))
         /\ WF_compactionVars(focus = "compaction" /\ IntervalPasses(s))

MCSpec == MCInit /\ [][MCNext]_progressVars /\ SearchFairness /\ CompactionFairness
=============================================================================
