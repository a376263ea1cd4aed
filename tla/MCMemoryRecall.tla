--------------------------- MODULE MCMemoryRecall ---------------------------
(* One assertion, one caller; versions are remembered, proposed and        *)
(* deleted while the projections follow.                                   *)
EXTENDS MemoryRecall

Draft(r) == [assertion |-> "a", scope |-> "s", sources |-> {"e"}, rank |-> r, flagged |-> FALSE]
MCSubjectOf == [s \in Scopes |-> None]
MCDrafts == {Draft(1)}
MCNext ==
    /\ RecallNext
    /\ log' # log => log'[Len(log')].op \in {"Commit", "Propose", "RetentionDelete"}
MCSpec ==
    RecallInit /\ [][MCNext]_vars
        /\ WF_vars(ReplayStep) /\ \A c \in Clients : SF_vars(RecallStep(c))
=============================================================================
