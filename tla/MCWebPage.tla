------------------------------ MODULE MCWebPage -----------------------------
(***************************************************************************)
(* Instances of WebPage for TLC.                                           *)
(***************************************************************************)
EXTENDS WebPage

\* Sound for invariants and action properties: none tells one worker, or one page,
\* from another.
Interchangeable == Permutations(Worker) \cup Permutations(Episode)

\* Tasks, rules for the future and messages that are not understood.
PageMessages ==
    {intake \in DevIntakes :
        \E i \in DOMAIN intake.items :
            \/ intake.items[i].type \in {"task", "ambiguous_request"}
            \/ intake.items[i].type = "rule_candidate" /\ intake.items[i].key = "none"}

\* Tasks and the rule that has them reviewed.
ReviewMessages ==
    {intake \in DevIntakes :
        \E i \in DOMAIN intake.items :
            \/ intake.items[i].type = "task"
            \/ intake.items[i].key = "show_understanding_before_execution"}

=============================================================================
