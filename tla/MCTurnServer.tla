---------------------------- MODULE MCTurnServer ----------------------------
(***************************************************************************)
(* Instances of TurnServer for TLC.                                        *)
(***************************************************************************)
EXTENDS TurnServer, TLC

\* Sound for invariants and action properties: none tells one worker or one
\* episode from another.
Interchangeable == Permutations(Worker) \cup Permutations(Episode)

\* The messages that change what is pending.
ReviewMessages ==
    {intake \in DevIntakes : intake.primary_intent \in {"task", "rule_update"}}

\* Every slash command; what a rule says is clear.
SlashCommands ==
    {intake \in DevIntakes :
        intake.primary_intent = "rule_update" =>
            \A i \in DOMAIN intake.items : intake.items[i].text \notin UnclearGoals}

\* Those that change the program.
RuleMessages ==
    {intake \in DevIntakes : intake.primary_intent = "rule_update"}

=============================================================================
