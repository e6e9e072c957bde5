--------------------------- MODULE MCOrchestrator ---------------------------
(***************************************************************************)
(* Instances of Orchestrator for TLC.                                      *)
(***************************************************************************)
EXTENDS Orchestrator

\* A text that is an ordinary, runnable goal.
PlainText == CHOOSE text \in Text \ (Blank \cup UnclearGoals \cup ReviewGoals) : TRUE

TaskItem(text) == Item("task", text, FALSE, "none")
RuleItem(text, scope, key) == Item("rule_candidate", text, scope, key)

\* Every intent with no item or one: tasks of every text, rules with and without
\* scope, text and a known key, and every other type.
SingleItems ==
    {TaskItem(text) : text \in Text}
    \cup {RuleItem(PlainText, scope, key) : scope \in BOOLEAN, key \in RuleKey \ {"none"}}
    \cup {RuleItem(text, TRUE, "none") : text \in Blank}
    \cup {Item(type, PlainText, FALSE, "none") :
            type \in {"correction", "feedback", "query", "cancel", "ambiguous_request"}}

\* Items a language model may put side by side, in either order.
PairedItems ==
    {TaskItem(text) : text \in Blank \cup {PlainText}}
    \cup {RuleItem(PlainText, TRUE, "unregistered"), RuleItem(PlainText, FALSE, "none")}
    \cup {Item("correction", PlainText, FALSE, "none")}

ModelIntakes ==
    {Intake(intent, items) :
        intent \in PrimaryIntent,
        items \in {<< >>} \cup {<<item>> : item \in SingleItems}
                 \cup {<<first, second>> : first \in PairedItems, second \in PairedItems}}

\* The slash commands and, beside them, a correction that carries a rule.
MixedIntakes ==
    DevIntakes \cup
    {Intake("correction", <<Item("correction", PlainText, FALSE, "none"),
                            RuleItem(PlainText, TRUE, key)>>) : key \in RuleKey}

=============================================================================
