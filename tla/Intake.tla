------------------------------- MODULE Intake -------------------------------
(***************************************************************************)
(* The result of classifying one user message, and its deterministic       *)
(* validation: domain/models.py, domain/validation.py and the intakes that *)
(* DevCommandClassifier can return.                                        *)
(*                                                                         *)
(* A text is a member of Text; what the code asks of it are two tests,     *)
(* "is it empty once stripped" (Blank) and, in TaskRuntime, which of the   *)
(* runtime's exact phrases it is.  A scope is only ever tested for         *)
(* presence, so it is a Boolean.                                           *)
(***************************************************************************)
EXTENDS Naturals, Sequences

CONSTANTS Text,    \* the texts a message item may carry
          Blank    \* those that are empty once stripped

ASSUME TextAssumption == Blank \subseteq Text

PrimaryIntent ==
    {"task", "rule_update", "correction", "feedback", "query", "cancel", "chat"}

MessageItemType ==
    {"task", "rule_candidate", "correction", "feedback", "query", "cancel",
     "ambiguous_request"}

KnownRuleKeys == {"show_understanding_before_execution"}

\* A key the registry does not know, and the absence of a key.
RuleKey == KnownRuleKeys \cup {"unregistered", "none"}

ApplicationMode == {"enforced_by_rule_engine", "future_rule"}

MessageItem ==
    [type : MessageItemType, text : Text, scope : BOOLEAN, key : RuleKey]

IntakeResult == [primary_intent : PrimaryIntent, items : Seq(MessageItem)]

-----------------------------------------------------------------------------
(* Item-level validation. *)

DeriveRuleApplicationMode(key) ==
    IF key \in KnownRuleKeys THEN "enforced_by_rule_engine" ELSE "future_rule"

RequiresText == {"task", "rule_candidate", "correction", "feedback"}

IsValid(item) ==
    /\ item.type \in RequiresText => item.text \notin Blank
    /\ item.type = "rule_candidate" => item.scope

\* The code looks items up with next(...): the first one of a type, valid or
\* not.  This is the set of its index, empty if the type does not occur.
FirstOfType(items, type) ==
    {i \in DOMAIN items : /\ items[i].type = type
                          /\ \A j \in 1 .. (i - 1) : items[j].type # type}

HasItem(intake, type) == \E i \in DOMAIN intake.items : intake.items[i].type = type

HasValidItem(intake, type) ==
    \E i \in DOMAIN intake.items :
        intake.items[i].type = type /\ IsValid(intake.items[i])

-----------------------------------------------------------------------------
(* Sufficiency and the two review flags. *)

\* The item type an intent cannot do without.
MandatoryItem == [task        |-> "task",
                  rule_update |-> "rule_candidate",
                  correction  |-> "correction",
                  feedback    |-> "feedback"]

\* Mutant: any valid item makes up for the one the intent cannot do without.
SufficientByAnyItem(intake) ==
    \/ intake.primary_intent \in {"query", "cancel"}
    \/ intake.primary_intent = "chat" /\ ~HasItem(intake, "ambiguous_request")
    \/ /\ intake.primary_intent \in DOMAIN MandatoryItem
       /\ \E type \in MessageItemType : HasValidItem(intake, type)

ComputeUnderstandingSufficiency(intake) ==
    \/ intake.primary_intent \in {"query", "cancel"}
    \/ intake.primary_intent = "chat" /\ ~HasItem(intake, "ambiguous_request")
    \/ /\ intake.primary_intent \in DOMAIN MandatoryItem
       /\ HasValidItem(intake, MandatoryItem[intake.primary_intent])

NeedsClarification(intake) ==
    \/ HasItem(intake, "ambiguous_request")
    \/ ~ComputeUnderstandingSufficiency(intake)

RequiresUserReview(intake) ==
    ~NeedsClarification(intake) /\ HasValidItem(intake, "rule_candidate")

-----------------------------------------------------------------------------
(* The intakes of the slash-command classifier the application starts with: *)
(* one item at most, its text never blank because the whole message was    *)
(* stripped before its prefix was matched.                                 *)

Item(type, text, scope, key) ==
    [type |-> type, text |-> text, scope |-> scope, key |-> key]

Intake(intent, items) == [primary_intent |-> intent, items |-> items]

DevIntakes ==
    {Intake("chat", << >>)} \cup
    UNION {{Intake("task", <<Item("task", text, FALSE, "none")>>),
            Intake("rule_update",
                   <<Item("rule_candidate", text, TRUE,
                          "show_understanding_before_execution")>>),
            Intake("rule_update",
                   <<Item("rule_candidate", text, TRUE, "none")>>),
            Intake("query", <<Item("query", text, FALSE, "none")>>),
            Intake("chat", <<Item("ambiguous_request", text, FALSE, "none")>>)}
           : text \in Text \ Blank}

=============================================================================
