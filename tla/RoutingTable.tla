---------------------------- MODULE RoutingTable ----------------------------
(***************************************************************************)
(* One message on its way from its text to the branch of handle_message    *)
(* it takes: the exact commands first, then what the language model        *)
(* returned for it, parsed, validated and dispatched.  For every stored    *)
(* state, to compare the decision with the tables of                       *)
(* 02_TECHNICAL_SPECIFICATION.md.                                          *)
(***************************************************************************)
EXTENDS LLMIntake, CommandText

CONSTANT Messages   \* texts, each with what the client returns for it

ASSUME MessagesAssumption ==
    \A message \in Messages :
        message.text \in Seq(Character) /\ IsPayload(message.payload)

VARIABLES state,    \* the stored state of the episode
          message,  \* the user message
          intake,   \* what the classifier made of it
          pc,       \* what comes next
          route     \* the branch taken, or "server_error"

vars == <<state, message, intake, pc, route>>

Init ==
    /\ state \in EpisodeState \ {"executing", "completed"}
    /\ message \in Messages
    /\ intake = Intake("chat", << >>)
    /\ pc = "preprocess"
    /\ route = "undecided"

Action == Preprocess(CommandOf(message.text), state)

Control ==
    /\ pc = "preprocess"
    /\ Action # "none"
    /\ route' = Action /\ pc' = "done"
    /\ UNCHANGED <<state, message, intake>>

ClassifyMessage ==
    /\ pc = "preprocess"
    /\ Action = "none"
    /\ intake' = Classify(message.payload)
    /\ pc' = "validate"
    /\ UNCHANGED <<state, message, route>>

Validate ==
    /\ pc = "validate"
    /\ ~ValidationRaises(intake)
    /\ pc' = "dispatch"
    /\ UNCHANGED <<state, message, intake, route>>

ValidateRaises ==
    /\ pc = "validate"
    /\ ValidationRaises(intake)
    /\ pc' = "done" /\ route' = "server_error"
    /\ UNCHANGED <<state, message, intake>>

Dispatch ==
    LET branch == SemanticRoute(state, intake) IN
    /\ pc = "dispatch"
    /\ ~(branch = "propose_rule" /\ ProposalRaises(intake))
    /\ pc' = "done" /\ route' = branch
    /\ UNCHANGED <<state, message, intake>>

DispatchRaises ==
    /\ pc = "dispatch"
    /\ SemanticRoute(state, intake) = "propose_rule"
    /\ ProposalRaises(intake)
    /\ pc' = "done" /\ route' = "server_error"
    /\ UNCHANGED <<state, message, intake>>

Next ==
    Control \/ ClassifyMessage \/ Validate \/ ValidateRaises \/ Dispatch \/ DispatchRaises

Spec == Init /\ [][Next]_vars

-----------------------------------------------------------------------------
(* Properties. *)

Branches ==
    {"fallback", "request_switch", "propose_rule", "query", "chat", "feedback",
     "correction", "task"}

\* Whatever the client returned, the intake is in the vocabulary, no field of it
\* was missing, and the decision is a branch of handle_message.
TypeOK ==
    /\ state \in EpisodeState
    /\ pc \in {"preprocess", "validate", "dispatch", "done"}
    /\ intake.primary_intent \in PrimaryIntent
    /\ \A i \in DOMAIN intake.items :
          /\ intake.items[i].type \in MessageItemType
          /\ intake.items[i].text \in Text \cup {NonText}
    /\ route \in Branches \cup {"undecided", "server_error"} \cup (Command \ {"none"})

\* A text is a command exactly if the whole of it says one, in any case and
\* between any punctuation, and no text that merely contains one is; yes and no
\* count only while an answer is awaited.
CommandsExact ==
    route # "undecided" =>
        /\ route = "cancel" <=>
               \E command \in CANCEL_COMMANDS : Says(message.text, command)
        /\ route = "confirm" <=>
               /\ state \in PendingConfirmationStates
               /\ \E command \in CONFIRM_COMMANDS : Says(message.text, command)
        /\ route = "reject" <=>
               /\ state \in PendingConfirmationStates
               /\ \E command \in REJECT_COMMANDS : Says(message.text, command)

\* A payload that follows the schema of an intake, except that a text or a key
\* may be of the wrong kind.
InShape(payload) ==
    /\ payload.shape \notin {"other", "raised"}
    /\ payload.primary_intent \notin {"mixed", "unsupported", "absent"}
    /\ payload.is_list
    /\ {payload.items[i].type : i \in DOMAIN payload.items}
           \cap {"unsupported", "absent"} = {}
    /\ \A i \in DOMAIN payload.items : payload.items[i].text # Absent

Semantic == pc = "done" /\ route \notin Command

\* Wherever its defect is, a payload out of shape is never acted on in part: the
\* turn asks the user again, in every state, and does not fail.
FailsClosed == Semantic /\ ~InShape(message.payload) => route = "fallback"

CleanIntake ==
    Intake(intake.primary_intent,
           [i \in DOMAIN intake.items |->
               [intake.items[i] EXCEPT !.text = IF @ = NonText THEN UserText ELSE @,
                                       !.key = IF @ = "unhashable" THEN "none" ELSE @]])

\* What a branch takes from an intake.
ActedOn(result) ==
    CASE route = "task" ->
             {result.items[i].text : i \in FirstOfType(result.items, "task")}
      [] route = "propose_rule" ->
             {<<result.items[i].text, result.items[i].key>> :
                 i \in FirstOfType(result.items, "rule_candidate")}
      [] route = "fallback" -> {Reason(result)}
      [] OTHER -> {}

\* A turn that ends without an error did what a well-formed intake would have
\* made it do: what is not of its kind was looked at neither by the decision nor
\* by the branch.  Models that take intakes from IntakeResult thereby cover the
\* language model.
ActsAsOnIntake ==
    Semantic /\ route # "server_error" =>
        /\ CleanIntake \in IntakeResult
        /\ SemanticRoute(state, CleanIntake) = route
        /\ ActedOn(CleanIntake) = ActedOn(intake)

\* The unguarded next(...) that picks the goal of a task turn never runs out of
\* items: whatever the classifier put together, the task branch is reached only
\* with a task item, so the turn cannot die on an empty search.
TaskBranchHasGoal ==
    route = "task" => FirstOfType(intake.items, "task") # {}

\* An intake that is in order: all of its items are valid and unambiguous, and
\* those its intent needs are there.
InOrder ==
    /\ \A i \in DOMAIN intake.items :
          /\ IsValid(intake.items[i])
          /\ intake.items[i].type # "ambiguous_request"
    /\ intake.primary_intent \in DOMAIN MandatoryItem =>
          HasItem(intake, MandatoryItem[intake.primary_intent])

\* The decision table of handle_message: what may interrupt a review asks first, a
\* rule is proposed whatever else the message says, then the intent is served.
ExpectedRoute ==
    IF state \in {"pending_understanding_review", "pending_rule_review"}
       /\ intake.primary_intent \notin {"correction", "feedback"}
    THEN "request_switch"
    ELSE IF HasItem(intake, "rule_candidate") THEN "propose_rule"
    ELSE intake.primary_intent

\* An orderly intake takes the branch the table names, in every state and whatever
\* it combines: a rule beside a question, a task or a correction is not lost.  An
\* intake to cancel has no branch of its own and is left out.
OrderlyTakesItsBranch ==
    (/\ Semantic /\ route # "server_error"
     /\ InOrder /\ intake.primary_intent # "cancel") => route = ExpectedRoute

=============================================================================
