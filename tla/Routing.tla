------------------------------ MODULE Routing -------------------------------
(***************************************************************************)
(* The decisions a turn takes before it acts: the exact-command            *)
(* preprocessor (services/deterministic_preprocessor.py), the pending      *)
(* switch test (services/pending_switch_service.py) and the order in which *)
(* handle_message (services/orchestrator.py) tries its branches.           *)
(***************************************************************************)
EXTENDS Intake

EpisodeState ==
    {"open", "pending_understanding_review", "pending_rule_review",
     "pending_switch_confirmation", "executing", "completed", "cancelled"}

ReviewStates == {"pending_understanding_review", "pending_rule_review"}

PendingConfirmationStates == ReviewStates \cup {"pending_switch_confirmation"}

\* Which list of commands the normalised text is in, if any.
Command == {"cancel", "confirm", "reject", "none"}

Preprocess(command, state) ==
    IF command = "cancel" \/ state \in PendingConfirmationStates
    THEN command ELSE "none"

\* Mutant: a pending switch can itself be interrupted.
SwitchInAnyPendingState(state, intake) ==
    /\ state \in PendingConfirmationStates
    /\ intake.primary_intent \in {"task", "query", "rule_update", "chat"}

ShouldRequestSwitch(state, intake) ==
    /\ state \in ReviewStates
    /\ intake.primary_intent \in {"task", "query", "rule_update", "chat"}

\* Mutant: the intent is served before a rule that came with it.
RouteIntentFirst(state, intake) ==
    IF NeedsClarification(intake) THEN "fallback"
    ELSE IF ShouldRequestSwitch(state, intake) THEN "request_switch"
    ELSE IF intake.primary_intent \in {"query", "chat", "feedback", "correction"}
         THEN intake.primary_intent
    ELSE IF HasItem(intake, "rule_candidate") THEN "propose_rule"
    ELSE IF intake.primary_intent = "task" /\ ~RequiresUserReview(intake)
         THEN "task"
    ELSE "fallback"

\* The branch a semantic turn takes.  The order is that of the code: an
\* unclear intake falls back in every state, a switch is asked for before a
\* rule is proposed, and a rule item is proposed whatever the intent is.
SemanticRoute(state, intake) ==
    IF NeedsClarification(intake) THEN "fallback"
    ELSE IF ShouldRequestSwitch(state, intake) THEN "request_switch"
    ELSE IF HasItem(intake, "rule_candidate") THEN "propose_rule"
    ELSE IF intake.primary_intent \in {"query", "chat", "feedback", "correction"}
         THEN intake.primary_intent
    ELSE IF intake.primary_intent = "task" /\ ~RequiresUserReview(intake)
         THEN "task"
    ELSE "fallback"

Reason(intake) ==
    IF HasItem(intake, "ambiguous_request")
    THEN "ambiguous_request" ELSE "missing_mandatory_fields"

=============================================================================
