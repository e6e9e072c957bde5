---------------------------- MODULE Orchestrator ----------------------------
(***************************************************************************)
(* The dialogue controller: services/orchestrator.py with the repositories *)
(* it writes and the two API operations that reach it (api.py).            *)
(*                                                                         *)
(* A turn is one atomic step here: a request is answered before the next   *)
(* one is taken.  There is one action per branch of handle_message, each   *)
(* with everything that branch writes and the saving of the episode in     *)
(* create_turn.  The classifier is an injected seam; it may answer any     *)
(* member of Intakes in any state.                                         *)
(***************************************************************************)
EXTENDS Routing, TaskRuntime

CONSTANTS Intakes,       \* the intakes the classifier may return
          None,          \* no such entry in a repository, no such field
          MaxVersions,   \* bound: the versions a behaviour may reach
          MaxUnknown     \* bound: the fallbacks recorded for one episode

ASSUME IntakesAssumption == Intakes \subseteq IntakeResult
ASSUME NoneAssumption ==
    None \notin Text \cup RuleCandidate \cup EpisodeState
ASSUME BoundsAssumption == MaxVersions \in Nat /\ MaxUnknown \in Nat

VARIABLES
    state,               \* episode repository: the stored state, None before
    fallback_count,      \* episode repository: the stored fallback count
    rule_candidates,     \* rule candidate repository, by episode
    understandings,      \* pending understanding repository: the goal to run
    deferred,            \* deferred message repository: the state to return to
    versions,            \* program version repository, by number
    unknown_utterances,  \* the unknown utterance log, split by episode
    turn                 \* what the last request answered

episodes == <<state, fallback_count>>
vars == <<state, fallback_count, rule_candidates, understandings, deferred,
          versions, unknown_utterances, turn>>

Program == CurrentProgram(versions)

Reply(e, response, runtime) ==
    turn' = [episode |-> e, response |-> response, runtime |-> runtime]

Init ==
    /\ state = [e \in Episode |-> None]
    /\ fallback_count = [e \in Episode |-> 0]
    /\ rule_candidates = [e \in Episode |-> None]
    /\ understandings = [e \in Episode |-> None]
    /\ deferred = [e \in Episode |-> None]
    /\ versions = << >>
    /\ unknown_utterances = [e \in Episode |-> << >>]
    /\ turn = [episode |-> None, response |-> "started", runtime |-> None]

-----------------------------------------------------------------------------
(* Requests that are not turns. *)

CreateEpisode(e) ==
    /\ state[e] = None
    /\ versions' = CreateInitialVersion(versions)
    /\ state' = [state EXCEPT ![e] = "open"]
    /\ Reply(e, "episode_created", None)
    /\ UNCHANGED <<fallback_count, rule_candidates, understandings, deferred,
                   unknown_utterances>>

GetCurrentProgram ==
    /\ versions' = CreateInitialVersion(versions)
    /\ Reply(None, "program_current", None)
    /\ UNCHANGED <<episodes, rule_candidates, understandings, deferred,
                   unknown_utterances>>

-----------------------------------------------------------------------------
(* Exact commands.  None of them touches the fallback count. *)

Receives(e, command) ==
    state[e] # None /\ Preprocess(command, state[e]) = command

Cancel(e) ==
    /\ Receives(e, "cancel")
    /\ rule_candidates' = [rule_candidates EXCEPT ![e] = None]
    /\ understandings' = [understandings EXCEPT ![e] = None]
    /\ deferred' = [deferred EXCEPT ![e] = None]
    /\ state' = [state EXCEPT ![e] = "cancelled"]
    /\ Reply(e, "cancelled", None)
    /\ UNCHANGED <<fallback_count, versions, unknown_utterances>>

\* A confirmed understanding runs without the step that shows it.
ConfirmUnderstanding(e) ==
    /\ Receives(e, "confirm")
    /\ state[e] = "pending_understanding_review"
    /\ IF understandings[e] = None
       THEN Reply(e, "missing_understanding", None)
       ELSE \E result \in Executions(understandings[e], Program, FALSE) :
                Reply(e, "understanding_confirmed", result)
    /\ understandings' = [understandings EXCEPT ![e] = None]
    /\ state' = [state EXCEPT ![e] = "open"]
    /\ UNCHANGED <<fallback_count, rule_candidates, deferred, versions,
                   unknown_utterances>>

\* Mutant: the understanding is deleted before the runtime is called.
ConfirmUnderstandingLosesIt(e) ==
    /\ Receives(e, "confirm")
    /\ state[e] = "pending_understanding_review"
    /\ understandings[e] # None
    /\ MayRaise(understandings[e])
    /\ understandings' = [understandings EXCEPT ![e] = None]
    /\ Reply(e, "server_error", None)
    /\ UNCHANGED <<episodes, rule_candidates, deferred, versions,
                   unknown_utterances>>

\* The runtime raises before anything is deleted or saved: a server error.
ConfirmUnderstandingRaises(e) ==
    /\ Receives(e, "confirm")
    /\ state[e] = "pending_understanding_review"
    /\ understandings[e] # None
    /\ MayRaise(understandings[e])
    /\ Reply(e, "server_error", None)
    /\ UNCHANGED <<episodes, rule_candidates, understandings, deferred,
                   versions, unknown_utterances>>

RejectUnderstanding(e) ==
    /\ Receives(e, "reject")
    /\ state[e] = "pending_understanding_review"
    /\ Reply(e, IF understandings[e] = None THEN "missing_understanding"
                ELSE "understanding_rejected", None)
    /\ understandings' = [understandings EXCEPT ![e] = None]
    /\ state' = [state EXCEPT ![e] = "open"]
    /\ UNCHANGED <<fallback_count, rule_candidates, deferred, versions,
                   unknown_utterances>>

ConfirmRule(e) ==
    /\ Receives(e, "confirm")
    /\ state[e] = "pending_rule_review"
    /\ IF rule_candidates[e] = None
       THEN versions' = versions /\ Reply(e, "missing_rule", None)
       ELSE /\ Len(versions) < MaxVersions
            /\ versions' = SaveVersion(versions, NextVersionNumber(versions),
                               ConfirmRuleCandidate(Program, rule_candidates[e]))
            /\ Reply(e, "rule_confirmed", None)
    /\ rule_candidates' = [rule_candidates EXCEPT ![e] = None]
    /\ state' = [state EXCEPT ![e] = "open"]
    /\ UNCHANGED <<fallback_count, understandings, deferred, unknown_utterances>>

RejectRule(e) ==
    /\ Receives(e, "reject")
    /\ state[e] = "pending_rule_review"
    /\ Reply(e, IF rule_candidates[e] = None THEN "missing_rule"
                ELSE "rule_rejected", None)
    /\ rule_candidates' = [rule_candidates EXCEPT ![e] = None]
    /\ state' = [state EXCEPT ![e] = "open"]
    /\ UNCHANGED <<fallback_count, understandings, deferred, versions,
                   unknown_utterances>>

\* Mutant: only the rule of the interrupted review is given up.
ConfirmSwitchKeepsUnderstanding(e) ==
    /\ Receives(e, "confirm")
    /\ state[e] = "pending_switch_confirmation"
    /\ rule_candidates' = [rule_candidates EXCEPT ![e] = None]
    /\ deferred' = [deferred EXCEPT ![e] = None]
    /\ state' = [state EXCEPT ![e] = "cancelled"]
    /\ Reply(e, "switch_confirmed", None)
    /\ UNCHANGED <<fallback_count, understandings, versions, unknown_utterances>>

\* The deferred message is dropped too: the user is asked to send it again.
ConfirmSwitch(e) ==
    /\ Receives(e, "confirm")
    /\ state[e] = "pending_switch_confirmation"
    /\ rule_candidates' = [rule_candidates EXCEPT ![e] = None]
    /\ understandings' = [understandings EXCEPT ![e] = None]
    /\ deferred' = [deferred EXCEPT ![e] = None]
    /\ state' = [state EXCEPT ![e] = "cancelled"]
    /\ Reply(e, "switch_confirmed", None)
    /\ UNCHANGED <<fallback_count, versions, unknown_utterances>>

\* Mutant: the interrupted review is not taken up again.
RejectSwitchOpens(e) ==
    /\ Receives(e, "reject")
    /\ state[e] = "pending_switch_confirmation"
    /\ state' = [state EXCEPT ![e] = "open"]
    /\ deferred' = [deferred EXCEPT ![e] = None]
    /\ Reply(e, "switch_rejected", None)
    /\ UNCHANGED <<fallback_count, rule_candidates, understandings, versions,
                   unknown_utterances>>

RejectSwitch(e) ==
    /\ Receives(e, "reject")
    /\ state[e] = "pending_switch_confirmation"
    /\ state' = [state EXCEPT ![e] = IF deferred[e] = None
                                     THEN "pending_rule_review" ELSE deferred[e]]
    /\ deferred' = [deferred EXCEPT ![e] = None]
    /\ Reply(e, "switch_rejected", None)
    /\ UNCHANGED <<fallback_count, rule_candidates, understandings, versions,
                   unknown_utterances>>

-----------------------------------------------------------------------------
(* Semantic turns: the classifier's intake decides, with the stored state. *)

Routed(e, intake, route) ==
    state[e] # None /\ SemanticRoute(state[e], intake) = route

ResetFallbackCount(e) == fallback_count' = [fallback_count EXCEPT ![e] = 0]

FallbackResponse(count) ==
    IF count = 1 THEN "ask_to_clarify"
    ELSE IF count = 2 THEN "ask_to_rephrase" ELSE "suggest_verbs"

\* Mutant: the utterance is recorded before the count is raised.
FallbackRecordsOldCount(e, intake) ==
    /\ Routed(e, intake, "fallback")
    /\ Len(unknown_utterances[e]) < MaxUnknown
    /\ fallback_count' = [fallback_count EXCEPT ![e] = @ + 1]
    /\ unknown_utterances' =
           [unknown_utterances EXCEPT
               ![e] = Append(@, [reason |-> Reason(intake),
                                 fallback_count |-> fallback_count[e]])]
    /\ Reply(e, FallbackResponse(fallback_count'[e]), None)
    /\ UNCHANGED <<state, rule_candidates, understandings, deferred, versions>>

Fallback(e, intake) ==
    /\ Routed(e, intake, "fallback")
    /\ Len(unknown_utterances[e]) < MaxUnknown
    /\ fallback_count' = [fallback_count EXCEPT ![e] = @ + 1]
    /\ unknown_utterances' =
           [unknown_utterances EXCEPT
               ![e] = Append(@, [reason |-> Reason(intake),
                                 fallback_count |-> fallback_count'[e]])]
    /\ Reply(e, FallbackResponse(fallback_count'[e]), None)
    /\ UNCHANGED <<state, rule_candidates, understandings, deferred, versions>>

RequestSwitch(e, intake) ==
    /\ Routed(e, intake, "request_switch")
    /\ deferred' = [deferred EXCEPT ![e] = state[e]]
    /\ state' = [state EXCEPT ![e] = "pending_switch_confirmation"]
    /\ ResetFallbackCount(e)
    /\ Reply(e, "switch_requested", None)
    /\ UNCHANGED <<rule_candidates, understandings, versions, unknown_utterances>>

\* The first rule item, valid or not, replaces whatever candidate is stored.
ProposeRule(e, intake) ==
    /\ Routed(e, intake, "propose_rule")
    /\ \E i \in FirstOfType(intake.items, "rule_candidate") :
           rule_candidates' = [rule_candidates EXCEPT
                                  ![e] = CreateRuleCandidate(e, intake.items[i])]
    /\ state' = [state EXCEPT ![e] = "pending_rule_review"]
    /\ ResetFallbackCount(e)
    /\ Reply(e, "rule_proposed", None)
    /\ UNCHANGED <<understandings, deferred, versions, unknown_utterances>>

\* Queries, chat, feedback and corrections are answered and change nothing.
Answer(e, intake) ==
    /\ Routed(e, intake, intake.primary_intent)
    /\ intake.primary_intent \in {"query", "chat", "feedback", "correction"}
    /\ ResetFallbackCount(e)
    /\ Reply(e, intake.primary_intent, None)
    /\ UNCHANGED <<state, rule_candidates, understandings, deferred, versions,
                   unknown_utterances>>

\* The goal of a task turn is its first task item, valid or not.
TaskGoal(e, intake, goal) ==
    /\ Routed(e, intake, "task")
    /\ \E i \in FirstOfType(intake.items, "task") : goal = intake.items[i].text

ClarifyTask(e, intake, goal) ==
    /\ TaskGoal(e, intake, goal)
    /\ RequiresClarification(goal)
    /\ ResetFallbackCount(e)
    /\ Reply(e, "task_unclear", None)
    /\ UNCHANGED <<state, rule_candidates, understandings, deferred, versions,
                   unknown_utterances>>

\* Mutant: the policy is asked before the clarity of the task.
ProposeUnclearUnderstanding(e, intake, goal) ==
    /\ TaskGoal(e, intake, goal)
    /\ Program.show_understanding_before_execution
    /\ understandings' = [understandings EXCEPT ![e] = goal]
    /\ state' = [state EXCEPT ![e] = "pending_understanding_review"]
    /\ ResetFallbackCount(e)
    /\ Reply(e, "understanding_proposed", None)
    /\ UNCHANGED <<rule_candidates, deferred, versions, unknown_utterances>>

ProposeUnderstanding(e, intake, goal) ==
    /\ TaskGoal(e, intake, goal)
    /\ ~RequiresClarification(goal)
    /\ Program.show_understanding_before_execution
    /\ understandings' = [understandings EXCEPT ![e] = goal]
    /\ state' = [state EXCEPT ![e] = "pending_understanding_review"]
    /\ ResetFallbackCount(e)
    /\ Reply(e, "understanding_proposed", None)
    /\ UNCHANGED <<rule_candidates, deferred, versions, unknown_utterances>>

\* Mutant: an executed task does not end the run of misunderstandings.
ExecuteTaskKeepsCount(e, intake, goal) ==
    /\ TaskGoal(e, intake, goal)
    /\ ~RequiresClarification(goal)
    /\ ~Program.show_understanding_before_execution
    /\ \E result \in Executions(goal, Program, TRUE) : Reply(e, "executed", result)
    /\ UNCHANGED <<episodes, rule_candidates, understandings, deferred, versions,
                   unknown_utterances>>

ExecuteTask(e, intake, goal) ==
    /\ TaskGoal(e, intake, goal)
    /\ ~RequiresClarification(goal)
    /\ ~Program.show_understanding_before_execution
    /\ \E result \in Executions(goal, Program, TRUE) : Reply(e, "executed", result)
    /\ ResetFallbackCount(e)
    /\ UNCHANGED <<state, rule_candidates, understandings, deferred, versions,
                   unknown_utterances>>

ExecuteTaskRaises(e, intake, goal) ==
    /\ TaskGoal(e, intake, goal)
    /\ ~RequiresClarification(goal)
    /\ ~Program.show_understanding_before_execution
    /\ MayRaise(goal)
    /\ Reply(e, "server_error", None)
    /\ UNCHANGED <<episodes, rule_candidates, understandings, deferred,
                   versions, unknown_utterances>>

-----------------------------------------------------------------------------

CommandTurn(e) ==
    \/ Cancel(e)
    \/ ConfirmUnderstanding(e)
    \/ ConfirmUnderstandingRaises(e)
    \/ RejectUnderstanding(e)
    \/ ConfirmRule(e)
    \/ RejectRule(e)
    \/ ConfirmSwitch(e)
    \/ RejectSwitch(e)

TaskTurn(e, intake, goal) ==
    \/ ClarifyTask(e, intake, goal)
    \/ ProposeUnderstanding(e, intake, goal)
    \/ ExecuteTask(e, intake, goal)
    \/ ExecuteTaskRaises(e, intake, goal)

SemanticTurn(e, intake) ==
    \/ Fallback(e, intake)
    \/ RequestSwitch(e, intake)
    \/ ProposeRule(e, intake)
    \/ Answer(e, intake)
    \/ \E goal \in Text : TaskTurn(e, intake, goal)

Next ==
    \/ GetCurrentProgram
    \/ \E e \in Episode :
          \/ CreateEpisode(e)
          \/ CommandTurn(e)
          \/ \E intake \in Intakes : SemanticTurn(e, intake)

Spec == Init /\ [][Next]_vars

-----------------------------------------------------------------------------
(* Properties. *)

Response ==
    {"started", "episode_created", "program_current", "cancelled",
     "missing_understanding", "understanding_confirmed", "understanding_rejected",
     "missing_rule", "rule_confirmed", "rule_rejected", "switch_confirmed",
     "switch_rejected", "ask_to_clarify", "ask_to_rephrase", "suggest_verbs",
     "switch_requested", "rule_proposed", "query", "chat", "feedback",
     "correction", "task_unclear", "understanding_proposed", "executed",
     "server_error"}

Utterance == [reason : {"ambiguous_request", "missing_mandatory_fields"},
              fallback_count : Nat]

\* Every repository and the last answer hold what their code puts there, and
\* an episode exists only beside a first program version.
TypeOK ==
    /\ state \in [Episode -> EpisodeState \cup {None}]
    /\ fallback_count \in [Episode -> Nat]
    /\ rule_candidates \in [Episode -> RuleCandidate \cup {None}]
    /\ understandings \in [Episode -> Text \cup {None}]
    /\ deferred \in [Episode -> ReviewStates \cup {None}]
    /\ versions \in Seq(AgentProgram)
    /\ unknown_utterances \in [Episode -> Seq(Utterance)]
    /\ turn.response \in Response
    /\ (\E e \in Episode : state[e] # None) => versions # << >>

\* The object a review state is about.
Backed(e, reviewState) ==
    /\ reviewState = "pending_rule_review" => rule_candidates[e] # None
    /\ reviewState = "pending_understanding_review" => understandings[e] # None

\* An episode that waits for an answer always has the object the answer is
\* about, also across an interruption: while a switch is being confirmed the
\* state to return to is stored and still has its object.  Hence the
\* "nothing is pending" answers of handle_message are never given.
PendingBacked ==
    \A e \in Episode :
        /\ Backed(e, state[e])
        /\ state[e] = "pending_switch_confirmation" =>
               deferred[e] # None /\ Backed(e, deferred[e])

\* Nothing survives a cancellation: while an episode is stored as cancelled,
\* by command or by a confirmed switch, no repository holds anything of it.
CancelledIsClean ==
    \A e \in Episode :
        state[e] = "cancelled" =>
            /\ rule_candidates[e] = None
            /\ understandings[e] = None
            /\ deferred[e] = None

\* What every stored version says of itself is true: the query contract lists
\* each of its rules once, as enforced or as future, and the policy the rule
\* engine reads is on exactly when a listed rule is enforced.
RulesHonest == \A n \in DOMAIN versions : HonestProgram(versions[n])

\* A task too vague to run is never stored for review and never run, however
\* many turns lie between its proposal and its confirmation.
NothingUnclearRuns ==
    /\ \A e \in Episode : understandings[e] \notin UnclearGoals
    /\ turn.runtime # None => turn.runtime.goal \notin UnclearGoals

\* The runtime executes every step of a plan it is given without asking, so no
\* plan that was executed holds a step that waits for the user.
NoPlanAwaitsUser ==
    turn.runtime # None =>
        \A i \in DOMAIN turn.runtime.runtime_plan :
            ~turn.runtime.runtime_plan[i].requires_confirmation

\* The answers of a turn that was understood, whatever it led to, and of one that
\* was not; commands and server errors are neither.
Understood == {"switch_requested", "rule_proposed", "query", "chat", "feedback",
               "correction", "task_unclear", "understanding_proposed", "executed"}

Misunderstood == {"ask_to_clarify", "ask_to_rephrase", "suggest_verbs"}

\* The fallback ladder: each misunderstanding the count stands for is in the
\* unknown utterance log, the last of them last, each at its level.
FallbackLadder ==
    \A e \in Episode :
        LET log == unknown_utterances[e]
            start == Len(log) - fallback_count[e]
        IN  /\ start >= 0
            /\ \A k \in 1 .. fallback_count[e] : log[start + k].fallback_count = k

\* The run of misunderstood turns a step leaves behind: a misunderstood turn makes
\* it longer, an understood one ends it, and nothing else touches it.
RunLength(e) ==
    IF turn'.episode = e /\ turn'.response \in Misunderstood THEN fallback_count[e] + 1
    ELSE IF turn'.episode = e /\ turn'.response \in Understood THEN 0
    ELSE fallback_count[e]

\* The count is the length of the current run of misunderstood turns: every branch
\* that answers an understood message resets it (04_DEVELOPER_HANDOFF.md:235), the
\* execution of a task among them, and no command, error or other episode does.
FallbackRun == [][\A e \in Episode : fallback_count'[e] = RunLength(e)]_vars

\* Versions are only ever added, one past the last, and each keeps the rules of
\* the one before it and adds one.
AppendsVersion ==
    /\ Len(versions') <= Len(versions) + 1
    /\ \A n \in DOMAIN versions : n \in DOMAIN versions' /\ versions'[n] = versions[n]
    /\ (versions # << >> /\ versions' # versions) =>
           \E rule \in AgentRule :
               CurrentProgram(versions').rules = Append(Program.rules, rule)

VersionsAppendOnly == [][AppendsVersion]_vars

\* The dialogue implements its promise (module Review): each repository state
\* says what its conversation has under review.
RuleOrGoal(e, reviewState) ==
    IF reviewState = "pending_rule_review"
    THEN [kind |-> "rule", content |-> rule_candidates[e]]
    ELSE [kind |-> "goal", content |-> understandings[e]]

ReviewOf(e) ==
    IF state[e] \in ReviewStates
    THEN [object |-> RuleOrGoal(e, state[e]), paused |-> FALSE]
    ELSE IF state[e] = "pending_switch_confirmation"
    THEN [object |-> RuleOrGoal(e, deferred[e]), paused |-> TRUE]
    ELSE None

CandidateOf(rule) ==
    [text |-> rule.text, key |-> rule.key,
     application_mode |-> rule.application_mode,
     source_episode_id |-> rule.source_episode_id]

AdoptedRules ==
    IF versions = << >> THEN << >>
    ELSE [i \in DOMAIN Program.rules |-> CandidateOf(Program.rules[i])]

RanGoal ==
    IF turn.response \in {"executed", "understanding_confirmed"}
    THEN turn.runtime.goal ELSE None

\* The answer of the user a request acted on.
ActedOn ==
    IF turn.response \in
           {"understanding_confirmed", "rule_confirmed", "switch_confirmed"}
    THEN "yes"
    ELSE IF turn.response \in
           {"understanding_rejected", "rule_rejected", "switch_rejected"}
    THEN "no"
    ELSE IF turn.response = "cancelled" THEN "stop" ELSE "nothing"

EnforcedCandidate ==
    {candidate \in RuleCandidate :
        candidate.application_mode = "enforced_by_rule_engine"}

Promise == INSTANCE Review WITH
    Rule <- RuleCandidate, Goal <- Text, ReviewRule <- EnforcedCandidate,
    NoObject <- None,
    review <- [e \in Episode |-> ReviewOf(e)], adopted <- AdoptedRules,
    answer <- ActedOn, ran <- RanGoal

\* Every turn is a step of the promise: what a confirmation accepts is what was
\* last presented, an interruption the user declines loses nothing, a review ends
\* only with the user's answer to it, a rule enters the program only by being
\* accepted, and nothing runs unreviewed once a rule asks for it.
ImplementsReview == Promise!Spec

\* The pending safety requirement of 07_PATCH_SUMMARY_v1_1_1.md: a pending rule
\* is replaced or removed only by an answer of the user to it.
DiscardsSilently(e) ==
    /\ state[e] \in PendingConfirmationStates
    /\ rule_candidates[e] # None
    /\ rule_candidates'[e] # rule_candidates[e]
    /\ turn'.response \notin {"rule_confirmed", "rule_rejected", "cancelled",
                              "switch_confirmed"}

NoSilentDiscard == [][\A e \in Episode : ~DiscardsSilently(e)]_vars

=============================================================================
