---------------------------- MODULE AgentProgram ----------------------------
(***************************************************************************)
(* The agent program and its versions: domain/agent_program.py,            *)
(* services/agent_program_service.py and the version repository.           *)
(*                                                                         *)
(* A program is its rules and the policies the code reads.  The memory and *)
(* tool policies are carried unchanged from the default program and never  *)
(* read, so they are left out.  Versions are kept by number in a mapping   *)
(* that starts at 1 and is only ever extended by one past a stored number, *)
(* so the mapping is a sequence.                                           *)
(***************************************************************************)
EXTENDS Intake

CONSTANT Episode    \* the identifiers of the episodes

RuleStatus == {"active", "future"}

RuleCandidate ==
    [text : Text, key : RuleKey, application_mode : ApplicationMode,
     source_episode_id : Episode]

AgentRule ==
    [text : Text, key : RuleKey, application_mode : ApplicationMode,
     source_episode_id : Episode, status : RuleStatus]

AgentProgram ==
    [rules : Seq(AgentRule),
     show_understanding_before_execution : BOOLEAN,
     must_check_success_condition : BOOLEAN]

DefaultProgram ==
    [rules |-> << >>,
     show_understanding_before_execution |-> FALSE,
     must_check_success_condition |-> TRUE]

-----------------------------------------------------------------------------
(* From a candidate to a rule of the next program. *)

CreateRuleCandidate(episode, item) ==
    [text |-> item.text, key |-> item.key,
     application_mode |-> DeriveRuleApplicationMode(item.key),
     source_episode_id |-> episode]

RuleOf(candidate) ==
    [text |-> candidate.text, key |-> candidate.key,
     application_mode |-> candidate.application_mode,
     source_episode_id |-> candidate.source_episode_id,
     status |-> IF candidate.application_mode = "enforced_by_rule_engine"
                THEN "active" ELSE "future"]

\* Mutant: each confirmation sets the policy from its own candidate only.
ConfirmForgetsPolicy(program, candidate) ==
    [program EXCEPT
        !.rules = Append(@, RuleOf(candidate)),
        !.show_understanding_before_execution =
            candidate.application_mode = "enforced_by_rule_engine"]

ConfirmRuleCandidate(program, candidate) ==
    [program EXCEPT
        !.rules = Append(@, RuleOf(candidate)),
        !.show_understanding_before_execution =
            @ \/ candidate.application_mode = "enforced_by_rule_engine"]

-----------------------------------------------------------------------------
(* The version repository: saving under a stored number replaces it. *)

SaveVersion(versions, number, program) ==
    IF number \in DOMAIN versions
    THEN [versions EXCEPT ![number] = program]
    ELSE Append(versions, program)

\* create_initial_version: every request does it, only the first one saves.
CreateInitialVersion(versions) ==
    IF versions = << >> THEN SaveVersion(versions, 1, DefaultProgram) ELSE versions

\* Mutant: the new version takes the number of the version it is made from.
SameVersionNumber(versions) == Len(versions)

\* create_next_version: one past the version it is made from, the last one.
NextVersionNumber(versions) == Len(versions) + 1

\* list_versions()[-1]
CurrentProgram(versions) == versions[Len(versions)]

-----------------------------------------------------------------------------
(* What a query of the program lists: the positions of its rules. *)

EnforcedRules(program) ==
    {i \in DOMAIN program.rules :
        /\ program.rules[i].application_mode = "enforced_by_rule_engine"
        /\ program.rules[i].status = "active"}

FutureRules(program) ==
    {i \in DOMAIN program.rules :
        /\ program.rules[i].application_mode = "future_rule"
        /\ program.rules[i].status = "future"}

\* What a program says of itself is true: the query lists each of its rules
\* once, as enforced or as future, and its policy is on exactly when one of
\* them is enforced.
HonestProgram(program) ==
    /\ EnforcedRules(program) \cup FutureRules(program) = DOMAIN program.rules
    /\ program.show_understanding_before_execution
           <=> EnforcedRules(program) # {}
    /\ \A i \in EnforcedRules(program) : program.rules[i].key \in KnownRuleKeys

=============================================================================
