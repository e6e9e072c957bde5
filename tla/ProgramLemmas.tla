--------------------------- MODULE ProgramLemmas ----------------------------
(***************************************************************************)
(* Lemmas about the operators of AgentProgram and TaskRuntime, used by the *)
(* proofs about the modules that extend them.                              *)
(***************************************************************************)
EXTENDS TaskRuntime, TLAPS

(***************************************************************************)
(* The program and its versions.                                           *)
(***************************************************************************)

\* A candidate made of an item is enforced exactly when its key is known.
HonestCandidate(candidate) ==
    candidate.application_mode = DeriveRuleApplicationMode(candidate.key)

\* create_rule_candidate returns a candidate whose mode is the one its key derives.
LEMMA CandidateType ==
    ASSUME NEW e \in Episode, NEW item \in MessageItem
    PROVE  /\ CreateRuleCandidate(e, item) \in RuleCandidate
           /\ HonestCandidate(CreateRuleCandidate(e, item))
BY DEF CreateRuleCandidate, RuleCandidate, MessageItem, HonestCandidate,
       DeriveRuleApplicationMode, ApplicationMode

\* confirm_rule_candidate makes a rule of a candidate.
LEMMA RuleType ==
    ASSUME NEW candidate \in RuleCandidate
    PROVE  RuleOf(candidate) \in AgentRule
BY DEF RuleOf, RuleCandidate, AgentRule, RuleStatus

\* A confirmed candidate turns a program into a program with one more rule.
LEMMA ConfirmedProgramType ==
    ASSUME NEW program \in AgentProgram, NEW candidate \in RuleCandidate
    PROVE  /\ ConfirmRuleCandidate(program, candidate) \in AgentProgram
           /\ ConfirmRuleCandidate(program, candidate).rules
                 = Append(program.rules, RuleOf(candidate))
           /\ ConfirmRuleCandidate(program, candidate).show_understanding_before_execution
                 = (program.show_understanding_before_execution
                      \/ candidate.application_mode = "enforced_by_rule_engine")
<1>1. program.rules \in Seq(AgentRule)
  BY DEF AgentProgram
<1>2. Append(program.rules, RuleOf(candidate)) \in Seq(AgentRule)
  BY <1>1, RuleType
<1> QED
  BY <1>1, <1>2 DEF ConfirmRuleCandidate, AgentProgram

\* Saving the number after the last one appends.
LEMMA SaveNext ==
    ASSUME NEW saved \in Seq(AgentProgram), NEW program \in AgentProgram
    PROVE  SaveVersion(saved, NextVersionNumber(saved), program) = Append(saved, program)
BY DEF SaveVersion, NextVersionNumber

\* The default program is a program.
LEMMA DefaultProgramType == DefaultProgram \in AgentProgram
BY DEF DefaultProgram, AgentProgram

\* create_initial_version saves version 1 the first time and nothing after that.
LEMMA InitialVersion ==
    ASSUME NEW saved \in Seq(AgentProgram)
    PROVE  /\ saved # << >> => CreateInitialVersion(saved) = saved
           /\ saved = << >> => CreateInitialVersion(saved) = <<DefaultProgram>>
<1>1. CASE saved = << >>
  BY <1>1 DEF CreateInitialVersion, SaveVersion
<1>2. CASE saved # << >>
  BY <1>2 DEF CreateInitialVersion
<1> QED
  BY <1>1, <1>2

\* After it there is a first version, and versions stay versions.
LEMMA InitialVersionType ==
    ASSUME NEW saved \in Seq(AgentProgram)
    PROVE  /\ CreateInitialVersion(saved) \in Seq(AgentProgram)
           /\ CreateInitialVersion(saved) # << >>
<1>1. CASE saved = << >>
  <2>1. CreateInitialVersion(saved) = <<DefaultProgram>>
    BY <1>1, InitialVersion
  <2>2. <<DefaultProgram>> \in Seq(AgentProgram) /\ <<DefaultProgram>> # << >>
    BY DefaultProgramType
  <2> QED
    BY <2>1, <2>2
<1>2. CASE saved # << >>
  BY <1>2, InitialVersion
<1> QED
  BY <1>1, <1>2

\* The last of some versions is one of them.
LEMMA CurrentProgramType ==
    ASSUME NEW saved \in Seq(AgentProgram), saved # << >>
    PROVE  CurrentProgram(saved) \in AgentProgram
BY DEF CurrentProgram

(***************************************************************************)
(* Every program tells the truth about its rules.                          *)
(***************************************************************************)

\* The default program has no rules and its policy is off.
LEMMA DefaultProgramHonest == HonestProgram(DefaultProgram)
BY DEF HonestProgram, DefaultProgram, EnforcedRules, FutureRules

\* Confirming an honest candidate keeps a program honest: the new rule is listed
\* on the side its mode says, and the policy follows it.
LEMMA ConfirmKeepsHonest ==
    ASSUME NEW program \in AgentProgram, HonestProgram(program),
           NEW candidate \in RuleCandidate, HonestCandidate(candidate)
    PROVE  HonestProgram(ConfirmRuleCandidate(program, candidate))
<1> DEFINE next == ConfirmRuleCandidate(program, candidate)
           rule == RuleOf(candidate)
           n == Len(program.rules) + 1
           enforced == candidate.application_mode = "enforced_by_rule_engine"
<1>1. /\ next.rules = Append(program.rules, rule)
      /\ next.show_understanding_before_execution
            = (program.show_understanding_before_execution \/ enforced)
  BY ConfirmedProgramType
<1>2. program.rules \in Seq(AgentRule) /\ rule \in AgentRule
  BY RuleType DEF AgentProgram
<1>3. /\ DOMAIN next.rules = DOMAIN program.rules \cup {n}
      /\ \A i \in DOMAIN program.rules : next.rules[i] = program.rules[i] /\ i # n
      /\ next.rules[n] = rule
  <2> HIDE DEF rule
  <2> QED
    BY <1>1, <1>2
<1>4. /\ rule.application_mode = candidate.application_mode
      /\ rule.key = candidate.key
      /\ rule.status = IF enforced THEN "active" ELSE "future"
  BY DEF RuleOf
<1>5. /\ candidate.application_mode \in ApplicationMode
      /\ enforced => candidate.key \in KnownRuleKeys
  BY DEF RuleCandidate, HonestCandidate, DeriveRuleApplicationMode
<1> HIDE DEF next, rule, n
<1>6. ASSUME enforced PROVE HonestProgram(next)
  <2>1. /\ EnforcedRules(next) = EnforcedRules(program) \cup {n}
        /\ FutureRules(next) = FutureRules(program)
    BY <1>3, <1>4, <1>6 DEF EnforcedRules, FutureRules
  <2>2. \A i \in EnforcedRules(program) : i \in DOMAIN program.rules
    BY DEF EnforcedRules
  <2> QED
    BY <1>1, <1>3, <1>4, <1>5, <1>6, <2>1, <2>2 DEF HonestProgram
<1>7. ASSUME ~enforced PROVE HonestProgram(next)
  <2>1. /\ EnforcedRules(next) = EnforcedRules(program)
        /\ FutureRules(next) = FutureRules(program) \cup {n}
    BY <1>3, <1>4, <1>5, <1>7 DEF EnforcedRules, FutureRules, ApplicationMode
  <2>2. \A i \in EnforcedRules(program) : i \in DOMAIN program.rules
    BY DEF EnforcedRules
  <2> QED
    BY <1>1, <1>3, <1>7, <2>1, <2>2 DEF HonestProgram
<1> QED
  BY <1>6, <1>7 DEF next

(***************************************************************************)
(* What runs.                                                              *)
(***************************************************************************)

\* A result tells the goal it was given and the plan it followed.
LEMMA ExecutionFacts ==
    ASSUME NEW goal, NEW program, NEW include,
           NEW result \in Executions(goal, program, include)
    PROVE  /\ result.goal = goal
           /\ result.runtime_plan = BuildRuntimePlan(program, include)
BY DEF Executions, RuntimeResult

\* A plan waits for the user only if the step that shows the understanding is both
\* asked for by the program and wanted by the caller.
LEMMA PlanNeverWaits ==
    ASSUME NEW program, NEW include,
           ~(program.show_understanding_before_execution /\ include),
           NEW i \in DOMAIN BuildRuntimePlan(program, include)
    PROVE  ~BuildRuntimePlan(program, include)[i].requires_confirmation
<1> DEFINE Silent == {Step("execute_task_stub", FALSE),
                       Step("verify_success_condition", FALSE)}
<1>1. \A step \in Silent : ~step.requires_confirmation
  BY DEF Step
<1>2. BuildRuntimePlan(program, include) \in Seq(Silent)
  <2> DEFINE run == Step("execute_task_stub", FALSE)
             verify == Step("verify_success_condition", FALSE)
  <2>1. BuildRuntimePlan(program, include) =
           << >> \o <<run>>
             \o (IF program.must_check_success_condition THEN <<verify>> ELSE << >>)
    BY DEF BuildRuntimePlan
  <2>2. run \in Silent /\ verify \in Silent
    OBVIOUS
  <2> HIDE DEF run, verify, Silent
  <2>3. << >> \o <<run>> \in Seq(Silent)
    BY <2>2
  <2>4. << >> \in Seq(Silent) /\ <<verify>> \in Seq(Silent)
    BY <2>2
  <2> QED
    BY <2>1, <2>3, <2>4
<1> HIDE DEF Silent
<1> QED
  BY <1>1, <1>2

\* Hence a result for which that step was left out followed such a plan.
LEMMA SilentExecution ==
    ASSUME NEW goal, NEW program, NEW include,
           ~(program.show_understanding_before_execution /\ include),
           NEW result \in Executions(goal, program, include)
    PROVE  /\ result.goal = goal
           /\ \A i \in DOMAIN result.runtime_plan :
                 ~result.runtime_plan[i].requires_confirmation
BY ExecutionFacts, PlanNeverWaits

=============================================================================
