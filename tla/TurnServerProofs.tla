-------------------------- MODULE TurnServerProofs --------------------------
(***************************************************************************)
(* Theorems about TurnServer, for every set of workers, episodes, texts    *)
(* and intakes, every bound, and clients that wait or do not.              *)
(***************************************************************************)
EXTENDS TurnServer, ProgramLemmas

(***************************************************************************)
(* What a decision may plan to write.                                      *)
(***************************************************************************)

\* A plan that runs without asking.
Silent(runtime) ==
    runtime # None =>
        \A i \in DOMAIN runtime.runtime_plan :
            ~runtime.runtime_plan[i].requires_confirmation

\* A version is made of the program the turn read and a stored candidate; a
\* candidate is stored with the mode its key derives; the episode is saved by
\* create_turn, not by a branch.
Justified(w, write) ==
    /\ write.repository # "episodes"
    /\ write.repository = "versions" =>
           /\ jobs[w].request = "turn"
           /\ write.key = jobs[w].number + 1
           /\ \E e \in Episode :
                 /\ rule_candidates[e] # None
                 /\ write.value = ConfirmRuleCandidate(jobs[w].program, rule_candidates[e])
    /\ (write.repository = "rule_candidates" /\ write.value # None) =>
           HonestCandidate(write.value)

\* The version a turn answers with is the one it read, or the one it is to save.
Numbered(w, writes, number) ==
    /\ number >= jobs[w].number
    /\ \/ number = jobs[w].number
       \/ \E i \in DOMAIN writes :
             writes[i].repository = "versions" /\ writes[i].key = number

\* The branch plans such writes.
Plans(w, writes, after, number, response, runtime) ==
    /\ Numbered(w, writes, number)
    /\ writes \in Seq(PendingWrite)
    /\ after \in StoredEpisode
    /\ number \in Nat
    /\ response \in Response
    /\ runtime \in Runtime \cup {None}
    /\ \A i \in DOMAIN writes : Justified(w, writes[i])
    /\ Silent(runtime)
    /\ Owes(w, writes, after, number, response, runtime)

\* What each kind of pending write carries.
LEMMA WriteTypes ==
    /\ \A e \in Episode :
          /\ \A value \in StoredEpisode : Put("episodes", e, value) \in PendingWrite
          /\ \A value \in RuleCandidate : Put("rule_candidates", e, value) \in PendingWrite
          /\ \A value \in Text : Put("understandings", e, value) \in PendingWrite
          /\ \A value \in ReviewStates : Put("deferred", e, value) \in PendingWrite
          /\ \A value \in Utterance : Put("unknown_utterances", e, value) \in PendingWrite
          /\ Delete("rule_candidates", e) \in PendingWrite
          /\ Delete("understandings", e) \in PendingWrite
          /\ Delete("deferred", e) \in PendingWrite
    /\ \A n \in Nat \ {0} : \A value \in AgentProgram :
          Put("versions", n, value) \in PendingWrite
BY DEF Put, Delete, PendingWrite

\* What a write is, by the repository it goes to.
LEMMA WriteParts ==
    ASSUME NEW write \in PendingWrite
    PROVE  /\ write.repository = "episodes" =>
                  write.key \in Episode /\ write.value \in StoredEpisode
           /\ write.repository = "rule_candidates" =>
                  write.key \in Episode /\ write.value \in RuleCandidate \cup {None}
           /\ write.repository = "understandings" =>
                  write.key \in Episode /\ write.value \in Text \cup {None}
           /\ write.repository = "deferred" =>
                  write.key \in Episode /\ write.value \in ReviewStates \cup {None}
           /\ write.repository = "unknown_utterances" =>
                  write.key \in Episode /\ write.value \in Utterance
           /\ write.repository = "versions" =>
                  write.key \in Nat \ {0} /\ write.value \in AgentProgram
BY DEF PendingWrite

\* Deletions and most saves need no justification.
LEMMA PlainWrites ==
    ASSUME NEW w, NEW repository, NEW key, NEW value,
           repository \notin {"episodes", "versions", "rule_candidates"}
               \/ (repository = "rule_candidates" /\ value = None)
    PROVE  Justified(w, Put(repository, key, value))
BY DEF Justified, Put

\* A turn that decides has its episode, its state and its program.
LEMMA TurnReady ==
    ASSUME TypeOK, NEW w \in Worker, NEW command, Commanded(w, command)
    PROVE  /\ jobs[w].episode \in Episode
           /\ jobs[w].snapshot \in StoredEpisode
           /\ jobs[w].program \in AgentProgram
           /\ jobs[w].number \in Nat
           /\ jobs[w].request = "turn" /\ jobs[w].pc = "decide"
BY DEF TypeOK, Job, JobReady, Commanded, Deciding

\* A turn that saves no version answers with the one it read.
LEMMA ReadNumber ==
    ASSUME NEW w, jobs[w].number \in Nat
    PROVE  \A writes : Numbered(w, writes, jobs[w].number)
BY DEF Numbered

\* The states a branch moves an episode to.
LEMMA MovedState ==
    ASSUME NEW w, jobs[w].snapshot \in StoredEpisode
    PROVE  /\ \A state \in EpisodeState : Becomes(w, state) \in StoredEpisode
           /\ \A state \in EpisodeState : Understood(w, state) \in StoredEpisode
           /\ Unmoved(w) \in StoredEpisode
BY DEF StoredEpisode, Becomes, Understood, Unmoved, Snapshot

\* A result of the runtime is one, and its plan is silent if it was asked so.
LEMMA RuntimeFacts ==
    ASSUME NEW goal \in Text, NEW program \in AgentProgram, NEW include \in BOOLEAN,
           ~(program.show_understanding_before_execution /\ include),
           NEW result \in Executions(goal, program, include)
    PROVE  result \in Runtime /\ Silent(result)
<1>1. BuildRuntimePlan(program, include) \in Seq(RuntimeStep)
  <2> DEFINE show == Step("show_understanding", TRUE)
             run == Step("execute_task_stub", FALSE)
             verify == Step("verify_success_condition", FALSE)
  <2>1. show \in RuntimeStep /\ run \in RuntimeStep /\ verify \in RuntimeStep
    BY DEF Step, RuntimeStep, StepType
  <2>2. BuildRuntimePlan(program, include) =
           (IF program.show_understanding_before_execution /\ include
            THEN <<show>> ELSE << >>) \o <<run>>
             \o (IF program.must_check_success_condition THEN <<verify>> ELSE << >>)
    BY DEF BuildRuntimePlan
  <2> HIDE DEF show, run, verify
  <2>3. /\ << >> \in Seq(RuntimeStep) /\ <<show>> \in Seq(RuntimeStep)
        /\ <<run>> \in Seq(RuntimeStep) /\ <<verify>> \in Seq(RuntimeStep)
    BY <2>1
  <2> QED
    BY <2>2, <2>3
<1>2. Silent(result)
  BY SilentExecution DEF Silent
<1> DEFINE plan == BuildRuntimePlan(program, include)
<1> HIDE DEF plan
<1>3. \E mode \in {"stub", "read_only_repo_review"}, status \in {"completed", "failed"} :
          result = RuntimeResult(goal, plan, mode, status)
  <2>1. CASE goal \in ReviewGoals
    <3>1. PICK ok \in ReviewVerdicts :
              result = RuntimeResult(goal, plan, "read_only_repo_review",
                                     IF ok THEN "completed" ELSE "failed")
      BY <2>1, Zenon DEF Executions, plan
    <3> QED
      BY <3>1
  <2>2. CASE goal \notin ReviewGoals
    BY <2>2, Zenon DEF Executions, plan
  <2> QED
    BY <2>1, <2>2
<1>4. result \in Runtime
  <2>1. PICK mode \in {"stub", "read_only_repo_review"},
             status \in {"completed", "failed"} :
                 result = RuntimeResult(goal, plan, mode, status)
    BY <1>3
  <2>2. VerifyStatus(status) \in BOOLEAN
    BY DEF VerifyStatus
  <2>3. plan \in Seq(RuntimeStep)
    BY <1>1 DEF plan
  <2> QED
    BY <2>1, <2>2, <2>3 DEF RuntimeResult, Runtime
<1> QED
  BY <1>2, <1>4

(***************************************************************************)
(* Every decision is of that kind.                                         *)
(***************************************************************************)

\* Command turns.
LEMMA CommandPlans ==
    ASSUME TypeOK, NEW w \in Worker, CommandTurn(w)
    PROVE  \/ Raise(w) /\ jobs[w].request = "turn" /\ jobs[w].episode \in Episode
           \/ \E writes, after, number, response, runtime :
                  Plans(w, writes, after, number, response, runtime)
<1> DEFINE e == jobs[w].episode
           Goal == \E writes, after, number, response, runtime :
                       Plans(w, writes, after, number, response, runtime)
<1>0. /\ e \in Episode /\ jobs[w].snapshot \in StoredEpisode
      /\ jobs[w].program \in AgentProgram /\ jobs[w].number \in Nat
      /\ jobs[w].request = "turn"
      /\ \A writes : Numbered(w, writes, jobs[w].number)
  BY TurnReady, ReadNumber DEF CommandTurn, Cancel, MissingUnderstanding, ConfirmUnderstanding,
     RejectUnderstanding, MissingRule, ConfirmRule, RejectRule, ConfirmSwitch,
     RejectSwitch
<1>d. /\ Delete("rule_candidates", e) \in PendingWrite
      /\ Delete("understandings", e) \in PendingWrite
      /\ Delete("deferred", e) \in PendingWrite
      /\ Justified(w, Delete("rule_candidates", e))
      /\ Justified(w, Delete("understandings", e))
      /\ Justified(w, Delete("deferred", e))
  BY <1>0, WriteTypes, PlainWrites DEF Delete
<1>s. \A state \in EpisodeState : Becomes(w, state) \in StoredEpisode
  BY <1>0, MovedState
<1>n. Silent(None)
  BY DEF Silent
<1> DEFINE all == <<Delete("rule_candidates", e), Delete("understandings", e),
                    Delete("deferred", e)>>
<1>a. all \in Seq(PendingWrite) /\ \A i \in DOMAIN all : Justified(w, all[i])
  BY <1>d
<1>b. \A repository \in {"rule_candidates", "understandings", "deferred"} :
          /\ <<Delete(repository, e)>> \in Seq(PendingWrite)
          /\ \A i \in DOMAIN <<Delete(repository, e)>> :
                Justified(w, <<Delete(repository, e)>>[i])
  BY <1>d
<1>c. << >> \in Seq(PendingWrite) /\ \A i \in DOMAIN << >> : Justified(w, << >>[i])
  OBVIOUS
<1> HIDE DEF all
<1>1. CASE Cancel(w)
  <2>1. Plans(w, all, Becomes(w, "cancelled"), jobs[w].number, "cancelled", None)
    BY <1>0, <1>1, <1>a, <1>s, <1>n DEF Cancel, Plan, Plans, all, EpisodeState, Response
  <2> QED
    BY <2>1
<1>2. CASE MissingUnderstanding(w)
  <2>1. Plans(w, << >>, Becomes(w, "open"), jobs[w].number, "missing_understanding", None)
    BY <1>0, <1>2, <1>c, <1>s, <1>n DEF MissingUnderstanding, Plan, Plans, EpisodeState,
       Response
  <2> QED
    BY <2>1
<1>3. CASE ConfirmUnderstanding(w)
  <2>1. CASE Raise(w)
    BY <1>0, <2>1
  <2>2. CASE ~Raise(w)
    <3>1. understandings[e] \in Text
      BY <1>0, <1>3 DEF TypeOK, ConfirmUnderstanding
    <3>2. PICK result \in Executions(understandings[e], jobs[w].program, FALSE) :
              Plan(w, <<Delete("understandings", e)>>, Becomes(w, "open"),
                   "understanding_confirmed", result)
      BY <1>3, <2>2, Zenon DEF ConfirmUnderstanding
    <3>3. result \in Runtime /\ Silent(result)
      BY <1>0, <3>1, RuntimeFacts
    <3>4. Plans(w, <<Delete("understandings", e)>>, Becomes(w, "open"), jobs[w].number,
                "understanding_confirmed", result)
      BY <1>0, <1>b, <1>s, <3>2, <3>3 DEF Plan, Plans, EpisodeState, Response
    <3> QED
      BY <3>4
  <2> QED
    BY <2>1, <2>2
<1>4. CASE RejectUnderstanding(w)
  <2>1. Plans(w, <<Delete("understandings", e)>>, Becomes(w, "open"), jobs[w].number,
              "understanding_rejected", None)
    BY <1>0, <1>4, <1>b, <1>s, <1>n DEF RejectUnderstanding, Plan, Plans, EpisodeState,
       Response
  <2> QED
    BY <2>1
<1>5. CASE MissingRule(w)
  <2>1. Plans(w, << >>, Becomes(w, "open"), jobs[w].number, "missing_rule", None)
    BY <1>0, <1>5, <1>c, <1>s, <1>n DEF MissingRule, Plan, Plans, EpisodeState, Response
  <2> QED
    BY <2>1
<1>6. CASE ConfirmRule(w)
  <2> DEFINE program == ConfirmRuleCandidate(jobs[w].program, rule_candidates[e])
             save == Put("versions", jobs[w].number + 1, program)
  <2>1. rule_candidates[e] \in RuleCandidate /\ rule_candidates[e] # None
    BY <1>0, <1>6 DEF TypeOK, ConfirmRule
  <2>2. program \in AgentProgram
    BY <1>0, <2>1, ConfirmedProgramType
  <2>3. save \in PendingWrite
    BY <1>0, <2>2, WriteTypes
  <2>4. Justified(w, save)
    BY <1>0, <2>1 DEF Justified, Put
  <2>5. Owes(w, <<save, Delete("rule_candidates", e)>>, Becomes(w, "open"),
             jobs[w].number + 1, "rule_confirmed", None)
    BY <1>6 DEF ConfirmRule
  <2>7. Numbered(w, <<save, Delete("rule_candidates", e)>>, jobs[w].number + 1)
    BY <1>0 DEF Numbered, Put
  <2> HIDE DEF save, program
  <2>6. Plans(w, <<save, Delete("rule_candidates", e)>>, Becomes(w, "open"),
              jobs[w].number + 1, "rule_confirmed", None)
    BY <1>0, <1>d, <1>s, <1>n, <2>3, <2>4, <2>5, <2>7
       DEF Plans, EpisodeState, Response
  <2> QED
    BY <2>6
<1>7. CASE RejectRule(w)
  <2>1. Plans(w, <<Delete("rule_candidates", e)>>, Becomes(w, "open"), jobs[w].number,
              "rule_rejected", None)
    BY <1>0, <1>7, <1>b, <1>s, <1>n DEF RejectRule, Plan, Plans, EpisodeState, Response
  <2> QED
    BY <2>1
<1>8. CASE ConfirmSwitch(w)
  <2>1. Plans(w, all, Becomes(w, "cancelled"), jobs[w].number, "switch_confirmed", None)
    BY <1>0, <1>8, <1>a, <1>s, <1>n DEF ConfirmSwitch, Plan, Plans, all, EpisodeState,
       Response
  <2> QED
    BY <2>1
<1>9. CASE RejectSwitch(w)
  <2> DEFINE state == IF deferred[e] = None THEN "pending_rule_review" ELSE deferred[e]
  <2>1. state \in EpisodeState
    BY <1>0 DEF TypeOK, ReviewStates, EpisodeState
  <2>2. Plan(w, <<Delete("deferred", e)>>, Becomes(w, state), "switch_rejected", None)
    BY <1>9 DEF RejectSwitch
  <2> HIDE DEF state
  <2>3. Plans(w, <<Delete("deferred", e)>>, Becomes(w, state), jobs[w].number,
              "switch_rejected", None)
    BY <1>0, <1>b, <1>s, <1>n, <2>1, <2>2 DEF Plan, Plans, Response
  <2> QED
    BY <2>3
<1> QED
  BY <1>1, <1>2, <1>3, <1>4, <1>5, <1>6, <1>7, <1>8, <1>9 DEF CommandTurn

\* Semantic turns.
LEMMA SemanticPlans ==
    ASSUME TypeOK, NEW w \in Worker, NEW intake \in Intakes, SemanticTurn(w, intake)
    PROVE  \/ Raise(w) /\ jobs[w].request = "turn" /\ jobs[w].episode \in Episode
           \/ \E writes, after, number, response, runtime :
                  Plans(w, writes, after, number, response, runtime)
<1> DEFINE e == jobs[w].episode
<1>0. /\ e \in Episode /\ jobs[w].snapshot \in StoredEpisode
      /\ jobs[w].program \in AgentProgram /\ jobs[w].number \in Nat
      /\ jobs[w].request = "turn"
      /\ \A writes : Numbered(w, writes, jobs[w].number)
  BY TurnReady, ReadNumber DEF SemanticTurn, Fallback, RequestSwitch, ProposeRule, Answer,
     ClarifyTask, ProposeUnderstanding, ExecuteTask, TaskGoal, Routed
<1>1. CASE Fallback(w, intake)
  <2> DEFINE count == jobs[w].snapshot.fallback_count + 1
             log == Put("unknown_utterances", e,
                        [reason |-> Reason(intake), fallback_count |-> count])
             after == Snapshot(jobs[w].snapshot.state, count)
  <2>1. count \in Nat /\ after \in StoredEpisode
    BY <1>0 DEF StoredEpisode, Snapshot
  <2>2. [reason |-> Reason(intake), fallback_count |-> count] \in Utterance
    BY <2>1 DEF Utterance, Reason
  <2>3. log \in PendingWrite
    BY <1>0, <2>2, WriteTypes
  <2>4. Justified(w, log)
    BY PlainWrites
  <2>5. FallbackResponse(count) \in Response
    BY DEF FallbackResponse, Response
  <2>6. Plan(w, <<log>>, after, FallbackResponse(count), None)
    BY <1>1 DEF Fallback
  <2> HIDE DEF log, count, after
  <2>7. Plans(w, <<log>>, after, jobs[w].number, FallbackResponse(count), None)
    BY <1>0, <2>1, <2>3, <2>4, <2>5, <2>6 DEF Plan, Plans, Silent
  <2> QED
    BY <2>7
<1>2. CASE RequestSwitch(w, intake)
  <2> DEFINE save == Put("deferred", e, jobs[w].snapshot.state)
             after == Understood(w, "pending_switch_confirmation")
  <2>1. jobs[w].snapshot.state \in ReviewStates
    BY <1>2 DEF RequestSwitch, Routed, SemanticRoute, ShouldRequestSwitch
  <2>2. save \in PendingWrite /\ Justified(w, save)
    BY <1>0, <2>1, WriteTypes, PlainWrites
  <2>3. after \in StoredEpisode
    BY <1>0, MovedState DEF EpisodeState
  <2>4. Plan(w, <<save>>, after, "switch_requested", None)
    BY <1>2 DEF RequestSwitch
  <2> HIDE DEF save, after
  <2>5. Plans(w, <<save>>, after, jobs[w].number, "switch_requested", None)
    BY <1>0, <2>2, <2>3, <2>4 DEF Plan, Plans, Silent, Response
  <2> QED
    BY <2>5
<1>3. CASE ProposeRule(w, intake)
  <2> DEFINE after == Understood(w, "pending_rule_review")
  <2>1. PICK i \in DOMAIN intake.items :
            Plan(w, <<Put("rule_candidates", e, CreateRuleCandidate(e, intake.items[i]))>>,
                 after, "rule_proposed", None)
    BY <1>3 DEF ProposeRule, FirstOfType
  <2>2. intake.items[i] \in MessageItem
    BY IntakesAssumption DEF IntakeResult
  <2> DEFINE candidate == CreateRuleCandidate(e, intake.items[i])
             save == Put("rule_candidates", e, candidate)
  <2>3. candidate \in RuleCandidate /\ HonestCandidate(candidate)
    BY <1>0, <2>2, CandidateType
  <2>4. save \in PendingWrite /\ Justified(w, save)
    BY <1>0, <2>3, WriteTypes DEF Justified, Put
  <2>5. after \in StoredEpisode
    BY <1>0, MovedState DEF EpisodeState
  <2> HIDE DEF save, after
  <2>6. Plans(w, <<save>>, after, jobs[w].number, "rule_proposed", None)
    BY <1>0, <2>1, <2>4, <2>5 DEF save, Plan, Plans, Silent, Response
  <2> QED
    BY <2>6
<1>4. CASE Answer(w, intake)
  <2>1. Plan(w, << >>, Unmoved(w), intake.primary_intent, None)
        /\ intake.primary_intent \in Response
    BY <1>4 DEF Answer, Response
  <2>2. Plans(w, << >>, Unmoved(w), jobs[w].number, intake.primary_intent, None)
    BY <1>0, <2>1, MovedState DEF Plan, Plans, Silent
  <2> QED
    BY <2>2
<1>5. ASSUME NEW goal \in Text, ClarifyTask(w, intake, goal)
      PROVE  Plans(w, << >>, Unmoved(w), jobs[w].number, "task_unclear", None)
  BY <1>0, <1>5, MovedState DEF ClarifyTask, Plan, Plans, Silent, Response
<1>6. ASSUME NEW goal \in Text, ProposeUnderstanding(w, intake, goal)
      PROVE  \E writes, after, number, response, runtime :
                 Plans(w, writes, after, number, response, runtime)
  <2> DEFINE save == Put("understandings", e, goal)
             after == Understood(w, "pending_understanding_review")
  <2>1. save \in PendingWrite /\ Justified(w, save)
    BY <1>0, WriteTypes, PlainWrites
  <2>2. after \in StoredEpisode
    BY <1>0, MovedState DEF EpisodeState
  <2>3. Plan(w, <<save>>, after, "understanding_proposed", None)
    BY <1>6 DEF ProposeUnderstanding
  <2> HIDE DEF save, after
  <2>4. Plans(w, <<save>>, after, jobs[w].number, "understanding_proposed", None)
    BY <1>0, <2>1, <2>2, <2>3 DEF Plan, Plans, Silent, Response
  <2> QED
    BY <2>4
<1>7. ASSUME NEW goal \in Text, ExecuteTask(w, intake, goal), ~Raise(w)
      PROVE  \E writes, after, number, response, runtime :
                 Plans(w, writes, after, number, response, runtime)
  <2>1. PICK result \in Executions(goal, jobs[w].program, TRUE) :
            Plan(w, << >>, Unmoved(w), "executed", result)
    BY <1>7, Zenon DEF ExecuteTask
  <2>2. ~jobs[w].program.show_understanding_before_execution
    BY <1>7 DEF ExecuteTask
  <2>3. result \in Runtime /\ Silent(result)
    BY <1>0, <2>2, RuntimeFacts
  <2>4. Plans(w, << >>, Unmoved(w), jobs[w].number, "executed", result)
    BY <1>0, <2>1, <2>3, MovedState DEF Plan, Plans, Response
  <2> QED
    BY <2>4
<1> QED
  BY <1>0, <1>1, <1>2, <1>3, <1>4, <1>5, <1>6, <1>7 DEF SemanticTurn

\* A decision answers at once and writes nothing, or plans what it will write.
LEMMA DecisionPlans ==
    ASSUME TypeOK, NEW w \in Worker, Decide(w)
    PROVE  /\ jobs[w].pc = "decide"
           /\ \/ \E response \in Response : Only(w, None, response)
              \/ /\ jobs[w].episode \in Episode
                 /\ \E writes, after, number, response, runtime :
                        Plans(w, writes, after, number, response, runtime)
<1>0. jobs[w].pc = "decide"
  BY DEF Decide, CreateEpisode, GetCurrentProgram, CommandTurn, Cancel,
     MissingUnderstanding, ConfirmUnderstanding, RejectUnderstanding, MissingRule,
     ConfirmRule, RejectRule, ConfirmSwitch, RejectSwitch, SemanticTurn, Fallback,
     RequestSwitch, ProposeRule, Answer, ClarifyTask, ProposeUnderstanding,
     ExecuteTask, TaskGoal, Routed, Commanded, Deciding
<1>e. jobs[w].request # "program" => jobs[w].episode \in Episode
  BY <1>0 DEF TypeOK, Job, JobReady
<1>r. (CommandTurn(w) \/ \E intake \in Intakes : SemanticTurn(w, intake)) =>
          jobs[w].request = "turn"
  BY DEF CommandTurn, Cancel,
     MissingUnderstanding, ConfirmUnderstanding, RejectUnderstanding, MissingRule,
     ConfirmRule, RejectRule, ConfirmSwitch, RejectSwitch, SemanticTurn, Fallback,
     RequestSwitch, ProposeRule, Answer, ClarifyTask, ProposeUnderstanding,
     ExecuteTask, TaskGoal, Routed, Commanded, Deciding
<1>1. CASE CreateEpisode(w)
  <2>1. jobs[w].snapshot \in StoredEpisode /\ jobs[w].number \in Nat
    BY <1>1 DEF TypeOK, Job, JobReady, CreateEpisode, Deciding
  <2>2. Plans(w, << >>, jobs[w].snapshot, jobs[w].number, "episode_created", None)
    BY <1>1, <2>1, ReadNumber DEF CreateEpisode, Plan, Plans, Silent, Response
  <2> QED
    BY <1>0, <1>1, <1>e, <2>2 DEF CreateEpisode, Deciding
<1>2. CASE GetCurrentProgram(w)
  BY <1>0, <1>2 DEF GetCurrentProgram, Deciding, Response
<1>3. CASE CommandTurn(w)
  BY <1>0, <1>3, <1>e, <1>r, CommandPlans DEF Raise, Response
<1>4. CASE \E intake \in Intakes : SemanticTurn(w, intake)
  BY <1>0, <1>4, <1>e, <1>r, SemanticPlans DEF Raise, Response
<1> QED
  BY <1>1, <1>2, <1>3, <1>4 DEF Decide

(***************************************************************************)
(* Type correctness.                                                       *)
(***************************************************************************)

\* Giving one worker a well-formed job keeps all of them well formed.
LEMMA JobType ==
    ASSUME TypeOK, NEW w \in Worker, NEW job \in Job, JobReady(job),
           jobs' = [jobs EXCEPT ![w] = job],
           job.pc = "fetch" => job.number \in DOMAIN versions',
           DOMAIN versions \subseteq DOMAIN versions'
    PROVE  /\ jobs' \in [Worker -> Job]
           /\ \A v \in Worker : JobReady(jobs'[v])
           /\ \A v \in Worker :
                 jobs'[v].pc = "fetch" => jobs'[v].number \in DOMAIN versions'
BY DEF TypeOK

\* A job that begins: it has a request, an episode or none, and nothing to write.
LEMMA ReceivedType ==
    ASSUME TypeOK, NEW w \in Worker, NEW request \in {"create_episode", "program", "turn"},
           NEW e \in Episode \cup {None}, NEW command \in Command,
           NEW snapshot \in StoredEpisode \cup {None},
           request # "program" => e \in Episode /\ snapshot \in StoredEpisode,
           Receive(w, request, e, command, snapshot)
    PROVE  TypeOK'
<1> DEFINE job == [Idle EXCEPT !.pc = "read", !.request = request, !.episode = e,
                               !.command = command, !.snapshot = snapshot]
<1>1. << >> \in Seq(PendingWrite)
  OBVIOUS
<1>2. job \in Job /\ JobReady(job) /\ job.pc = "read"
  BY <1>1 DEF Idle, Job, JobReady, Response
<1>3. jobs' = [jobs EXCEPT ![w] = job] /\ UNCHANGED stores
  BY DEF Receive
<1> HIDE DEF job
<1> QED
  BY <1>2, <1>3, JobType DEF TypeOK, stores

\* Listing the versions gives a job a number to fetch.
LEMMA ReadType ==
    ASSUME TypeOK, NEW w \in Worker, ReadVersions(w)
    PROVE  TypeOK'
<1> DEFINE waits == [jobs[w] EXCEPT !.pc = "initialise"]
           number == IF jobs[w].request = "create_episode" THEN 1 ELSE Len(versions)
           reads == [jobs[w] EXCEPT !.pc = "fetch", !.number = number]
           job == IF versions = << >> THEN waits ELSE reads
<1>1. jobs[w] \in Job /\ JobReady(jobs[w]) /\ jobs[w].pc = "read"
  BY DEF TypeOK, ReadVersions
<1>2. number \in Nat /\ (versions # << >> => number \in DOMAIN versions)
  BY DEF TypeOK
<1>3. jobs' = [jobs EXCEPT ![w] = job] /\ UNCHANGED stores
  BY DEF ReadVersions
<1> HIDE DEF number
<1>4. waits \in Job /\ JobReady(waits) /\ waits.pc = "initialise"
  BY <1>1 DEF Job, JobReady
<1>5. versions # << >> =>
          /\ reads \in Job /\ JobReady(reads)
          /\ reads.number \in DOMAIN versions
  BY <1>1, <1>2 DEF Job, JobReady
<1> HIDE DEF waits, reads
<1>6. job \in Job /\ JobReady(job) /\ (job.pc = "fetch" => job.number \in DOMAIN versions)
  BY <1>4, <1>5
<1> HIDE DEF job
<1> QED
  BY <1>3, <1>6, JobType DEF TypeOK, stores

\* Fetching gives it the program under that number.
LEMMA FetchType ==
    ASSUME TypeOK, NEW w \in Worker, FetchProgram(w)
    PROVE  TypeOK'
<1> DEFINE job == [jobs[w] EXCEPT !.pc = "decide", !.program = versions[jobs[w].number]]
<1>1. jobs[w] \in Job /\ JobReady(jobs[w]) /\ jobs[w].pc = "fetch"
  BY DEF TypeOK, FetchProgram
<1>2. versions[jobs[w].number] \in AgentProgram
  BY <1>1 DEF TypeOK
<1>3. job \in Job /\ JobReady(job) /\ job.pc = "decide"
  BY <1>1, <1>2 DEF Job, JobReady
<1>4. jobs' = [jobs EXCEPT ![w] = job] /\ UNCHANGED stores
  BY DEF FetchProgram
<1> HIDE DEF job
<1> QED
  BY <1>3, <1>4, JobType DEF TypeOK, stores

\* Saving under a number keeps the store a sequence of programs, no shorter.
LEMMA SavedVersions ==
    ASSUME NEW saved \in Seq(AgentProgram), NEW number \in Nat \ {0},
           NEW program \in AgentProgram
    PROVE  /\ SaveVersion(saved, number, program) \in Seq(AgentProgram)
           /\ DOMAIN saved \subseteq DOMAIN SaveVersion(saved, number, program)
<1>1. CASE number \in DOMAIN saved
  BY <1>1 DEF SaveVersion
<1>2. CASE number \notin DOMAIN saved
  BY <1>2 DEF SaveVersion
<1> QED
  BY <1>1, <1>2

\* Saving the first version keeps the types.
LEMMA InitialiseType ==
    ASSUME TypeOK, NEW w \in Worker, Initialise(w)
    PROVE  TypeOK'
<1> DEFINE job == [jobs[w] EXCEPT !.pc = "read"]
<1>1. jobs[w] \in Job /\ JobReady(jobs[w]) /\ jobs[w].pc = "initialise"
  BY DEF TypeOK, Initialise
<1>2. versions' \in Seq(AgentProgram) /\ DOMAIN versions \subseteq DOMAIN versions'
  <2>1. versions \in Seq(AgentProgram) /\ 1 \in Nat \ {0}
    BY DEF TypeOK
  <2>2. versions' = SaveVersion(versions, 1, DefaultProgram)
    BY DEF Initialise
  <2> QED
    BY <2>1, <2>2, DefaultProgramType, SavedVersions
<1>3. job \in Job /\ JobReady(job) /\ job.pc = "read"
  BY <1>1 DEF Job, JobReady
<1>4. jobs' = [jobs EXCEPT ![w] = job]
  BY DEF Initialise
<1> HIDE DEF job
<1> QED
  BY <1>2, <1>3, <1>4, JobType DEF TypeOK, Initialise

\* A plan ends with a write of its own, so there is always one.
LEMMA AppendType ==
    ASSUME NEW S, NEW s \in Seq(S), NEW last \in S
    PROVE  Append(s, last) \in Seq(S) /\ Append(s, last) # << >>
<1>1. Append(s, last) \in Seq(S) /\ Len(Append(s, last)) = Len(s) + 1 /\ Len(s) \in Nat
  OBVIOUS
<1>2. Len(Append(s, last)) # 0
  BY <1>1
<1>3. Len(<< >>) = 0
  OBVIOUS
<1> QED
  BY <1>1, <1>2, <1>3

\* A decision leaves the stores alone and its job ready to write or to answer.
LEMMA DecideType ==
    ASSUME TypeOK, NEW w \in Worker, Decide(w)
    PROVE  TypeOK'
<1>1. jobs[w] \in Job /\ JobReady(jobs[w]) /\ jobs[w].pc = "decide"
  BY DecisionPlans DEF TypeOK
<1>2. ASSUME NEW response \in Response, Only(w, None, response) PROVE TypeOK'
  <2> DEFINE job == [jobs[w] EXCEPT !.pc = "respond", !.snapshot = None,
                                    !.program = None, !.response = response]
  <2>1. job \in Job /\ JobReady(job) /\ job.pc = "respond"
    BY <1>1 DEF Job, JobReady
  <2>2. jobs' = [jobs EXCEPT ![w] = job] /\ UNCHANGED stores
    BY <1>2 DEF Only
  <2> HIDE DEF job
  <2> QED
    BY <2>1, <2>2, JobType DEF TypeOK, stores
<1>3. ASSUME NEW writes, NEW after, NEW number, NEW response, NEW runtime,
             jobs[w].episode \in Episode,
             Plans(w, writes, after, number, response, runtime)
      PROVE  TypeOK'
  <2> DEFINE last == Put("episodes", jobs[w].episode, after)
             all == Append(writes, last)
             job == [jobs[w] EXCEPT !.pc = "write", !.writes = all,
                                    !.snapshot = after, !.number = number,
                                    !.program = None, !.response = response,
                                    !.runtime = runtime]
  <2>1. last \in PendingWrite /\ writes \in Seq(PendingWrite)
    BY <1>3, WriteTypes DEF Plans
  <2>2. all \in Seq(PendingWrite) /\ all # << >>
    BY <2>1, AppendType
  <2>3. /\ after \in StoredEpisode /\ number \in Nat /\ response \in Response
        /\ runtime \in Runtime \cup {None}
    BY <1>3 DEF Plans
  <2>4. jobs' = [jobs EXCEPT ![w] = job] /\ UNCHANGED stores
    BY <1>3 DEF Plans, Owes
  <2> HIDE DEF all, last
  <2>5. job \in Job /\ JobReady(job) /\ job.pc = "write"
    BY <1>1, <1>3, <2>2, <2>3 DEF Job, JobReady
  <2> HIDE DEF job
  <2> QED
    BY <2>4, <2>5, JobType DEF TypeOK, stores
<1> QED
  BY <1>2, <1>3, DecisionPlans

\* A sequence with something in it: its first element and the rest.
LEMMA HeadTail ==
    ASSUME NEW S, NEW s \in Seq(S), s # << >>
    PROVE  /\ Head(s) \in S /\ Head(s) = s[1] /\ 1 \in DOMAIN s
           /\ Tail(s) \in Seq(S)
           /\ Tail(s) = << >> <=> Len(s) = 1
           /\ \A i \in DOMAIN Tail(s) : i + 1 \in DOMAIN s /\ Tail(s)[i] = s[i + 1]
<1>1. Len(s) \in Nat /\ Len(s) # 0 /\ DOMAIN s = 1 .. Len(s)
  OBVIOUS
<1>2. /\ Tail(s) \in Seq(S) /\ Len(Tail(s)) = Len(s) - 1
      /\ \A i \in 1 .. Len(s) - 1 : Tail(s)[i] = s[i + 1]
  BY <1>1
<1>3. DOMAIN Tail(s) = 1 .. Len(s) - 1
  BY <1>2
<1>4. Head(s) = s[1] /\ s[1] \in S
  BY <1>1
<1>5. Tail(s) = << >> <=> Len(s) = 1
  BY <1>1, <1>2
<1> QED
  BY <1>1, <1>2, <1>3, <1>4, <1>5

\* The write a job carries out next, and what is left of its plan.
LEMMA NextWrite ==
    ASSUME TypeOK, NEW w \in Worker, jobs[w].pc = "write"
    PROVE  /\ Head(jobs[w].writes) \in PendingWrite
           /\ Tail(jobs[w].writes) \in Seq(PendingWrite)
           /\ Tail(jobs[w].writes) = << >> <=> Len(jobs[w].writes) = 1
           /\ Head(jobs[w].writes) = jobs[w].writes[1] /\ 1 \in DOMAIN jobs[w].writes
           /\ \A i \in DOMAIN Tail(jobs[w].writes) :
                 /\ i + 1 \in DOMAIN jobs[w].writes
                 /\ Tail(jobs[w].writes)[i] = jobs[w].writes[i + 1]
<1>1. jobs[w].writes \in Seq(PendingWrite) /\ jobs[w].writes # << >>
  BY DEF TypeOK, Job, JobReady
<1> QED
  BY <1>1, HeadTail

\* Carrying out a write keeps the stores well typed.
LEMMA WriteType ==
    ASSUME TypeOK, NEW w \in Worker, Write(w)
    PROVE  TypeOK'
<1> DEFINE write == Head(jobs[w].writes)
           job == [jobs[w] EXCEPT !.writes = Tail(@),
                                  !.pc = IF Len(jobs[w].writes) = 1
                                         THEN "respond" ELSE "write"]
<1>1. jobs[w] \in Job /\ JobReady(jobs[w]) /\ jobs[w].pc = "write"
  BY DEF TypeOK, Write
<1>2. write \in PendingWrite
  BY <1>1, NextWrite
<1>3. job \in Job /\ JobReady(job) /\ job.pc # "fetch"
  BY <1>1, NextWrite DEF Job, JobReady
<1>4. jobs' = [jobs EXCEPT ![w] = job]
  BY DEF Write
<1>5. /\ episodes' = Stored(episodes, "episodes", write)
      /\ rule_candidates' = Stored(rule_candidates, "rule_candidates", write)
      /\ understandings' = Stored(understandings, "understandings", write)
      /\ deferred' = Stored(deferred, "deferred", write)
      /\ versions' = StoredVersion(versions, write)
      /\ unknown_utterances' = Logged(unknown_utterances, write)
  BY DEF Write
<1> HIDE DEF write, job
<1>6. /\ episodes' \in [Episode -> StoredEpisode \cup {None}]
      /\ rule_candidates' \in [Episode -> RuleCandidate \cup {None}]
      /\ understandings' \in [Episode -> Text \cup {None}]
      /\ deferred' \in [Episode -> ReviewStates \cup {None}]
  BY <1>2, <1>5, WriteParts DEF TypeOK, Stored
<1>7. versions' \in Seq(AgentProgram) /\ DOMAIN versions \subseteq DOMAIN versions'
  BY <1>2, <1>5, WriteParts, SavedVersions DEF TypeOK, StoredVersion
<1>8. /\ jobs' \in [Worker -> Job]
      /\ \A v \in Worker : JobReady(jobs'[v])
      /\ \A v \in Worker :
            jobs'[v].pc = "fetch" => jobs'[v].number \in DOMAIN versions'
  BY <1>3, <1>4, <1>7, JobType
<1>9. unknown_utterances' \in [Episode -> Seq(Utterance)]
  <2>1. CASE write.repository = "unknown_utterances"
    <3>1. write.key \in Episode /\ write.value \in Utterance
      BY <1>2, <2>1, WriteParts
    <3>2. Append(unknown_utterances[write.key], write.value) \in Seq(Utterance)
      BY <3>1 DEF TypeOK
    <3> QED
      BY <1>5, <2>1, <3>1, <3>2 DEF TypeOK, Logged
  <2>2. CASE write.repository # "unknown_utterances"
    BY <1>5, <2>2 DEF TypeOK, Logged
  <2> QED
    BY <2>1, <2>2
<1> QED
  BY <1>6, <1>7, <1>8, <1>9 DEF TypeOK

\* An idle worker is a well-formed job.
LEMMA IdleType == Idle \in Job /\ JobReady(Idle) /\ Idle.pc = "idle"
<1>1. << >> \in Seq(PendingWrite)
  OBVIOUS
<1> QED
  BY <1>1 DEF Idle, Job, JobReady, Command, Response

\* Answering keeps the types.
LEMMA RespondType ==
    ASSUME TypeOK, NEW w \in Worker, Respond(w)
    PROVE  TypeOK'
BY IdleType, JobType DEF Respond, TypeOK, stores

\* The empty repositories and idle workers are well typed.
LEMMA TypeInit == Init => TypeOK
BY IdleType DEF Init, TypeOK

\* Requests arrive well formed.
LEMMA ArriveType ==
    ASSUME TypeOK, NEW w \in Worker,
           \/ ReceiveProgramQuery(w)
           \/ \E e \in Episode : \/ ReceiveEpisode(w, e)
                                 \/ \E command \in Command : ReceiveTurn(w, e, command)
    PROVE  TypeOK'
<1>1. CASE ReceiveProgramQuery(w)
  BY <1>1, ReceivedType DEF ReceiveProgramQuery, Command
<1>2. ASSUME NEW e \in Episode, ReceiveEpisode(w, e) PROVE TypeOK'
  <2>1. Snapshot("open", 0) \in StoredEpisode
    BY DEF Snapshot, StoredEpisode, EpisodeState
  <2> QED
    BY <1>2, <2>1, ReceivedType DEF ReceiveEpisode, Command
<1>3. ASSUME NEW e \in Episode, NEW command \in Command, ReceiveTurn(w, e, command)
      PROVE  TypeOK'
  <2>1. episodes[e] \in StoredEpisode
    BY <1>3 DEF TypeOK, ReceiveTurn
  <2> QED
    BY <1>3, <2>1, ReceivedType DEF ReceiveTurn
<1> QED
  BY <1>1, <1>2, <1>3

\* Every step keeps the types.
LEMMA TypeStep == TypeOK /\ [Next]_vars => TypeOK'
<1>1. CASE UNCHANGED vars
  BY <1>1 DEF vars, stores, TypeOK
<1>2. ASSUME TypeOK, Next PROVE TypeOK'
  BY <1>2, ArriveType, ReadType, FetchType, InitialiseType, DecideType, WriteType, RespondType
     DEF Next, Serve
<1> QED
  BY <1>1, <1>2

\* Every store and every job is well formed under any interleaving of the handlers.
THEOREM ServerTypeInvariant == Spec => []TypeOK
<1> QED
  BY TypeInit, TypeStep, PTL DEF Spec

(***************************************************************************)
(* What a step of a handler does to its job.                               *)
(***************************************************************************)

\* The other workers' jobs stay as they are.
Alone(w) == \A v \in Worker : v # w => jobs'[v] = jobs[v]

\* Of a job nothing changes that a request has brought.
SameRequest(w) ==
    jobs'[w].episode = jobs[w].episode /\ jobs'[w].request = jobs[w].request

\* A request arrives.
LEMMA ReceivedJob ==
    ASSUME TypeOK, NEW w \in Worker, NEW request, NEW e, NEW command, NEW snapshot,
           Receive(w, request, e, command, snapshot)
    PROVE  /\ Alone(w) /\ jobs[w].pc = "idle" /\ jobs'[w].pc = "read"
           /\ jobs'[w].request = request /\ jobs'[w].episode = e
           /\ jobs'[w].writes = << >>
           /\ UNCHANGED stores
BY DEF TypeOK, Receive, Idle, Alone

\* It reads the versions.
LEMMA ReadJob ==
    ASSUME TypeOK, NEW w \in Worker, ReadVersions(w)
    PROVE  /\ Alone(w) /\ SameRequest(w) /\ jobs[w].pc = "read"
           /\ jobs'[w].pc \in {"initialise", "fetch"}
           /\ jobs'[w].pc = "fetch" =>
                  /\ versions # << >>
                  /\ jobs'[w].number = IF jobs[w].request = "create_episode"
                                       THEN 1 ELSE Len(versions)
           /\ jobs'[w].writes = jobs[w].writes
           /\ UNCHANGED stores
<1>1. jobs[w] \in Job /\ jobs \in [Worker -> Job]
  BY DEF TypeOK
<1> QED
  BY <1>1 DEF Job, ReadVersions, Alone, SameRequest

\* It fetches the program.
LEMMA FetchedJob ==
    ASSUME TypeOK, NEW w \in Worker, FetchProgram(w)
    PROVE  /\ Alone(w) /\ SameRequest(w) /\ jobs[w].pc = "fetch"
           /\ jobs'[w].pc = "decide" /\ jobs'[w].number = jobs[w].number
           /\ jobs'[w].snapshot = jobs[w].snapshot
           /\ jobs'[w].writes = jobs[w].writes
           /\ UNCHANGED stores
<1>1. jobs[w] \in Job /\ jobs \in [Worker -> Job]
  BY DEF TypeOK
<1> QED
  BY <1>1 DEF Job, FetchProgram, Alone, SameRequest

\* It saves the first version.
LEMMA InitialisedJob ==
    ASSUME TypeOK, NEW w \in Worker, Initialise(w)
    PROVE  /\ Alone(w) /\ SameRequest(w) /\ jobs[w].pc = "initialise"
           /\ jobs'[w].pc = "read" /\ jobs'[w].writes = jobs[w].writes
           /\ episodes' = episodes
<1>1. jobs[w] \in Job /\ jobs \in [Worker -> Job]
  BY DEF TypeOK
<1> QED
  BY <1>1 DEF Job, Initialise, Alone, SameRequest

\* What Append adds, and what it leaves.
LEMMA AppendParts ==
    ASSUME NEW S, NEW s \in Seq(S), NEW last \in S
    PROVE  /\ Append(s, last) \in Seq(S) /\ Append(s, last) # << >>
           /\ Len(Append(s, last)) = Len(s) + 1 /\ Append(s, last)[Len(s) + 1] = last
           /\ DOMAIN s = 1..Len(s) /\ DOMAIN Append(s, last) = 1..(Len(s) + 1)
           /\ Len(s) \in Nat
           /\ \A i \in 1..Len(s) : Append(s, last)[i] = s[i]
BY AppendType

\* It decides: an answer without an episode, or a plan that ends by saving its
\* episode.
AnswersAtOnce(w) ==
    /\ jobs'[w].pc = "respond" /\ jobs'[w].snapshot = None
    /\ jobs'[w].number = jobs[w].number /\ jobs'[w].writes = jobs[w].writes

PlansWrites(w) ==
    /\ jobs'[w].pc = "write" /\ jobs'[w].snapshot \in StoredEpisode
    /\ jobs'[w].number >= jobs[w].number /\ jobs'[w].number \in Nat
    /\ \/ jobs'[w].number = jobs[w].number
       \/ \E i \in DOMAIN jobs'[w].writes :
             /\ jobs'[w].writes[i].repository = "versions"
             /\ jobs'[w].writes[i].key = jobs'[w].number
    /\ jobs'[w].writes # << >>
    /\ \A i \in DOMAIN jobs'[w].writes :
          jobs'[w].writes[i].repository = "episodes" => i = Len(jobs'[w].writes)
    /\ jobs'[w].writes[Len(jobs'[w].writes)]
          = Put("episodes", jobs'[w].episode, jobs'[w].snapshot)

\* A decision is one of the two.
LEMMA DecidedJob ==
    ASSUME TypeOK, NEW w \in Worker, Decide(w)
    PROVE  /\ Alone(w) /\ SameRequest(w) /\ jobs[w].pc = "decide"
           /\ AnswersAtOnce(w) \/ PlansWrites(w)
           /\ UNCHANGED stores
<1>0. jobs[w] \in Job /\ jobs \in [Worker -> Job] /\ jobs[w].pc = "decide"
  BY DecisionPlans DEF TypeOK
<1>1. ASSUME NEW response, Only(w, None, response)
      PROVE  Alone(w) /\ SameRequest(w) /\ AnswersAtOnce(w) /\ UNCHANGED stores
  BY <1>0, <1>1 DEF Only, Job, Alone, SameRequest, AnswersAtOnce
<1>2. ASSUME NEW writes, NEW after, NEW number, NEW response, NEW runtime,
             jobs[w].episode \in Episode,
             Plans(w, writes, after, number, response, runtime)
      PROVE  Alone(w) /\ SameRequest(w) /\ PlansWrites(w) /\ UNCHANGED stores
  <2> DEFINE last == Put("episodes", jobs[w].episode, after)
             all == Append(writes, last)
             job == [jobs[w] EXCEPT !.pc = "write", !.writes = all,
                                    !.snapshot = after, !.number = number,
                                    !.program = None, !.response = response,
                                    !.runtime = runtime]
  <2>1. jobs' = [jobs EXCEPT ![w] = job] /\ UNCHANGED stores
    BY <1>2 DEF Plans, Owes
  <2>2. /\ job.writes = all /\ job.pc = "write" /\ job.snapshot = after
        /\ job.number = number /\ job.episode = jobs[w].episode
        /\ job.request = jobs[w].request
    BY <1>0 DEF Job
  <2>3. /\ writes \in Seq(PendingWrite) /\ after \in StoredEpisode /\ number \in Nat
        /\ Numbered(w, writes, number)
        /\ \A i \in DOMAIN writes : writes[i].repository # "episodes"
    BY <1>2 DEF Plans, Justified
  <2> HIDE DEF job
  <2>4. jobs'[w] = job /\ Alone(w)
    BY <1>0, <2>1 DEF Alone
  <2>0. last \in PendingWrite
    BY <1>2, WriteTypes DEF Plans
  <2> HIDE DEF last
  <2>5. /\ Len(all) = Len(writes) + 1 /\ all # << >> /\ all[Len(all)] = last
        /\ \A i \in 1..Len(writes) : all[i] = writes[i]
        /\ DOMAIN writes = 1..Len(writes) /\ DOMAIN all = 1..Len(all) /\ Len(writes) \in Nat
    BY <2>3, <2>0, AppendParts
  <2> HIDE DEF all
  <2>b. \A i \in DOMAIN all : all[i].repository = "episodes" => i = Len(all)
    BY <2>3, <2>5
  <2>c. \/ number = jobs[w].number
        \/ \E i \in DOMAIN all : all[i].repository = "versions" /\ all[i].key = number
    BY <2>3, <2>5 DEF Numbered
  <2>6. SameRequest(w)
    BY <2>2, <2>4 DEF SameRequest
  <2>7. PlansWrites(w)
    BY <2>2, <2>3, <2>4, <2>5, <2>b, <2>c DEF PlansWrites, Numbered, last
  <2> QED
    BY <2>1, <2>4, <2>6, <2>7
<1> QED
  BY <1>0, <1>1, <1>2, DecisionPlans

\* It carries out a write.
LEMMA WrittenJob ==
    ASSUME TypeOK, NEW w \in Worker, Write(w)
    PROVE  /\ Alone(w) /\ SameRequest(w) /\ jobs[w].pc = "write"
           /\ jobs'[w].pc = IF Len(jobs[w].writes) = 1 THEN "respond" ELSE "write"
           /\ jobs'[w].snapshot = jobs[w].snapshot /\ jobs'[w].number = jobs[w].number
           /\ jobs'[w].writes = Tail(jobs[w].writes)
           /\ episodes' = Stored(episodes, "episodes", Head(jobs[w].writes))
           /\ versions' = StoredVersion(versions, Head(jobs[w].writes))
<1>1. jobs[w] \in Job /\ jobs \in [Worker -> Job]
  BY DEF TypeOK
<1> QED
  BY <1>1 DEF Job, Write, Alone, SameRequest

\* It is answered.
LEMMA AnsweredJob ==
    ASSUME TypeOK, NEW w \in Worker, Respond(w)
    PROVE  /\ Alone(w) /\ jobs[w].pc = "respond" /\ jobs'[w].pc = "idle"
           /\ UNCHANGED stores
BY DEF TypeOK, Respond, Idle, Alone

(***************************************************************************)
(* What a step does to the jobs and to the stores of versions and          *)
(* candidates, whoever takes it.                                           *)
(***************************************************************************)

\* A write owed after a step was owed before, or was just decided.
OwesJustified(v) ==
    \A i \in DOMAIN jobs'[v].writes :
        \/ \E j \in DOMAIN jobs[v].writes : jobs'[v].writes[i] = jobs[v].writes[j]
        \/ jobs'[v].writes[i].repository = "episodes"
        \/ jobs[v].pc = "decide" /\ Justified(v, jobs'[v].writes[i])

\* A job about to decide was so before, or just fetched the version of its number.
Reads(v) ==
    jobs'[v].pc = "decide" =>
        \/ /\ jobs[v].pc = "decide"
           /\ jobs'[v].program = jobs[v].program
           /\ jobs'[v].number = jobs[v].number
        \/ /\ jobs'[v].number \in DOMAIN versions
           /\ jobs'[v].program = versions[jobs'[v].number]

\* A runtime result was there before, or its plan is silent.
Ran(v) == jobs'[v].runtime = jobs[v].runtime \/ Silent(jobs'[v].runtime)

\* These three hold of a worker that did not move, and of one that did.
Moves(v) == OwesJustified(v) /\ Reads(v) /\ Ran(v)

\* A job that stays as it is owes nothing new and reads nothing new.
LEMMA Unmoving ==
    ASSUME NEW v, jobs'[v] = jobs[v]
    PROVE  Moves(v)
BY DEF Moves, OwesJustified, Reads, Ran

\* Only the job of the worker that takes a step changes.
LEMMA OneMoves ==
    ASSUME TypeOK, NEW w \in Worker, NEW job, jobs' = [jobs EXCEPT ![w] = job],
           NEW v \in Worker, v # w
    PROVE  Moves(v)
BY Unmoving DEF TypeOK

\* A job that becomes idle owes nothing and reads nothing.
LEMMA IdleMoves ==
    ASSUME NEW v, jobs'[v].writes = << >>, jobs'[v].runtime = None, jobs'[v].pc # "decide"
    PROVE  Moves(v)
BY DEF Moves, OwesJustified, Reads, Ran, Silent

\* Requests arrive, versions are read, answers leave.
LEMMA HandlerMoves ==
    ASSUME TypeOK, NEW w \in Worker, NEW v \in Worker,
           \/ ReceiveProgramQuery(w)
           \/ \E e \in Episode : \/ ReceiveEpisode(w, e)
                                 \/ \E command \in Command : ReceiveTurn(w, e, command)
           \/ ReadVersions(w)
           \/ Initialise(w)
           \/ FetchProgram(w)
           \/ Respond(w)
    PROVE  Moves(v)
<1>1. ASSUME NEW request, NEW e, NEW command, NEW snapshot,
             Receive(w, request, e, command, snapshot)
      PROVE  Moves(v)
  <2> DEFINE job == [Idle EXCEPT !.pc = "read", !.request = request, !.episode = e,
                                 !.command = command, !.snapshot = snapshot]
  <2>1. jobs' = [jobs EXCEPT ![w] = job]
    BY <1>1 DEF Receive
  <2>2. job.writes = << >> /\ job.runtime = None /\ job.pc # "decide"
    BY DEF Idle
  <2> HIDE DEF job
  <2>3. CASE v = w
    BY <2>1, <2>2, <2>3, IdleMoves DEF TypeOK
  <2>4. CASE v # w
    BY <2>1, <2>4, OneMoves
  <2> QED
    BY <2>3, <2>4
<1>2. CASE ReadVersions(w)
  <2> DEFINE number == IF jobs[w].request = "create_episode" THEN 1 ELSE Len(versions)
             job == IF versions = << >> THEN [jobs[w] EXCEPT !.pc = "initialise"]
                    ELSE [jobs[w] EXCEPT !.pc = "fetch", !.number = number]
  <2>1. jobs' = [jobs EXCEPT ![w] = job]
    BY <1>2 DEF ReadVersions
  <2>2. jobs[w] \in Job
    BY DEF TypeOK
  <2>3. /\ job.writes = jobs[w].writes /\ job.runtime = jobs[w].runtime
        /\ job.pc # "decide"
    BY <2>2 DEF Job
  <2> HIDE DEF job
  <2>4. CASE v = w
    <3>1. jobs'[v] = job
      BY <2>1, <2>4 DEF TypeOK
    <3> QED
      BY <2>3, <2>4, <3>1 DEF Moves, OwesJustified, Reads, Ran
  <2>5. CASE v # w
    BY <2>1, <2>5, OneMoves
  <2> QED
    BY <2>4, <2>5
<1>3. CASE Initialise(w)
  <2> DEFINE job == [jobs[w] EXCEPT !.pc = "read"]
  <2>1. jobs' = [jobs EXCEPT ![w] = job] /\ jobs[w] \in Job
    BY <1>3 DEF Initialise, TypeOK
  <2>2. job.writes = jobs[w].writes /\ job.runtime = jobs[w].runtime /\ job.pc = "read"
    BY <2>1 DEF Job
  <2> HIDE DEF job
  <2>3. CASE v = w
    <3>1. jobs'[v] = job
      BY <2>1, <2>3 DEF TypeOK
    <3> QED
      BY <2>2, <2>3, <3>1 DEF Moves, OwesJustified, Reads, Ran
  <2>4. CASE v # w
    BY <2>1, <2>4, OneMoves
  <2> QED
    BY <2>3, <2>4
<1>4. CASE FetchProgram(w)
  <2> DEFINE job == [jobs[w] EXCEPT !.pc = "decide",
                                    !.program = versions[jobs[w].number]]
  <2>1. jobs' = [jobs EXCEPT ![w] = job] /\ jobs[w] \in Job
    BY <1>4 DEF FetchProgram, TypeOK
  <2>2. /\ job.writes = jobs[w].writes /\ job.runtime = jobs[w].runtime
        /\ job.number \in DOMAIN versions /\ job.program = versions[job.number]
    BY <1>4, <2>1 DEF Job, FetchProgram, TypeOK
  <2> HIDE DEF job
  <2>3. CASE v = w
    <3>1. jobs'[v] = job
      BY <2>1, <2>3 DEF TypeOK
    <3> QED
      BY <2>2, <2>3, <3>1 DEF Moves, OwesJustified, Reads, Ran
  <2>4. CASE v # w
    BY <2>1, <2>4, OneMoves
  <2> QED
    BY <2>3, <2>4
<1>5. CASE Respond(w)
  <2>1. jobs' = [jobs EXCEPT ![w] = Idle]
    BY <1>5 DEF Respond
  <2>2. CASE v = w
    <3>1. jobs'[v] = Idle
      BY <2>1, <2>2 DEF TypeOK
    <3> QED
      BY <3>1, IdleMoves DEF Idle
  <2>3. CASE v # w
    BY <2>1, <2>3, OneMoves
  <2> QED
    BY <2>2, <2>3
<1> QED
  BY <1>1, <1>2, <1>3, <1>4, <1>5 DEF ReceiveProgramQuery, ReceiveEpisode, ReceiveTurn

\* Decisions.
LEMMA DecideMoves ==
    ASSUME TypeOK, NEW w \in Worker, NEW v \in Worker, Decide(w)
    PROVE  Moves(v)
<1>0. jobs[w] \in Job /\ jobs[w].pc = "decide"
  BY DecisionPlans DEF TypeOK
<1>1. ASSUME NEW response, Only(w, None, response) PROVE Moves(v)
  <2> DEFINE job == [jobs[w] EXCEPT !.pc = "respond", !.snapshot = None,
                                    !.program = None, !.response = response]
  <2>1. jobs' = [jobs EXCEPT ![w] = job]
    BY <1>1 DEF Only
  <2>2. job.writes = jobs[w].writes /\ job.runtime = jobs[w].runtime /\ job.pc = "respond"
    BY <1>0 DEF Job
  <2> HIDE DEF job
  <2>3. CASE v = w
    <3>1. jobs'[v] = job
      BY <2>1, <2>3 DEF TypeOK
    <3> QED
      BY <2>2, <2>3, <3>1 DEF Moves, OwesJustified, Reads, Ran
  <2>4. CASE v # w
    BY <2>1, <2>4, OneMoves
  <2> QED
    BY <2>3, <2>4
<1>2. ASSUME NEW writes, NEW after, NEW number, NEW response, NEW runtime,
             Plans(w, writes, after, number, response, runtime)
      PROVE  Moves(v)
  <2> DEFINE last == Put("episodes", jobs[w].episode, after)
             all == Append(writes, last)
             job == [jobs[w] EXCEPT !.pc = "write", !.writes = all,
                                    !.snapshot = after, !.number = number,
                                    !.program = None, !.response = response,
                                    !.runtime = runtime]
  <2>1. jobs' = [jobs EXCEPT ![w] = job]
    BY <1>2 DEF Plans, Owes
  <2>2. job.writes = all /\ job.runtime = runtime /\ job.pc = "write"
    BY <1>0 DEF Job
  <2>3. last.repository = "episodes"
    BY DEF Put
  <2>4. writes \in Seq(PendingWrite)
    BY <1>2 DEF Plans
  <2> HIDE DEF last
  <2>5. \A i \in DOMAIN all : (i \in DOMAIN writes /\ all[i] = writes[i]) \/ all[i] = last
    BY <2>4
  <2>6. Silent(runtime) /\ \A i \in DOMAIN writes : Justified(w, writes[i])
    BY <1>2 DEF Plans
  <2> HIDE DEF job, all
  <2>7. CASE v = w
    <3>1. jobs'[v] = job
      BY <2>1, <2>7 DEF TypeOK
    <3>2. OwesJustified(v)
      BY <1>0, <2>2, <2>3, <2>5, <2>6, <2>7, <3>1 DEF OwesJustified
    <3>3. Reads(v) /\ Ran(v)
      BY <2>2, <2>6, <3>1 DEF Reads, Ran
    <3> QED
      BY <3>2, <3>3 DEF Moves
  <2>8. CASE v # w
    BY <2>1, <2>8, OneMoves
  <2> QED
    BY <2>7, <2>8
<1> QED
  BY <1>1, <1>2, DecisionPlans

\* Writes.
LEMMA WriteMoves ==
    ASSUME TypeOK, NEW w \in Worker, NEW v \in Worker, Write(w)
    PROVE  Moves(v)
<1> DEFINE job == [jobs[w] EXCEPT !.writes = Tail(@),
                                  !.pc = IF Len(jobs[w].writes) = 1
                                         THEN "respond" ELSE "write"]
<1>0. jobs[w] \in Job /\ jobs[w].pc = "write" /\ jobs' = [jobs EXCEPT ![w] = job]
  BY DEF TypeOK, Write
<1>1. /\ job.writes = Tail(jobs[w].writes) /\ job.runtime = jobs[w].runtime
      /\ job.pc # "decide"
  BY <1>0 DEF Job
<1> HIDE DEF job
<1>2. CASE v = w
  <2>1. jobs'[v] = job
    BY <1>0, <1>2 DEF TypeOK
  <2>2. \A i \in DOMAIN job.writes :
            i + 1 \in DOMAIN jobs[w].writes /\ job.writes[i] = jobs[w].writes[i + 1]
    BY <1>0, <1>1, NextWrite
  <2> QED
    BY <1>1, <1>2, <2>1, <2>2 DEF Moves, OwesJustified, Reads, Ran
<1>3. CASE v # w
  BY <1>0, <1>3, OneMoves
<1> QED
  BY <1>2, <1>3

\* No step of any worker gives a job a write or a program from nowhere.
LEMMA StepMoves ==
    ASSUME TypeOK, [Next]_vars, NEW v \in Worker
    PROVE  Moves(v)
<1>1. CASE UNCHANGED vars
  BY <1>1, Unmoving DEF vars
<1>2. CASE Next
  BY <1>2, HandlerMoves, DecideMoves, WriteMoves DEF Next, Serve
<1> QED
  BY <1>1, <1>2

\* What is written to the stores of versions and candidates: nothing, the first
\* version, or what a job owed.
LEMMA StoreMoves ==
    ASSUME TypeOK, [Next]_vars
    PROVE  \/ versions' = versions /\ rule_candidates' = rule_candidates
           \/ /\ versions' = SaveVersion(versions, 1, DefaultProgram)
              /\ rule_candidates' = rule_candidates
           \/ \E w \in Worker : \E i \in DOMAIN jobs[w].writes :
                 /\ versions' = StoredVersion(versions, jobs[w].writes[i])
                 /\ rule_candidates' =
                        Stored(rule_candidates, "rule_candidates", jobs[w].writes[i])
<1>1. CASE UNCHANGED vars
  BY <1>1 DEF vars, stores
<1>2. ASSUME NEW w \in Worker,
             \/ ReceiveProgramQuery(w)
             \/ \E e \in Episode : \/ ReceiveEpisode(w, e)
                                   \/ \E command \in Command : ReceiveTurn(w, e, command)
             \/ ReadVersions(w)
             \/ FetchProgram(w)
             \/ Respond(w)
      PROVE  UNCHANGED stores
  BY <1>2 DEF ReceiveProgramQuery, ReceiveEpisode, ReceiveTurn, Receive, ReadVersions,
     FetchProgram, Respond
<1>3. ASSUME NEW w \in Worker, Decide(w) PROVE UNCHANGED stores
  BY <1>3, DecisionPlans DEF Only, Plans, Owes
<1>4. ASSUME NEW w \in Worker, Initialise(w)
      PROVE  /\ versions' = SaveVersion(versions, 1, DefaultProgram)
             /\ rule_candidates' = rule_candidates
  BY <1>4 DEF Initialise
<1>5. ASSUME NEW w \in Worker, Write(w)
      PROVE  /\ 1 \in DOMAIN jobs[w].writes
             /\ versions' = StoredVersion(versions, jobs[w].writes[1])
             /\ rule_candidates' =
                    Stored(rule_candidates, "rule_candidates", jobs[w].writes[1])
  BY <1>5, NextWrite DEF Write
<1>6. CASE Next
  BY <1>2, <1>3, <1>4, <1>5, <1>6 DEF Next, Serve, stores
<1> QED
  BY <1>1, <1>6

\* What a saved version leaves in the store.
LEMMA SavedContent ==
    ASSUME NEW saved \in Seq(AgentProgram), NEW number \in Nat \ {0},
           NEW program \in AgentProgram
    PROVE  /\ \A n \in DOMAIN SaveVersion(saved, number, program) :
                 \/ n \in DOMAIN saved
                    /\ SaveVersion(saved, number, program)[n] = saved[n]
                 \/ SaveVersion(saved, number, program)[n] = program
                    /\ (number <= Len(saved) + 1 => n = number)
           /\ Len(SaveVersion(saved, number, program)) >= Len(saved)
<1>1. CASE number \in DOMAIN saved
  BY <1>1 DEF SaveVersion
<1>2. CASE number \notin DOMAIN saved
  <2>1. SaveVersion(saved, number, program) = Append(saved, program)
    BY <1>2 DEF SaveVersion
  <2>2. \A n \in DOMAIN Append(saved, program) :
            \/ n \in DOMAIN saved /\ Append(saved, program)[n] = saved[n]
            \/ n = Len(saved) + 1 /\ Append(saved, program)[n] = program
    OBVIOUS
  <2>3. number <= Len(saved) + 1 => number = Len(saved) + 1
    BY <1>2
  <2> QED
    BY <2>1, <2>2, <2>3
<1> QED
  BY <1>1, <1>2

(***************************************************************************)
(* Every program saved is honest, whatever turns overlap.                  *)
(***************************************************************************)

\* The strengthening: honest programs are made of what is honest, so the programs
\* being worked on are too, and every candidate has the mode its key derives.
JobHonest(job) ==
    /\ job.pc = "decide" => HonestProgram(job.program)
    /\ \A i \in DOMAIN job.writes :
          LET write == job.writes[i] IN
          /\ write.repository = "versions" => HonestProgram(write.value)
          /\ (write.repository = "rule_candidates" /\ write.value # None) =>
                 HonestCandidate(write.value)

HonestServer ==
    /\ \A n \in DOMAIN versions : HonestProgram(versions[n])
    /\ \A e \in Episode :
          rule_candidates[e] # None => HonestCandidate(rule_candidates[e])
    /\ \A w \in Worker : JobHonest(jobs[w])

\* At the start nothing is saved and nothing is owed.
LEMMA HonestInit == Init => HonestServer
<1> SUFFICES ASSUME Init PROVE HonestServer
  OBVIOUS
<1>1. \A w \in Worker : JobHonest(jobs[w])
  BY DEF Init, Idle, JobHonest
<1> QED
  BY <1>1 DEF Init, HonestServer

\* A job goes on working on honest programs and candidates.
LEMMA HonestJobStep ==
    ASSUME TypeOK, HonestServer, [Next]_vars, NEW v \in Worker
    PROVE  JobHonest(jobs'[v])
<1>0. OwesJustified(v) /\ Reads(v)
  BY StepMoves DEF Moves
<1>h. JobHonest(jobs[v]) /\ jobs[v] \in Job /\ JobReady(jobs[v])
  BY DEF HonestServer, TypeOK
<1>1. ASSUME jobs'[v].pc = "decide" PROVE HonestProgram(jobs'[v].program)
  BY <1>0, <1>h, <1>1 DEF Reads, JobHonest, HonestServer
<1>2. ASSUME NEW i \in DOMAIN jobs'[v].writes
      PROVE  LET write == jobs'[v].writes[i] IN
             /\ write.repository = "versions" => HonestProgram(write.value)
             /\ (write.repository = "rule_candidates" /\ write.value # None) =>
                    HonestCandidate(write.value)
  <2> DEFINE write == jobs'[v].writes[i]
  <2>1. CASE \E j \in DOMAIN jobs[v].writes : write = jobs[v].writes[j]
    BY <1>h, <2>1 DEF JobHonest
  <2>2. CASE write.repository = "episodes"
    BY <2>2
  <2>3. CASE jobs[v].pc = "decide" /\ Justified(v, write)
    <3>1. ASSUME write.repository = "versions" PROVE HonestProgram(write.value)
      <4>1. PICK e \in Episode :
                /\ rule_candidates[e] # None
                /\ write.value = ConfirmRuleCandidate(jobs[v].program, rule_candidates[e])
        BY <2>3, <3>1 DEF Justified
      <4>2. /\ jobs[v].program \in AgentProgram /\ HonestProgram(jobs[v].program)
        BY <1>h, <2>3 DEF JobReady, JobHonest
      <4>3. rule_candidates[e] \in RuleCandidate /\ HonestCandidate(rule_candidates[e])
        BY <4>1 DEF TypeOK, HonestServer
      <4> QED
        BY <4>1, <4>2, <4>3, ConfirmKeepsHonest
    <3> QED
      BY <2>3, <3>1 DEF Justified
  <2> QED
    BY <1>0, <2>1, <2>2, <2>3 DEF OwesJustified
<1> QED
  BY <1>1, <1>2 DEF JobHonest

\* Every step keeps the stores and the jobs honest.
LEMMA HonestStep ==
    ASSUME TypeOK, HonestServer, [Next]_vars
    PROVE  HonestServer'
<1>1. \A v \in Worker : JobHonest(jobs'[v])
  BY HonestJobStep
<1>2. CASE versions' = versions /\ rule_candidates' = rule_candidates
  BY <1>1, <1>2 DEF HonestServer
<1>3. CASE /\ versions' = SaveVersion(versions, 1, DefaultProgram)
           /\ rule_candidates' = rule_candidates
  <2>1. versions \in Seq(AgentProgram) /\ 1 \in Nat \ {0}
    BY DEF TypeOK
  <2>2. \A n \in DOMAIN versions' :
            (n \in DOMAIN versions /\ versions'[n] = versions[n])
                \/ versions'[n] = DefaultProgram
    BY <1>3, <2>1, DefaultProgramType, SavedContent
  <2>3. \A n \in DOMAIN versions' : HonestProgram(versions'[n])
    BY <2>2, DefaultProgramHonest DEF HonestServer
  <2> QED
    BY <1>1, <1>3, <2>3 DEF HonestServer
<1>4. ASSUME NEW w \in Worker, NEW i \in DOMAIN jobs[w].writes,
             versions' = StoredVersion(versions, jobs[w].writes[i]),
             rule_candidates' =
                 Stored(rule_candidates, "rule_candidates", jobs[w].writes[i])
      PROVE  HonestServer'
  <2> DEFINE write == jobs[w].writes[i]
  <2>1. write \in PendingWrite /\ JobHonest(jobs[w])
    BY DEF TypeOK, Job, HonestServer
  <2>2. \A n \in DOMAIN versions' : HonestProgram(versions'[n])
    <3>1. CASE write.repository = "versions"
      <4>1. /\ write.key \in Nat \ {0} /\ write.value \in AgentProgram
            /\ versions \in Seq(AgentProgram)
        BY <2>1, <3>1, WriteParts DEF TypeOK
      <4>2. versions' = SaveVersion(versions, write.key, write.value)
        BY <1>4, <3>1 DEF StoredVersion
      <4>3. HonestProgram(write.value)
        BY <2>1, <3>1 DEF JobHonest
      <4> QED
        BY <4>1, <4>2, <4>3, SavedContent DEF HonestServer
    <3>2. CASE write.repository # "versions"
      BY <1>4, <3>2 DEF StoredVersion, HonestServer
    <3> QED
      BY <3>1, <3>2
  <2>3. \A e \in Episode :
            rule_candidates'[e] # None => HonestCandidate(rule_candidates'[e])
    <3>1. CASE write.repository = "rule_candidates"
      <4>1. rule_candidates' = [rule_candidates EXCEPT ![write.key] = write.value]
        BY <1>4, <3>1 DEF Stored
      <4>2. write.value # None => HonestCandidate(write.value)
        BY <2>1, <3>1 DEF JobHonest
      <4> HIDE DEF write
      <4> QED
        BY <4>1, <4>2 DEF HonestServer, TypeOK
    <3>2. CASE write.repository # "rule_candidates"
      BY <1>4, <3>2 DEF Stored, HonestServer
    <3> QED
      BY <3>1, <3>2
  <2> QED
    BY <1>1, <2>2, <2>3 DEF HonestServer
<1> QED
  BY <1>2, <1>3, <1>4, StoreMoves

\* Every version that is stored or about to be lists each of its rules once and has
\* its policy on exactly when one of them is enforced, whatever turns overlap: each
\* is made of one program, read once, and one candidate.
THEOREM ProgramsHonestWhateverOverlaps == Spec => []RulesHonest
<1>1. HonestServer => RulesHonest
  BY DEF HonestServer, RulesHonest, Owed, JobHonest
<1>2. TypeOK /\ HonestServer /\ [Next]_vars => HonestServer'
  BY HonestStep
<1> QED
  BY <1>1, <1>2, HonestInit, ServerTypeInvariant, PTL DEF Spec

(***************************************************************************)
(* Version numbers count the rules, whatever turns overlap.                *)
(***************************************************************************)

\* The strengthening: what a turn works on is numbered by its rules, and is no
\* newer than the store.
JobCounts(job, stored) ==
    /\ job.pc = "decide" =>
           job.number <= stored /\ Len(job.program.rules) = job.number - 1
    /\ \A i \in DOMAIN job.writes :
          job.writes[i].repository = "versions" =>
              /\ job.writes[i].key <= stored + 1
              /\ Len(job.writes[i].value.rules) = job.writes[i].key - 1

CountingServer ==
    /\ \A n \in DOMAIN versions : Len(versions[n].rules) = n - 1
    /\ \A w \in Worker : JobCounts(jobs[w], Len(versions))

\* At the start there is no version to number.
LEMMA CountInit == Init => CountingServer
<1> SUFFICES ASSUME Init PROVE CountingServer
  OBVIOUS
<1>1. \A w \in Worker : JobCounts(jobs[w], Len(versions))
  BY DEF Init, Idle, JobCounts
<1> QED
  BY <1>1 DEF Init, CountingServer

\* Saving a version numbered by its rules, no further than one past the last,
\* leaves every version numbered by its rules.
LEMMA SavedCounts ==
    ASSUME NEW store \in Seq(AgentProgram), NEW number \in Nat \ {0},
           NEW program \in AgentProgram,
           number <= Len(store) + 1, Len(program.rules) = number - 1,
           \A n \in DOMAIN store : Len(store[n].rules) = n - 1
    PROVE  LET saved == SaveVersion(store, number, program) IN
           /\ \A n \in DOMAIN saved : Len(saved[n].rules) = n - 1
           /\ Len(saved) >= Len(store)
<1> DEFINE saved == SaveVersion(store, number, program)
<1>1. /\ \A n \in DOMAIN saved :
            \/ n \in DOMAIN store /\ saved[n] = store[n]
            \/ saved[n] = program /\ (number <= Len(store) + 1 => n = number)
      /\ Len(saved) >= Len(store)
  BY SavedContent, Zenon
<1> HIDE DEF saved
<1>2. \A n \in DOMAIN saved : Len(saved[n].rules) = n - 1
  BY <1>1
<1> QED
  BY <1>1, <1>2 DEF saved

\* The versions never get fewer, and stay numbered by their rules.
LEMMA CountedVersions ==
    ASSUME TypeOK, CountingServer, [Next]_vars
    PROVE  /\ \A n \in DOMAIN versions' : Len(versions'[n].rules) = n - 1
           /\ Len(versions') >= Len(versions)
<1>0. versions \in Seq(AgentProgram) /\ 1 \in Nat \ {0}
  BY DEF TypeOK
<1>1. CASE versions' = versions
  BY <1>0, <1>1 DEF CountingServer
<1>2. CASE versions' = SaveVersion(versions, 1, DefaultProgram)
  <2>1. 1 <= Len(versions) + 1 /\ Len(DefaultProgram.rules) = 0
    BY <1>0 DEF DefaultProgram
  <2>2. \A n \in DOMAIN versions' :
            (n \in DOMAIN versions /\ versions'[n] = versions[n])
                \/ (versions'[n] = DefaultProgram /\ n = 1)
    BY <1>0, <1>2, <2>1, DefaultProgramType, SavedContent
  <2>3. Len(versions') >= Len(versions)
    BY <1>0, <1>2, DefaultProgramType, SavedContent
  <2> QED
    BY <2>1, <2>2, <2>3 DEF CountingServer
<1>3. ASSUME NEW w \in Worker, NEW i \in DOMAIN jobs[w].writes,
             versions' = StoredVersion(versions, jobs[w].writes[i]),
             versions' # versions
      PROVE  /\ \A n \in DOMAIN versions' : Len(versions'[n].rules) = n - 1
             /\ Len(versions') >= Len(versions)
  <2> DEFINE write == jobs[w].writes[i]
  <2>1. write \in PendingWrite /\ JobCounts(jobs[w], Len(versions))
    BY DEF TypeOK, Job, CountingServer
  <2>2. write.repository = "versions"
    BY <1>3 DEF StoredVersion
  <2>3. write.key \in Nat \ {0} /\ write.value \in AgentProgram
    BY <2>1, <2>2, WriteParts
  <2>4. versions' = SaveVersion(versions, write.key, write.value)
    BY <1>3, <2>2 DEF StoredVersion
  <2>5. write.key <= Len(versions) + 1 /\ Len(write.value.rules) = write.key - 1
    BY <2>1, <2>2 DEF JobCounts
  <2> HIDE DEF write
  <2>6. /\ \A n \in DOMAIN SaveVersion(versions, write.key, write.value) :
              Len(SaveVersion(versions, write.key, write.value)[n].rules) = n - 1
        /\ Len(SaveVersion(versions, write.key, write.value)) >= Len(versions)
    BY <1>0, <2>3, <2>5, SavedCounts DEF CountingServer
  <2> QED
    BY <2>4, <2>6
<1> QED
  BY <1>1, <1>2, <1>3, StoreMoves

\* Every step keeps the versions, and what will be saved, numbered by rules.
LEMMA CountStep ==
    ASSUME TypeOK, CountingServer, [Next]_vars
    PROVE  CountingServer'
<1>1. /\ \A n \in DOMAIN versions' : Len(versions'[n].rules) = n - 1
      /\ Len(versions') >= Len(versions)
  BY CountedVersions
<1>2. versions \in Seq(AgentProgram) /\ versions' \in Seq(AgentProgram)
  BY TypeStep DEF TypeOK
<1>3. ASSUME NEW v \in Worker PROVE JobCounts(jobs'[v], Len(versions'))
  <2>0. OwesJustified(v) /\ Reads(v)
    BY StepMoves DEF Moves
  <2>h. /\ JobCounts(jobs[v], Len(versions)) /\ jobs[v] \in Job /\ JobReady(jobs[v])
        /\ jobs'[v] \in Job
    BY TypeStep DEF CountingServer, TypeOK
  <2>1. ASSUME jobs'[v].pc = "decide"
        PROVE  /\ jobs'[v].number <= Len(versions')
               /\ Len(jobs'[v].program.rules) = jobs'[v].number - 1
    <3>1. CASE /\ jobs[v].pc = "decide"
               /\ jobs'[v].program = jobs[v].program
               /\ jobs'[v].number = jobs[v].number
      <4>1. jobs[v].number <= Len(versions) /\ Len(jobs[v].program.rules) = jobs[v].number - 1
        BY <2>h, <2>1, <3>1 DEF JobCounts
      <4>2. jobs[v].number \in Nat
        BY <2>h DEF Job
      <4> QED
        BY <1>1, <1>2, <3>1, <4>1, <4>2
    <3>2. CASE /\ jobs'[v].number \in DOMAIN versions
               /\ jobs'[v].program = versions[jobs'[v].number]
      <4>1. Len(jobs'[v].program.rules) = jobs'[v].number - 1
        BY <3>2 DEF CountingServer
      <4>2. jobs'[v].number \in 1 .. Len(versions)
        BY <1>2, <3>2
      <4> QED
        BY <1>1, <1>2, <4>1, <4>2
    <3> QED
      BY <2>0, <2>1, <3>1, <3>2 DEF Reads
  <2>2. ASSUME NEW i \in DOMAIN jobs'[v].writes,
               jobs'[v].writes[i].repository = "versions"
        PROVE  /\ jobs'[v].writes[i].key <= Len(versions') + 1
               /\ Len(jobs'[v].writes[i].value.rules) = jobs'[v].writes[i].key - 1
    <3> DEFINE write == jobs'[v].writes[i]
    <3>0. write \in PendingWrite
      BY <2>h DEF Job
    <3>k. write.key \in Nat
      BY <2>2, <3>0, WriteParts
    <3>1. CASE \E j \in DOMAIN jobs[v].writes : write = jobs[v].writes[j]
      <4>1. write.key <= Len(versions) + 1 /\ Len(write.value.rules) = write.key - 1
        BY <2>2, <2>h, <3>1 DEF JobCounts
      <4> QED
        BY <1>1, <1>2, <3>k, <4>1
    <3>2. CASE jobs[v].pc = "decide" /\ Justified(v, write)
      <4>1. PICK e \in Episode :
                /\ rule_candidates[e] # None
                /\ write.value = ConfirmRuleCandidate(jobs[v].program, rule_candidates[e])
        BY <2>2, <3>2 DEF Justified
      <4>2. write.key = jobs[v].number + 1
        BY <2>2, <3>2 DEF Justified
      <4>3. /\ jobs[v].program \in AgentProgram /\ rule_candidates[e] \in RuleCandidate
            /\ jobs[v].number \in Nat
        BY <2>h, <3>2, <4>1 DEF JobReady, TypeOK, Job
      <4>4. jobs[v].number <= Len(versions) /\ Len(jobs[v].program.rules) = jobs[v].number - 1
        BY <2>h, <3>2, <4>2 DEF JobCounts
      <4>5. write.value.rules = Append(jobs[v].program.rules, RuleOf(rule_candidates[e]))
        BY <4>1, <4>3, ConfirmedProgramType
      <4>6. jobs[v].program.rules \in Seq(AgentRule)
        BY <4>3 DEF AgentProgram
      <4>7. Len(write.value.rules) = Len(jobs[v].program.rules) + 1
        BY <4>5, <4>6
      <4> QED
        BY <1>1, <1>2, <4>2, <4>3, <4>4, <4>7
    <3> QED
      BY <2>0, <2>2, <3>1, <3>2 DEF OwesJustified
  <2> QED
    BY <2>1, <2>2 DEF JobCounts
<1> QED
  BY <1>1, <1>3 DEF CountingServer

\* Whatever turns overlap, version n holds the rules of n - 1 confirmations and no
\* save leaves a gap in the numbers.
THEOREM VersionsNumberedByRules == Spec => []VersionNumbersCountRules
<1>1. CountingServer => VersionNumbersCountRules
  BY DEF CountingServer, VersionNumbersCountRules, Owed, JobCounts
<1>2. TypeOK /\ CountingServer /\ [Next]_vars => CountingServer'
  BY CountStep
<1> QED
  BY <1>1, <1>2, CountInit, ServerTypeInvariant, PTL DEF Spec

\* Whatever is confirmed while a task is decided, no plan that runs holds a step
\* that waits for the user.
THEOREM PlansSilentWhateverOverlaps == Spec => []NoPlanAwaitsUser
<1>1. Init => NoPlanAwaitsUser
  BY DEF Init, Idle, NoPlanAwaitsUser
<1>2. ASSUME TypeOK, NoPlanAwaitsUser, [Next]_vars PROVE NoPlanAwaitsUser'
  <2>1. \A v \in Worker : Ran(v)
    BY <1>2, StepMoves DEF Moves
  <2> QED
    BY <1>2, <2>1 DEF Ran, Silent, NoPlanAwaitsUser
<1>3. TypeOK /\ NoPlanAwaitsUser /\ [Next]_vars => NoPlanAwaitsUser'
  BY <1>2
<1> QED
  BY <1>1, <1>3, ServerTypeInvariant, PTL DEF Spec

=============================================================================
