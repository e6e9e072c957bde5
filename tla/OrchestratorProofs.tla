------------------------- MODULE OrchestratorProofs -------------------------
(***************************************************************************)
(* Theorems about Orchestrator, for every set of episodes, texts and       *)
(* intakes, and every bound: its invariants, and that it refines Review    *)
(* under its own mapping.                                                  *)
(***************************************************************************)
EXTENDS Orchestrator, ProgramLemmas, SequenceTheorems

(***************************************************************************)
(* Type correctness.                                                       *)
(***************************************************************************)

\* An item of an intake the classifier may return is a message item.
LEMMA IntakeItem ==
    ASSUME NEW intake \in Intakes, NEW i \in DOMAIN intake.items
    PROVE  intake.items[i] \in MessageItem
<1>1. intake \in IntakeResult
  BY IntakesAssumption
<1>2. intake.items \in Seq(MessageItem)
  BY <1>1 DEF IntakeResult
<1> QED
  BY <1>2

\* The stored program is one whenever an episode exists.
LEMMA ProgramType ==
    ASSUME TypeOK, NEW e \in Episode, state[e] # None
    PROVE  versions \in Seq(AgentProgram) /\ versions # << >> /\ Program \in AgentProgram
BY CurrentProgramType DEF TypeOK, Program

\* The empty repositories are well typed.
LEMMA TypeInit == Init => TypeOK
BY DEF Init, TypeOK, Response

\* The step lemmas below are split the way Next is.
LEMMA TypeRequest ==
    ASSUME TypeOK, GetCurrentProgram \/ \E e \in Episode : CreateEpisode(e)
    PROVE  TypeOK'
<1>1. versions' \in Seq(AgentProgram) /\ versions' # << >>
  BY InitialVersionType DEF TypeOK, GetCurrentProgram, CreateEpisode
<1>2. CASE GetCurrentProgram
  BY <1>1, <1>2 DEF TypeOK, GetCurrentProgram, Reply, Response, episodes
<1>3. ASSUME NEW e \in Episode, CreateEpisode(e) PROVE TypeOK'
  <2>1. state' \in [Episode -> EpisodeState \cup {None}]
    BY <1>3 DEF TypeOK, CreateEpisode, EpisodeState
  <2> QED
    BY <1>1, <1>3, <2>1 DEF TypeOK, CreateEpisode, Reply, Response
<1> QED
  BY <1>2, <1>3

\* Every exact-command turn keeps the types.
LEMMA TypeCommand ==
    ASSUME TypeOK, NEW e \in Episode, CommandTurn(e)
    PROVE  TypeOK'
<1> USE DEF TypeOK, Reply, Response, EpisodeState
<1>0. state[e] # None /\ versions # << >>
  BY DEF CommandTurn, Cancel, ConfirmUnderstanding, ConfirmUnderstandingRaises,
         RejectUnderstanding, ConfirmRule, RejectRule, ConfirmSwitch, RejectSwitch,
         Receives
<1>1. CASE Cancel(e)
  BY <1>0, <1>1 DEF Cancel
<1>2. CASE ConfirmUnderstanding(e)
  <2>1. turn'.response \in Response
    <3>1. CASE understandings[e] = None
      BY <1>2, <3>1 DEF ConfirmUnderstanding
    <3>2. CASE understandings[e] # None
      <4>1. \E result \in Executions(understandings[e], Program, FALSE) :
                Reply(e, "understanding_confirmed", result)
        BY <1>2, <3>2, Zenon DEF ConfirmUnderstanding
      <4>2. PICK result : Reply(e, "understanding_confirmed", result)
        BY <4>1, Zenon
      <4> QED
        BY <4>2
    <3> QED
      BY <3>1, <3>2
  <2>2. /\ understandings' = [understandings EXCEPT ![e] = None]
        /\ state' = [state EXCEPT ![e] = "open"]
        /\ UNCHANGED <<fallback_count, rule_candidates, deferred, versions,
                       unknown_utterances>>
    BY <1>2 DEF ConfirmUnderstanding
  <2> HIDE DEF Response
  <2> QED
    BY <1>0, <2>1, <2>2
<1>3. CASE ConfirmUnderstandingRaises(e)
  BY <1>0, <1>3 DEF ConfirmUnderstandingRaises, episodes
<1>4. CASE RejectUnderstanding(e)
  BY <1>0, <1>4 DEF RejectUnderstanding
<1>5. CASE ConfirmRule(e)
  <2>1. versions' \in Seq(AgentProgram) /\ versions' # << >>
    <3>1. CASE rule_candidates[e] = None
      BY <1>0, <1>5, <3>1 DEF ConfirmRule
    <3>2. CASE rule_candidates[e] # None
      <4> DEFINE program == ConfirmRuleCandidate(Program, rule_candidates[e])
      <4>1. program \in AgentProgram
        BY <1>0, <3>2, ProgramType, ConfirmedProgramType
      <4>2. versions' = Append(versions, program)
        BY <1>5, <3>2, <4>1, SaveNext DEF ConfirmRule
      <4> HIDE DEF program
      <4> QED
        BY <4>1, <4>2
    <3> QED
      BY <3>1, <3>2
  <2>2. UNCHANGED <<fallback_count, understandings, deferred, unknown_utterances>>
    BY <1>5 DEF ConfirmRule
  <2>3. rule_candidates' \in [Episode -> RuleCandidate \cup {None}]
    BY <1>5 DEF ConfirmRule
  <2>4. state' \in [Episode -> EpisodeState \cup {None}]
    BY <1>5 DEF ConfirmRule
  <2>5. turn'.response \in Response
    BY <1>5 DEF ConfirmRule
  <2> QED
    BY <2>1, <2>2, <2>3, <2>4, <2>5
<1>6. CASE RejectRule(e)
  BY <1>0, <1>6 DEF RejectRule
<1>7. CASE ConfirmSwitch(e)
  BY <1>0, <1>7 DEF ConfirmSwitch
<1>8. CASE RejectSwitch(e)
  BY <1>0, <1>8 DEF RejectSwitch, ReviewStates
<1> QED
  BY <1>1, <1>2, <1>3, <1>4, <1>5, <1>6, <1>7, <1>8 DEF CommandTurn

\* Every task turn keeps the types.
LEMMA TypeTask ==
    ASSUME TypeOK, NEW e \in Episode, NEW intake \in Intakes, NEW goal \in Text,
           TaskTurn(e, intake, goal)
    PROVE  TypeOK'
<1> USE DEF TypeOK, Reply, Response, EpisodeState, ResetFallbackCount
<1>0. state[e] # None /\ versions # << >>
  BY DEF TaskTurn, ClarifyTask, ProposeUnderstanding, ExecuteTask, ExecuteTaskRaises,
         TaskGoal, Routed
<1>1. CASE ClarifyTask(e, intake, goal)
  BY <1>0, <1>1 DEF ClarifyTask
<1>2. CASE ProposeUnderstanding(e, intake, goal)
  BY <1>0, <1>2 DEF ProposeUnderstanding
<1>3. CASE ExecuteTask(e, intake, goal)
  BY <1>0, <1>3 DEF ExecuteTask
<1>4. CASE ExecuteTaskRaises(e, intake, goal)
  BY <1>0, <1>4 DEF ExecuteTaskRaises, episodes
<1> QED
  BY <1>1, <1>2, <1>3, <1>4 DEF TaskTurn

\* Every semantic turn keeps the types.
LEMMA TypeSemantic ==
    ASSUME TypeOK, NEW e \in Episode, NEW intake \in Intakes, SemanticTurn(e, intake)
    PROVE  TypeOK'
<1> USE DEF TypeOK, Reply, Response, EpisodeState, ResetFallbackCount
<1>1. CASE Fallback(e, intake)
  <2>0. state[e] # None /\ versions # << >>
    BY <1>1 DEF Fallback, Routed
  <2>1. fallback_count' \in [Episode -> Nat]
    BY <1>1 DEF Fallback
  <2>2. [reason |-> Reason(intake), fallback_count |-> fallback_count'[e]] \in Utterance
    BY <2>1 DEF Utterance, Reason
  <2>3. unknown_utterances' \in [Episode -> Seq(Utterance)]
    BY <1>1, <2>2 DEF Fallback
  <2>4. FallbackResponse(fallback_count'[e]) \in Response
    BY DEF FallbackResponse
  <2> QED
    BY <1>1, <2>0, <2>1, <2>3, <2>4 DEF Fallback
<1>2. CASE RequestSwitch(e, intake)
  <2>1. state[e] # None /\ state[e] \in ReviewStates /\ versions # << >>
    BY <1>2 DEF RequestSwitch, Routed, SemanticRoute, ShouldRequestSwitch
  <2> QED
    BY <1>2, <2>1 DEF RequestSwitch
<1>3. CASE ProposeRule(e, intake)
  <2>0. state[e] # None /\ versions # << >>
    BY <1>3 DEF ProposeRule, Routed
  <2>1. PICK i \in DOMAIN intake.items :
            rule_candidates' = [rule_candidates EXCEPT
                                   ![e] = CreateRuleCandidate(e, intake.items[i])]
    BY <1>3 DEF ProposeRule, FirstOfType
  <2>2. CreateRuleCandidate(e, intake.items[i]) \in RuleCandidate
    BY IntakeItem, CandidateType
  <2>3. rule_candidates' \in [Episode -> RuleCandidate \cup {None}]
    BY <2>1, <2>2
  <2> QED
    BY <1>3, <2>0, <2>3 DEF ProposeRule
<1>4. CASE Answer(e, intake)
  <2>0. state[e] # None /\ versions # << >>
    BY <1>4 DEF Answer, Routed
  <2> QED
    BY <1>4, <2>0 DEF Answer
<1>5. CASE \E goal \in Text : TaskTurn(e, intake, goal)
  BY <1>5, TypeTask
<1> QED
  BY <1>1, <1>2, <1>3, <1>4, <1>5 DEF SemanticTurn

\* Every step keeps the types.
LEMMA TypeStep == TypeOK /\ [Next]_vars => TypeOK'
<1>1. CASE UNCHANGED vars
  BY <1>1 DEF vars, TypeOK
<1>2. ASSUME TypeOK, Next PROVE TypeOK'
  BY <1>2, TypeRequest, TypeCommand, TypeSemantic DEF Next
<1> QED
  BY <1>1, <1>2

\* Every repository and every answer is well typed in every state, and a program
\* version exists as soon as an episode does.
THEOREM TypeInvariant == Spec => []TypeOK
<1> QED
  BY TypeInit, TypeStep, PTL DEF Spec

(***************************************************************************)
(* What is pending is there, and what is cancelled is gone.                *)
(***************************************************************************)

\* Both invariants speak of one episode's repositories only.
PendingVars == <<state, rule_candidates, understandings, deferred>>

\* Nothing is pending in the empty repositories.
LEMMA PendingInit == Init => PendingBacked /\ CancelledIsClean
<1> SUFFICES ASSUME Init PROVE PendingBacked /\ CancelledIsClean
  OBVIOUS
<1>1. \A e \in Episode : state[e] \notin EpisodeState
  BY NoneAssumption DEF Init
<1> QED
  BY <1>1 DEF PendingBacked, CancelledIsClean, Backed, EpisodeState

\* A request that leaves those repositories alone keeps both invariants.
LEMMA PendingUnchanged ==
    ASSUME PendingBacked, CancelledIsClean, UNCHANGED PendingVars
    PROVE  PendingBacked' /\ CancelledIsClean'
BY DEF PendingBacked, CancelledIsClean, Backed, PendingVars

\* Every exact-command turn keeps both: it ends a review, or takes it up again.
LEMMA PendingCommand ==
    ASSUME TypeOK, PendingBacked, CancelledIsClean, NEW e \in Episode, CommandTurn(e)
    PROVE  PendingBacked' /\ CancelledIsClean'
<1> USE DEF TypeOK, PendingBacked, CancelledIsClean, Backed, ReviewStates
<1>1. CASE Cancel(e)
  BY <1>1 DEF Cancel
<1>2. CASE ConfirmUnderstanding(e)
  BY <1>2 DEF ConfirmUnderstanding
<1>3. CASE ConfirmUnderstandingRaises(e)
  BY <1>3, PendingUnchanged DEF ConfirmUnderstandingRaises, PendingVars, episodes
<1>4. CASE RejectUnderstanding(e)
  BY <1>4 DEF RejectUnderstanding
<1>5. CASE ConfirmRule(e)
  BY <1>5 DEF ConfirmRule
<1>6. CASE RejectRule(e)
  BY <1>6 DEF RejectRule
<1>7. CASE ConfirmSwitch(e)
  BY <1>7 DEF ConfirmSwitch
<1>8. CASE RejectSwitch(e)
  BY <1>8 DEF RejectSwitch
<1> QED
  BY <1>1, <1>2, <1>3, <1>4, <1>5, <1>6, <1>7, <1>8 DEF CommandTurn

\* Every semantic turn keeps both: it leaves a review alone, opens or defers one.
LEMMA PendingSemantic ==
    ASSUME TypeOK, PendingBacked, CancelledIsClean,
           NEW e \in Episode, NEW intake \in Intakes, SemanticTurn(e, intake)
    PROVE  PendingBacked' /\ CancelledIsClean'
<1> USE DEF TypeOK, PendingBacked, CancelledIsClean, Backed, ReviewStates
<1>1. CASE Fallback(e, intake)
  BY <1>1, PendingUnchanged DEF Fallback, PendingVars
<1>2. CASE RequestSwitch(e, intake)
  <2>1. state[e] \in ReviewStates /\ state[e] # None
    BY <1>2 DEF RequestSwitch, Routed, SemanticRoute, ShouldRequestSwitch
  <2> QED
    BY <1>2, <2>1 DEF RequestSwitch
<1>3. CASE ProposeRule(e, intake)
  <2>1. PICK i \in DOMAIN intake.items :
            rule_candidates' = [rule_candidates EXCEPT
                                   ![e] = CreateRuleCandidate(e, intake.items[i])]
    BY <1>3 DEF ProposeRule, FirstOfType
  <2>2. CreateRuleCandidate(e, intake.items[i]) # None
    BY IntakeItem, CandidateType, NoneAssumption
  <2> QED
    BY <1>3, <2>1, <2>2 DEF ProposeRule
<1>4. CASE Answer(e, intake)
  BY <1>4, PendingUnchanged DEF Answer, PendingVars
<1>5. ASSUME NEW goal \in Text, TaskTurn(e, intake, goal)
      PROVE  PendingBacked' /\ CancelledIsClean'
  <2>1. CASE ProposeUnderstanding(e, intake, goal)
    <3>1. goal # None
      BY NoneAssumption
    <3> QED
      BY <2>1, <3>1 DEF ProposeUnderstanding
  <2>2. CASE ~ProposeUnderstanding(e, intake, goal)
    BY <1>5, <2>2, PendingUnchanged
       DEF TaskTurn, ClarifyTask, ExecuteTask, ExecuteTaskRaises, PendingVars, episodes
  <2> QED
    BY <2>1, <2>2
<1> QED
  BY <1>1, <1>2, <1>3, <1>4, <1>5 DEF SemanticTurn

\* Every step keeps both.
LEMMA PendingStep ==
    TypeOK /\ PendingBacked /\ CancelledIsClean /\ [Next]_vars
        => PendingBacked' /\ CancelledIsClean'
<1> SUFFICES ASSUME TypeOK, PendingBacked, CancelledIsClean, [Next]_vars
             PROVE  PendingBacked' /\ CancelledIsClean'
  OBVIOUS
<1>1. CASE UNCHANGED vars
  BY <1>1, PendingUnchanged DEF vars, PendingVars
<1>2. CASE GetCurrentProgram
  BY <1>2, PendingUnchanged DEF GetCurrentProgram, PendingVars, episodes
<1>3. ASSUME NEW e \in Episode, CreateEpisode(e)
      PROVE  PendingBacked' /\ CancelledIsClean'
  BY <1>3 DEF CreateEpisode, TypeOK, PendingBacked, CancelledIsClean, Backed
<1> QED
  BY <1>1, <1>2, <1>3, PendingCommand, PendingSemantic DEF Next

\* The inductive invariant behind the two theorems below.
LEMMA AlwaysBacked == Spec => [](TypeOK /\ PendingBacked /\ CancelledIsClean)
<1>1. Init => TypeOK /\ PendingBacked /\ CancelledIsClean
  BY TypeInit, PendingInit
<1>2. TypeOK /\ PendingBacked /\ CancelledIsClean /\ [Next]_vars
        => TypeOK' /\ PendingBacked' /\ CancelledIsClean'
  BY TypeStep, PendingStep
<1> QED
  BY <1>1, <1>2, PTL DEF Spec

\* In every state of every behaviour an episode that waits for an answer has the
\* object the answer is about, so no confirmation meets an empty repository.
THEOREM PendingObjectsPresent == Spec => []PendingBacked
BY AlwaysBacked, PTL

\* A cancelled episode never has anything pending.
THEOREM CancelledEpisodesClean == Spec => []CancelledIsClean
BY AlwaysBacked, PTL

(***************************************************************************)
(* Every stored program tells the truth about its rules.                   *)
(***************************************************************************)

\* The strengthening RulesHonest needs: what waits for confirmation is honest.
CandidatesHonest ==
    \A e \in Episode :
        rule_candidates[e] # None => HonestCandidate(rule_candidates[e])

\* Every stored candidate has the mode its key derives, after every step.
LEMMA CandidatesStep ==
    ASSUME TypeOK, CandidatesHonest, [Next]_vars
    PROVE  CandidatesHonest'
<1>1. CASE UNCHANGED rule_candidates
  BY <1>1 DEF CandidatesHonest, HonestCandidate
<1>2. ASSUME NEW e \in Episode,
             rule_candidates' = [rule_candidates EXCEPT ![e] = None]
      PROVE  CandidatesHonest'
  BY <1>2 DEF CandidatesHonest, HonestCandidate, TypeOK
<1>3. ASSUME NEW e \in Episode, NEW intake \in Intakes, ProposeRule(e, intake)
      PROVE  CandidatesHonest'
  <2>1. PICK i \in DOMAIN intake.items :
            rule_candidates' = [rule_candidates EXCEPT
                                   ![e] = CreateRuleCandidate(e, intake.items[i])]
    BY <1>3 DEF ProposeRule, FirstOfType
  <2>2. HonestCandidate(CreateRuleCandidate(e, intake.items[i]))
    BY IntakeItem, CandidateType
  <2> QED
    BY <2>1, <2>2 DEF CandidatesHonest, HonestCandidate, TypeOK
<1>4. CASE UNCHANGED vars
  BY <1>1, <1>4 DEF vars
<1>5. CASE GetCurrentProgram
  BY <1>1, <1>5 DEF GetCurrentProgram
<1>6. ASSUME NEW e \in Episode, CreateEpisode(e) PROVE CandidatesHonest'
  BY <1>1, <1>6 DEF CreateEpisode
<1>7. ASSUME NEW e \in Episode, CommandTurn(e) PROVE CandidatesHonest'
  <2>1. \/ UNCHANGED rule_candidates
        \/ rule_candidates' = [rule_candidates EXCEPT ![e] = None]
    BY <1>7 DEF CommandTurn, Cancel, ConfirmUnderstanding, ConfirmUnderstandingRaises,
                RejectUnderstanding, ConfirmRule, RejectRule, ConfirmSwitch, RejectSwitch
  <2> QED
    BY <1>1, <1>2, <2>1
<1>8. ASSUME NEW e \in Episode, NEW intake \in Intakes, SemanticTurn(e, intake)
      PROVE  CandidatesHonest'
  <2>1. UNCHANGED rule_candidates \/ ProposeRule(e, intake)
    BY <1>8 DEF SemanticTurn, Fallback, RequestSwitch, Answer, TaskTurn, ClarifyTask,
                ProposeUnderstanding, ExecuteTask, ExecuteTaskRaises
  <2> QED
    BY <1>1, <1>3, <2>1
<1> QED
  BY <1>4, <1>5, <1>6, <1>7, <1>8 DEF Next

\* The version repository changes only by its first version or by a confirmation.
LEMMA VersionsStep ==
    ASSUME [Next]_vars
    PROVE  \/ UNCHANGED versions
           \/ versions' = CreateInitialVersion(versions)
           \/ \E e \in Episode : ConfirmRule(e) /\ rule_candidates[e] # None
<1>1. CASE UNCHANGED vars
  BY <1>1 DEF vars
<1>2. CASE GetCurrentProgram
  BY <1>2 DEF GetCurrentProgram
<1>3. ASSUME NEW e \in Episode, CreateEpisode(e)
      PROVE  versions' = CreateInitialVersion(versions)
  BY <1>3 DEF CreateEpisode
<1>4. ASSUME NEW e \in Episode, CommandTurn(e)
      PROVE  UNCHANGED versions \/ (ConfirmRule(e) /\ rule_candidates[e] # None)
  <2>1. ASSUME ConfirmRule(e), rule_candidates[e] = None PROVE UNCHANGED versions
    BY <2>1 DEF ConfirmRule
  <2> QED
    BY <1>4, <2>1
       DEF CommandTurn, Cancel, ConfirmUnderstanding, ConfirmUnderstandingRaises,
           RejectUnderstanding, RejectRule, ConfirmSwitch, RejectSwitch
<1>5. ASSUME NEW e \in Episode, NEW intake \in Intakes, SemanticTurn(e, intake)
      PROVE  UNCHANGED versions
  BY <1>5 DEF SemanticTurn, Fallback, RequestSwitch, ProposeRule, Answer, TaskTurn,
              ClarifyTask, ProposeUnderstanding, ExecuteTask, ExecuteTaskRaises
<1> QED
  BY <1>1, <1>2, <1>3, <1>4, <1>5 DEF Next

\* What a confirmation saves.
LEMMA ConfirmSaves ==
    ASSUME TypeOK, NEW e \in Episode, ConfirmRule(e), rule_candidates[e] # None
    PROVE  /\ versions # << >>
           /\ Program \in AgentProgram
           /\ rule_candidates[e] \in RuleCandidate
           /\ ConfirmRuleCandidate(Program, rule_candidates[e]) \in AgentProgram
           /\ versions' = Append(versions,
                               ConfirmRuleCandidate(Program, rule_candidates[e]))
<1>1. state[e] # None
  BY DEF ConfirmRule, Receives
<1>2. versions # << >> /\ Program \in AgentProgram /\ versions \in Seq(AgentProgram)
  BY <1>1, ProgramType
<1>3. rule_candidates[e] \in RuleCandidate
  BY DEF TypeOK
<1>4. ConfirmRuleCandidate(Program, rule_candidates[e]) \in AgentProgram
  BY <1>2, <1>3, ConfirmedProgramType
<1>5. versions' = SaveVersion(versions, NextVersionNumber(versions),
                              ConfirmRuleCandidate(Program, rule_candidates[e]))
  BY DEF ConfirmRule
<1> QED
  BY <1>2, <1>3, <1>4, <1>5, SaveNext

\* Every step keeps the stored programs honest, given honest candidates.
LEMMA HonestStep ==
    ASSUME TypeOK, CandidatesHonest, RulesHonest, [Next]_vars
    PROVE  RulesHonest'
<1>1. CASE UNCHANGED versions
  BY <1>1 DEF RulesHonest
<1>2. CASE versions' = CreateInitialVersion(versions)
  <2>1. CASE versions = << >>
    <3>1. versions' = <<DefaultProgram>>
      BY <1>2, <2>1, InitialVersion DEF TypeOK
    <3>2. \A n \in DOMAIN versions' : versions'[n] = DefaultProgram
      BY <3>1
    <3> QED
      BY <3>2, DefaultProgramHonest DEF RulesHonest
  <2>2. CASE versions # << >>
    BY <1>2, <2>2, <1>1, InitialVersion DEF TypeOK
  <2> QED
    BY <2>1, <2>2
<1>3. ASSUME NEW e \in Episode, ConfirmRule(e), rule_candidates[e] # None
      PROVE  RulesHonest'
  <2> DEFINE program == ConfirmRuleCandidate(Program, rule_candidates[e])
  <2>1. /\ versions # << >> /\ versions \in Seq(AgentProgram)
        /\ program \in AgentProgram
        /\ versions' = Append(versions, program)
    BY <1>3, ConfirmSaves DEF TypeOK
  <2>2. HonestProgram(Program)
    <3>1. Len(versions) \in DOMAIN versions
      BY <2>1
    <3> QED
      BY <3>1 DEF RulesHonest, Program, CurrentProgram
  <2>3. HonestProgram(program)
    BY <1>3, <2>2, ConfirmSaves, ConfirmKeepsHonest DEF CandidatesHonest
  <2> HIDE DEF program
  <2>4. \A n \in DOMAIN versions' :
           (n \in DOMAIN versions /\ versions'[n] = versions[n]) \/ versions'[n] = program
    BY <2>1
  <2> QED
    BY <2>3, <2>4 DEF RulesHonest
<1> QED
  BY <1>1, <1>2, <1>3, VersionsStep

\* In every stored version the query lists every rule once and the policy the rule
\* engine reads is on exactly when some listed rule is enforced: no rule is ever
\* claimed to be enforced that is not, and none is enforced unlisted.
THEOREM ProgramsHonest == Spec => []RulesHonest
<1>1. Init => CandidatesHonest /\ RulesHonest
  BY DEF Init, CandidatesHonest, RulesHonest
<1>2. TypeOK /\ CandidatesHonest /\ RulesHonest /\ [Next]_vars
        => CandidatesHonest' /\ RulesHonest'
  BY CandidatesStep, HonestStep
<1> QED
  BY <1>1, <1>2, TypeInvariant, PTL DEF Spec

(***************************************************************************)
(* Versions are append-only.                                               *)
(***************************************************************************)

\* Every step adds at most one version, with one rule more than the last.
LEMMA AppendStep ==
    ASSUME TypeOK, [Next]_vars
    PROVE  AppendsVersion
<1>0. versions \in Seq(AgentProgram)
  BY DEF TypeOK
<1>1. CASE UNCHANGED versions
  BY <1>0, <1>1 DEF AppendsVersion
<1>2. CASE versions' = CreateInitialVersion(versions)
  <2>1. CASE versions = << >>
    <3>1. versions' = <<DefaultProgram>>
      BY <1>0, <1>2, <2>1, InitialVersion
    <3> QED
      BY <2>1, <3>1 DEF AppendsVersion
  <2>2. CASE versions # << >>
    BY <1>0, <1>1, <1>2, <2>2, InitialVersion
  <2> QED
    BY <2>1, <2>2
<1>3. ASSUME NEW e \in Episode, ConfirmRule(e), rule_candidates[e] # None
      PROVE  AppendsVersion
  <2> DEFINE program == ConfirmRuleCandidate(Program, rule_candidates[e])
             rule == RuleOf(rule_candidates[e])
  <2>1. /\ program \in AgentProgram
        /\ versions' = Append(versions, program)
        /\ program.rules = Append(Program.rules, rule)
        /\ rule \in AgentRule
    BY <1>3, ConfirmSaves, ConfirmedProgramType, RuleType
  <2> HIDE DEF program, rule
  <2>2. CurrentProgram(versions') = program
    BY <1>0, <2>1 DEF CurrentProgram
  <2>3. /\ Len(versions') <= Len(versions) + 1
        /\ \A n \in DOMAIN versions : n \in DOMAIN versions' /\ versions'[n] = versions[n]
    BY <1>0, <2>1
  <2> QED
    BY <2>1, <2>2, <2>3 DEF AppendsVersion
<1> QED
  BY <1>1, <1>2, <1>3, VersionsStep

\* No behaviour changes or drops a saved version, and each new one keeps every rule
\* of the one before it and adds exactly one.
THEOREM VersionsOnlyAppended == Spec => VersionsAppendOnly
<1>1. TypeOK /\ [Next]_vars => [AppendsVersion]_vars
  BY AppendStep
<1> QED
  BY <1>1, TypeInvariant, PTL DEF Spec, VersionsAppendOnly

(***************************************************************************)
(* What runs.                                                              *)
(***************************************************************************)

\* The two ways a task comes to run, and what its result then says.
LEMMA RunFacts ==
    ASSUME TypeOK, [Next]_vars, turn' # turn, turn'.runtime # None
    PROVE  /\ \A i \in DOMAIN turn'.runtime.runtime_plan :
                 ~turn'.runtime.runtime_plan[i].requires_confirmation
           /\ \/ \E e \in Episode : /\ ConfirmUnderstanding(e)
                                    /\ understandings[e] # None
                                    /\ turn'.runtime.goal = understandings[e]
              \/ \E e \in Episode, intake \in Intakes, goal \in Text :
                    /\ ExecuteTask(e, intake, goal)
                    /\ turn'.runtime.goal = goal
<1>1. ASSUME NEW e \in Episode, ConfirmUnderstanding(e)
      PROVE  /\ understandings[e] # None
             /\ turn'.runtime.goal = understandings[e]
             /\ \A i \in DOMAIN turn'.runtime.runtime_plan :
                   ~turn'.runtime.runtime_plan[i].requires_confirmation
  <2>1. understandings[e] # None
    <3>1. ASSUME understandings[e] = None
          PROVE  Reply(e, "missing_understanding", None)
      BY <1>1, <3>1, Zenon DEF ConfirmUnderstanding
    <3> QED
      BY <3>1 DEF Reply
  <2>2. \E result \in Executions(understandings[e], Program, FALSE) :
            Reply(e, "understanding_confirmed", result)
    BY <1>1, <2>1, Zenon DEF ConfirmUnderstanding
  <2>3. PICK result \in Executions(understandings[e], Program, FALSE) :
            Reply(e, "understanding_confirmed", result)
    BY <2>2, Zenon
  <2>4. /\ result.goal = understandings[e]
        /\ \A i \in DOMAIN result.runtime_plan :
              ~result.runtime_plan[i].requires_confirmation
    <3> DEFINE include == FALSE
    <3>1. result \in Executions(understandings[e], Program, include) /\ ~include
      BY <2>3
    <3> HIDE DEF include
    <3> QED
      BY <3>1, SilentExecution
  <2>5. turn'.runtime = result
    BY <2>3 DEF Reply
  <2> QED
    BY <2>1, <2>4, <2>5
<1>2. ASSUME NEW e \in Episode, NEW intake \in Intakes, NEW goal \in Text,
             ExecuteTask(e, intake, goal)
      PROVE  /\ turn'.runtime.goal = goal
             /\ \A i \in DOMAIN turn'.runtime.runtime_plan :
                   ~turn'.runtime.runtime_plan[i].requires_confirmation
  <2>1. PICK result \in Executions(goal, Program, TRUE) : Reply(e, "executed", result)
    BY <1>2, Zenon DEF ExecuteTask
  <2>2. ~Program.show_understanding_before_execution
    BY <1>2 DEF ExecuteTask
  <2>3. /\ result.goal = goal
        /\ \A i \in DOMAIN result.runtime_plan :
              ~result.runtime_plan[i].requires_confirmation
    <3> DEFINE include == TRUE
    <3>1. result \in Executions(goal, Program, include)
      BY <2>1
    <3> HIDE DEF include
    <3> QED
      BY <2>2, <3>1, SilentExecution
  <2>4. turn'.runtime = result
    BY <2>1 DEF Reply
  <2> QED
    BY <2>3, <2>4
<1>3. ASSUME GetCurrentProgram PROVE FALSE
  BY <1>3 DEF GetCurrentProgram, Reply
<1>4. ASSUME NEW e \in Episode, CreateEpisode(e) PROVE FALSE
  BY <1>4 DEF CreateEpisode, Reply
<1>5. ASSUME NEW e \in Episode, CommandTurn(e) PROVE ConfirmUnderstanding(e)
  BY <1>5 DEF CommandTurn, Cancel, ConfirmUnderstandingRaises, RejectUnderstanding,
              ConfirmRule, RejectRule, ConfirmSwitch, RejectSwitch, Reply
<1>6. ASSUME NEW e \in Episode, NEW intake \in Intakes, SemanticTurn(e, intake)
      PROVE  \E goal \in Text : ExecuteTask(e, intake, goal)
  BY <1>6 DEF SemanticTurn, Fallback, RequestSwitch, ProposeRule, Answer, TaskTurn,
              ClarifyTask, ProposeUnderstanding, ExecuteTaskRaises, Reply
<1> QED
  BY <1>1, <1>2, <1>3, <1>4, <1>5, <1>6 DEF Next, vars

\* What changes a stored understanding: its removal, or a proposal of a goal the
\* runtime finds clear.
LEMMA UnderstandingsStep ==
    ASSUME TypeOK, [Next]_vars
    PROVE  \/ UNCHANGED understandings
           \/ \E e \in Episode : understandings' = [understandings EXCEPT ![e] = None]
           \/ \E e \in Episode, goal \in Text \ UnclearGoals :
                 understandings' = [understandings EXCEPT ![e] = goal]
<1>1. CASE UNCHANGED vars
  BY <1>1 DEF vars
<1>2. CASE GetCurrentProgram
  BY <1>2 DEF GetCurrentProgram
<1>3. ASSUME NEW e \in Episode, CreateEpisode(e) PROVE UNCHANGED understandings
  BY <1>3 DEF CreateEpisode
<1>4. ASSUME NEW e \in Episode, CommandTurn(e)
      PROVE  \/ UNCHANGED understandings
             \/ understandings' = [understandings EXCEPT ![e] = None]
  BY <1>4, Zenon
     DEF CommandTurn, Cancel, ConfirmUnderstanding, ConfirmUnderstandingRaises,
         RejectUnderstanding, ConfirmRule, RejectRule, ConfirmSwitch, RejectSwitch
<1>5. ASSUME NEW e \in Episode, NEW intake \in Intakes, SemanticTurn(e, intake)
      PROVE  \/ UNCHANGED understandings
             \/ \E goal \in Text \ UnclearGoals :
                   understandings' = [understandings EXCEPT ![e] = goal]
  <2>1. ASSUME NEW goal \in Text, TaskTurn(e, intake, goal)
        PROVE  \/ UNCHANGED understandings
               \/ /\ goal \notin UnclearGoals
                  /\ understandings' = [understandings EXCEPT ![e] = goal]
    BY <2>1 DEF TaskTurn, ClarifyTask, ProposeUnderstanding, ExecuteTask,
                ExecuteTaskRaises, RequiresClarification
  <2> QED
    BY <1>5, <2>1 DEF SemanticTurn, Fallback, RequestSwitch, ProposeRule, Answer
<1> QED
  BY <1>1, <1>2, <1>3, <1>4, <1>5 DEF Next

\* Every step keeps vague tasks out of the repositories and of the runtime, and
\* executes only plans that do not wait.
LEMMA RunsStep ==
    ASSUME TypeOK, NothingUnclearRuns, NoPlanAwaitsUser, [Next]_vars
    PROVE  NothingUnclearRuns' /\ NoPlanAwaitsUser'
<1>1. None \notin UnclearGoals
  BY GoalAssumption, NoneAssumption
<1>2. \A e \in Episode : understandings'[e] \notin UnclearGoals
  <2> USE DEF TypeOK, NothingUnclearRuns
  <2>1. CASE UNCHANGED understandings
    BY <2>1
  <2>2. ASSUME NEW e \in Episode, understandings' = [understandings EXCEPT ![e] = None]
        PROVE  \A f \in Episode : understandings'[f] \notin UnclearGoals
    BY <1>1, <2>2
  <2>3. ASSUME NEW e \in Episode, NEW goal \in Text \ UnclearGoals,
               understandings' = [understandings EXCEPT ![e] = goal]
        PROVE  \A f \in Episode : understandings'[f] \notin UnclearGoals
    BY <2>3
  <2> QED
    BY <2>1, <2>2, <2>3, UnderstandingsStep
<1>3. CASE turn' = turn \/ turn'.runtime = None
  BY <1>2, <1>3 DEF NothingUnclearRuns, NoPlanAwaitsUser
<1>4. CASE turn' # turn /\ turn'.runtime # None
  <2>1. turn'.runtime.goal \notin UnclearGoals
    <3>1. ASSUME NEW e \in Episode, turn'.runtime.goal = understandings[e]
          PROVE  turn'.runtime.goal \notin UnclearGoals
      BY <3>1 DEF NothingUnclearRuns
    <3>2. ASSUME NEW e \in Episode, NEW intake \in Intakes, NEW goal \in Text,
                 ExecuteTask(e, intake, goal), turn'.runtime.goal = goal
          PROVE  turn'.runtime.goal \notin UnclearGoals
      BY <3>2 DEF ExecuteTask, RequiresClarification
    <3> QED
      BY <1>4, <3>1, <3>2, RunFacts
  <2>2. \A i \in DOMAIN turn'.runtime.runtime_plan :
           ~turn'.runtime.runtime_plan[i].requires_confirmation
    BY <1>4, RunFacts
  <2> QED
    BY <1>2, <2>1, <2>2 DEF NothingUnclearRuns, NoPlanAwaitsUser
<1> QED
  BY <1>3, <1>4

\* The inductive invariant behind the two theorems below.
LEMMA AlwaysRunsSafely == Spec => [](NothingUnclearRuns /\ NoPlanAwaitsUser)
<1>1. Init => NothingUnclearRuns /\ NoPlanAwaitsUser
  BY GoalAssumption, NoneAssumption DEF Init, NothingUnclearRuns, NoPlanAwaitsUser
<1>2. TypeOK /\ NothingUnclearRuns /\ NoPlanAwaitsUser /\ [Next]_vars
        => NothingUnclearRuns' /\ NoPlanAwaitsUser'
  BY RunsStep
<1> QED
  BY <1>1, <1>2, TypeInvariant, PTL DEF Spec

\* A task the runtime finds too vague is neither stored for review nor run, in any
\* number of turns.
THEOREM UnclearNeverRuns == Spec => []NothingUnclearRuns
BY AlwaysRunsSafely, PTL

\* No executed plan holds a step that waits for the user: the runtime, which does
\* not stop for such a step, never meets one.
THEOREM ExecutedPlansSilent == Spec => []NoPlanAwaitsUser
BY AlwaysRunsSafely, PTL

(***************************************************************************)
(* The fallback ladder.                                                    *)
(***************************************************************************)

\* The last count entries of a log are the fallbacks 1, 2, ..., count.
Climbed(log, count) ==
    /\ Len(log) - count >= 0
    /\ \A k \in 1 .. count : log[Len(log) - count + k].fallback_count = k

\* Recording a misunderstanding at the raised count climbs one level.
LEMMA ClimbStep ==
    ASSUME NEW log \in Seq(Utterance), NEW count \in Nat, Climbed(log, count),
           NEW entry \in Utterance, entry.fallback_count = count + 1
    PROVE  Climbed(Append(log, entry), count + 1)
<1> DEFINE longer == Append(log, entry)
<1>1. /\ Len(longer) = Len(log) + 1
      /\ \A i \in 1 .. Len(log) : longer[i] = log[i]
      /\ longer[Len(log) + 1] = entry
      /\ Len(log) \in Nat
  OBVIOUS
<1> HIDE DEF longer
<1>2. Len(longer) - (count + 1) = Len(log) - count /\ Len(log) - count >= 0
  BY <1>1 DEF Climbed
<1>3. ASSUME NEW k \in 1 .. (count + 1)
      PROVE  longer[Len(longer) - (count + 1) + k].fallback_count = k
  <2>1. CASE k = count + 1
    <3>1. Len(longer) - (count + 1) + k = Len(log) + 1
      BY <1>1, <2>1
    <3> QED
      BY <1>1, <2>1, <3>1
  <2>2. CASE k # count + 1
    <3>1. k \in 1 .. count /\ Len(log) - count + k \in 1 .. Len(log)
      BY <1>1, <1>2, <2>2
    <3>2. longer[Len(log) - count + k].fallback_count = k
      BY <1>1, <3>1 DEF Climbed
    <3> QED
      BY <1>2, <3>2
  <2> QED
    BY <2>1, <2>2
<1>4. Climbed(longer, count + 1)
  BY <1>2, <1>3 DEF Climbed
<1> QED
  BY <1>4 DEF longer

\* A count of zero is climbed by every log.
LEMMA ClimbNone ==
    ASSUME NEW log \in Seq(Utterance)
    PROVE  Climbed(log, 0)
BY DEF Climbed

\* FallbackLadder, said with Climbed.
LEMMA LadderIs ==
    FallbackLadder <=> \A e \in Episode : Climbed(unknown_utterances[e], fallback_count[e])
BY DEF FallbackLadder, Climbed

\* What a step does to the ladder of its episode: nothing, a reset, or one step up.
LadderKept ==
    /\ UNCHANGED <<fallback_count, unknown_utterances>>
    /\ UNCHANGED vars \/ turn'.response \notin Understood \cup Misunderstood

LadderReset(e) ==
    /\ fallback_count' = [fallback_count EXCEPT ![e] = 0]
    /\ UNCHANGED unknown_utterances
    /\ turn'.episode = e /\ turn'.response \in Understood

LadderClimbed(e, intake) == Fallback(e, intake)

\* A step records one misunderstanding, resets one count, or touches neither.
LEMMA LadderMoves ==
    ASSUME [Next]_vars
    PROVE  \/ LadderKept
           \/ \E e \in Episode : LadderReset(e)
           \/ \E e \in Episode, intake \in Intakes : LadderClimbed(e, intake)
<1> USE DEF LadderKept
<1>1. CASE UNCHANGED vars
  BY <1>1 DEF vars
<1>2. CASE GetCurrentProgram
  BY <1>2 DEF GetCurrentProgram, episodes, Reply, Understood, Misunderstood
<1>3. ASSUME NEW e \in Episode, CreateEpisode(e) PROVE LadderKept
  BY <1>3 DEF CreateEpisode, Reply, Understood, Misunderstood
<1>4. ASSUME NEW e \in Episode, CommandTurn(e) PROVE LadderKept
  <2>1. CASE ConfirmUnderstanding(e)
    <3>1. UNCHANGED <<fallback_count, unknown_utterances>>
      BY <2>1 DEF ConfirmUnderstanding
    <3>2. CASE understandings[e] = None
      <4>1. Reply(e, "missing_understanding", None)
        BY <2>1, <3>2, Zenon DEF ConfirmUnderstanding
      <4> QED
        BY <3>1, <4>1 DEF Reply, Understood, Misunderstood
    <3>3. CASE understandings[e] # None
      <4>1. PICK result : Reply(e, "understanding_confirmed", result)
        BY <2>1, <3>3, Zenon DEF ConfirmUnderstanding
      <4> QED
        BY <3>1, <4>1 DEF Reply, Understood, Misunderstood
    <3> QED
      BY <3>2, <3>3
  <2>2. CASE ~ConfirmUnderstanding(e)
    BY <1>4, <2>2
       DEF CommandTurn, Cancel, ConfirmUnderstandingRaises, RejectUnderstanding,
           ConfirmRule, RejectRule, ConfirmSwitch, RejectSwitch, episodes, Reply,
           Understood, Misunderstood
  <2> QED
    BY <2>1, <2>2
<1>5. ASSUME NEW e \in Episode, NEW intake \in Intakes, SemanticTurn(e, intake)
      PROVE  LadderKept \/ LadderReset(e) \/ LadderClimbed(e, intake)
  <2>1. ASSUME NEW goal \in Text, TaskTurn(e, intake, goal)
        PROVE  LadderKept \/ LadderReset(e)
    <3>1. CASE ClarifyTask(e, intake, goal)
      BY <3>1 DEF ClarifyTask, LadderReset, ResetFallbackCount,
           Reply, Understood
    <3>2. CASE ProposeUnderstanding(e, intake, goal)
      BY <3>2 DEF ProposeUnderstanding, LadderReset, ResetFallbackCount,
           Reply, Understood
    <3>3. CASE ExecuteTask(e, intake, goal)
      BY <3>3 DEF ExecuteTask, LadderReset, ResetFallbackCount,
           Reply, Understood
    <3>4. CASE ExecuteTaskRaises(e, intake, goal)
      BY <3>4 DEF ExecuteTaskRaises, episodes, Reply, Understood, Misunderstood
    <3> QED
      BY <2>1, <3>1, <3>2, <3>3, <3>4 DEF TaskTurn
  <2>2. CASE RequestSwitch(e, intake) \/ ProposeRule(e, intake) \/ Answer(e, intake)
    BY <2>2
       DEF RequestSwitch, ProposeRule, Answer, LadderReset, ResetFallbackCount,
           Reply, Understood
  <2> QED
    BY <1>5, <2>1, <2>2 DEF SemanticTurn, LadderClimbed
<1> QED
  BY <1>1, <1>2, <1>3, <1>4, <1>5 DEF Next

\* Every step keeps the ladder.
LEMMA LadderStep ==
    ASSUME TypeOK, FallbackLadder, [Next]_vars
    PROVE  FallbackLadder'
<1> DEFINE Logs == \A e \in Episode : Climbed(unknown_utterances[e], fallback_count[e])
<1>0. Logs
  BY LadderIs
<1> SUFFICES Logs'
  BY DEF FallbackLadder, Climbed
<1>1. CASE LadderKept
  BY <1>0, <1>1 DEF LadderKept, Climbed
<1>2. ASSUME NEW e \in Episode, LadderReset(e)
      PROVE  Logs'
  <2>1. fallback_count'[e] = 0
    BY <1>2 DEF LadderReset, TypeOK
  <2>2. ASSUME NEW f \in Episode
        PROVE  Climbed(unknown_utterances[f], fallback_count[f])'
    <3>1. CASE f = e
      BY <1>2, <2>1, <3>1 DEF LadderReset, TypeOK, Climbed
    <3>2. CASE f # e
      BY <1>0, <1>2, <3>2 DEF LadderReset, TypeOK, Climbed
    <3> QED
      BY <3>1, <3>2
  <2> QED
    BY <2>2 DEF Climbed
<1>3. ASSUME NEW e \in Episode, NEW intake \in Intakes, LadderClimbed(e, intake)
      PROVE  Logs'
  <2> DEFINE entry == [reason |-> Reason(intake), fallback_count |-> fallback_count'[e]]
  <2>1. /\ fallback_count' = [fallback_count EXCEPT ![e] = fallback_count[e] + 1]
        /\ unknown_utterances' =
              [unknown_utterances EXCEPT ![e] = Append(unknown_utterances[e], entry)]
    BY <1>3 DEF LadderClimbed, Fallback
  <2>2. fallback_count'[e] = fallback_count[e] + 1 /\ fallback_count[e] \in Nat
    BY <2>1 DEF TypeOK
  <2>3. /\ entry \in Utterance
        /\ entry.fallback_count = fallback_count[e] + 1
    BY <2>2 DEF Utterance, Reason
  <2> HIDE DEF entry
  <2>4. Climbed(Append(unknown_utterances[e], entry), fallback_count[e] + 1)
    BY <1>0, <2>2, <2>3, ClimbStep DEF TypeOK
  <2>5. ASSUME NEW f \in Episode
        PROVE  Climbed(unknown_utterances'[f], fallback_count'[f])
    <3>1. CASE f = e
      BY <2>1, <2>2, <2>4, <3>1 DEF TypeOK
    <3>2. CASE f # e
      BY <1>0, <2>1, <3>2 DEF TypeOK
    <3> QED
      BY <3>1, <3>2
  <2> QED
    BY <2>5 DEF Climbed
<1> QED
  BY <1>1, <1>2, <1>3, LadderMoves

\* The misunderstandings the count stands for are the last ones of the log, each at
\* its level.
THEOREM LadderHolds == Spec => []FallbackLadder
<1>1. Init => FallbackLadder
  BY DEF Init, FallbackLadder
<1>2. TypeOK /\ FallbackLadder /\ [Next]_vars => FallbackLadder'
  BY LadderStep
<1> QED
  BY <1>1, <1>2, TypeInvariant, PTL DEF Spec

\* A step makes the count the length of the run of misunderstood turns it leaves.
LEMMA RunStep ==
    ASSUME TypeOK, [Next]_vars, ~UNCHANGED vars, NEW e \in Episode
    PROVE  fallback_count'[e] = RunLength(e)
<1>1. CASE LadderKept
  BY <1>1 DEF LadderKept, RunLength
<1>2. ASSUME NEW f \in Episode, LadderReset(f)
      PROVE  fallback_count'[e] = RunLength(e)
  <2>1. turn'.response \notin Misunderstood
    BY <1>2 DEF LadderReset, Understood, Misunderstood
  <2> QED
    BY <1>2, <2>1 DEF LadderReset, RunLength, TypeOK
<1>3. ASSUME NEW f \in Episode, NEW intake \in Intakes, LadderClimbed(f, intake)
      PROVE  fallback_count'[e] = RunLength(e)
  <2>1. /\ fallback_count' = [fallback_count EXCEPT ![f] = fallback_count[f] + 1]
        /\ turn'.episode = f
        /\ turn'.response = FallbackResponse(fallback_count'[f])
    BY <1>3 DEF LadderClimbed, Fallback, Reply
  <2>2. turn'.response \in Misunderstood /\ turn'.response \notin Understood
    BY <2>1 DEF FallbackResponse, Understood, Misunderstood
  <2> QED
    BY <2>1, <2>2 DEF RunLength, TypeOK
<1> QED
  BY <1>1, <1>2, <1>3, LadderMoves

\* From zero on, the fallback count is the length of the current run of
\* misunderstood turns: every understood branch ends it and nothing else does.
THEOREM CountMeasuresRun == Spec => FallbackRun
<1>1. TypeOK /\ [Next]_vars => [\A e \in Episode : fallback_count'[e] = RunLength(e)]_vars
  BY RunStep
<1> QED
  BY <1>1, TypeInvariant, PTL DEF Spec, FallbackRun

(***************************************************************************)
(* The adopted rules, as the promise sees them.                            *)
(***************************************************************************)

RulesAdopted(rules) == [i \in DOMAIN rules |-> CandidateOf(rules[i])]

\* Confirming loses nothing of a candidate: it can be read back from its rule.
LEMMA CandidateOfRule ==
    /\ \A candidate \in RuleCandidate : CandidateOf(RuleOf(candidate)) = candidate
    /\ \A rule \in AgentRule : CandidateOf(rule) \in RuleCandidate
BY DEF CandidateOf, RuleOf, RuleCandidate, AgentRule

\* The adopted rules of a program are as many as its rules.
LEMMA RulesAdoptedType ==
    ASSUME NEW rules \in Seq(AgentRule)
    PROVE  /\ RulesAdopted(rules) \in Seq(RuleCandidate)
           /\ Len(RulesAdopted(rules)) = Len(rules)
           /\ \A i \in DOMAIN rules : RulesAdopted(rules)[i] = CandidateOf(rules[i])
<1>1. DOMAIN rules = 1 .. Len(rules) /\ Len(rules) \in Nat
  BY LenProperties
<1>2. \A i \in 1 .. Len(rules) : CandidateOf(rules[i]) \in RuleCandidate
  BY ElementOfSeq, CandidateOfRule
<1>3. RulesAdopted(rules) \in [1 .. Len(rules) -> RuleCandidate]
  BY <1>1, <1>2 DEF RulesAdopted
<1>4. RulesAdopted(rules) \in Seq(RuleCandidate)
  BY <1>1, <1>3, SeqDef
<1> QED
  BY <1>1, <1>3, <1>4 DEF RulesAdopted

\* A rule appended to a program is its candidate appended to the adopted ones.
LEMMA RulesAdoptedAppend ==
    ASSUME NEW rules \in Seq(AgentRule), NEW candidate \in RuleCandidate
    PROVE  RulesAdopted(Append(rules, RuleOf(candidate)))
              = Append(RulesAdopted(rules), candidate)
<1> DEFINE rule == RuleOf(candidate)
           left == RulesAdopted(Append(rules, rule))
           right == Append(RulesAdopted(rules), candidate)
<1>1. rule \in AgentRule /\ CandidateOf(rule) = candidate
  BY RuleType, CandidateOfRule
<1> HIDE DEF rule
<1>2. /\ Append(rules, rule) \in Seq(AgentRule)
      /\ Len(Append(rules, rule)) = Len(rules) + 1
      /\ \A i \in 1 .. Len(rules) : Append(rules, rule)[i] = rules[i]
      /\ Append(rules, rule)[Len(rules) + 1] = rule
      /\ Len(rules) \in Nat
  BY <1>1
<1>3. /\ left \in Seq(RuleCandidate)
      /\ Len(left) = Len(rules) + 1
      /\ \A i \in 1 .. Len(rules) : left[i] = CandidateOf(rules[i])
      /\ left[Len(rules) + 1] = candidate
  <2> DEFINE longer == Append(rules, rule)
  <2>1. /\ longer \in Seq(AgentRule) /\ Len(longer) = Len(rules) + 1
        /\ DOMAIN longer = 1 .. (Len(rules) + 1)
        /\ \A i \in 1 .. Len(rules) : longer[i] = rules[i]
        /\ longer[Len(rules) + 1] = rule
    BY <1>2
  <2> HIDE DEF longer
  <2>2. /\ RulesAdopted(longer) \in Seq(RuleCandidate)
        /\ Len(RulesAdopted(longer)) = Len(longer)
        /\ \A i \in DOMAIN longer : RulesAdopted(longer)[i] = CandidateOf(longer[i])
    BY <2>1, RulesAdoptedType
  <2>3. left = RulesAdopted(longer)
    BY DEF longer
  <2> QED
    BY <1>1, <1>2, <2>1, <2>2, <2>3
<1>4. /\ right \in Seq(RuleCandidate)
      /\ Len(right) = Len(rules) + 1
      /\ \A i \in 1 .. Len(rules) : right[i] = CandidateOf(rules[i])
      /\ right[Len(rules) + 1] = candidate
  <2> DEFINE adopted == RulesAdopted(rules)
  <2>1. /\ adopted \in Seq(RuleCandidate) /\ Len(adopted) = Len(rules)
        /\ \A i \in 1 .. Len(rules) : adopted[i] = CandidateOf(rules[i])
    BY RulesAdoptedType
  <2> HIDE DEF adopted
  <2>2. /\ Append(adopted, candidate) \in Seq(RuleCandidate)
        /\ Len(Append(adopted, candidate)) = Len(adopted) + 1
        /\ \A i \in 1 .. Len(adopted) : Append(adopted, candidate)[i] = adopted[i]
        /\ Append(adopted, candidate)[Len(adopted) + 1] = candidate
    BY <2>1
  <2>3. right = Append(adopted, candidate)
    BY DEF adopted
  <2> QED
    BY <2>1, <2>2, <2>3
<1>5. \A i \in 1 .. Len(left) : left[i] = right[i]
  BY <1>2, <1>3, <1>4
<1> HIDE DEF left, right
<1>6. left = right
  BY <1>3, <1>4, <1>5, SeqEqual
<1> QED
  BY <1>6 DEF left, right, rule

\* AdoptedRules, said with RulesAdopted.
LEMMA AdoptedIs ==
    AdoptedRules = IF versions = << >> THEN << >> ELSE RulesAdopted(Program.rules)
BY DEF AdoptedRules, RulesAdopted

(***************************************************************************)
(* What each conversation has under review.                                *)
(***************************************************************************)

ReviewMap == [f \in Episode |-> ReviewOf(f)]

\* A request that leaves the repositories of a review alone leaves it alone.
LEMMA MapUnchanged ==
    ASSUME UNCHANGED PendingVars
    PROVE  ReviewMap' = ReviewMap
BY DEF PendingVars, ReviewMap, ReviewOf, RuleOrGoal

\* A turn of one episode changes what that episode has under review only.
OnlyEpisode(e) ==
    \A f \in Episode \ {e} :
        /\ state'[f] = state[f]
        /\ rule_candidates'[f] = rule_candidates[f]
        /\ understandings'[f] = understandings[f]
        /\ deferred'[f] = deferred[f]

\* Such a turn maps to an update of that one review.
LEMMA MapOne ==
    ASSUME NEW e \in Episode, OnlyEpisode(e)
    PROVE  ReviewMap' = [ReviewMap EXCEPT ![e] = ReviewOf(e)']
<1>1. ASSUME NEW f \in Episode \ {e}
      PROVE  ReviewOf(f)' = ReviewOf(f)
  <2>1. /\ state'[f] = state[f]
        /\ rule_candidates'[f] = rule_candidates[f]
        /\ understandings'[f] = understandings[f]
        /\ deferred'[f] = deferred[f]
    BY <1>1 DEF OnlyEpisode
  <2> QED
    BY <2>1 DEF ReviewOf, RuleOrGoal
<1>2. ReviewMap' = [f \in Episode |-> ReviewOf(f)']
  BY DEF ReviewMap
<1>3. [ReviewMap EXCEPT ![e] = ReviewOf(e)']
        = [f \in Episode |-> IF f = e THEN ReviewOf(e)' ELSE ReviewOf(f)]
  BY DEF ReviewMap
<1>4. \A f \in Episode : ReviewOf(f)' = IF f = e THEN ReviewOf(e)' ELSE ReviewOf(f)
  BY <1>1
<1> QED
  BY <1>2, <1>3, <1>4

\* The program and the result of a turn, as the promise sees them.
LEMMA AdoptedUnchanged ==
    ASSUME UNCHANGED versions
    PROVE  AdoptedRules' = AdoptedRules
BY DEF AdoptedRules, Program, CurrentProgram

\* Making sure of a first version adopts nothing.
LEMMA AdoptedInitial ==
    ASSUME TypeOK, versions' = CreateInitialVersion(versions)
    PROVE  AdoptedRules' = AdoptedRules
<1>1. CASE versions = << >>
  <2>1. versions' = <<DefaultProgram>>
    BY <1>1, InitialVersion DEF TypeOK
  <2>2. CurrentProgram(versions').rules = << >> /\ versions' # << >>
    BY <2>1 DEF CurrentProgram, DefaultProgram
  <2>3. RulesAdopted(<< >>) = << >>
    <3>1. << >> \in Seq(AgentRule) /\ Len(<< >>) = 0
      BY EmptySeq
    <3>2. RulesAdopted(<< >>) \in Seq(RuleCandidate) /\ Len(RulesAdopted(<< >>)) = 0
      BY <3>1, RulesAdoptedType
    <3> QED
      BY <3>2, EmptySeq
  <2> QED
    BY <1>1, <2>2, <2>3 DEF AdoptedRules, RulesAdopted, Program
<1>2. CASE versions # << >>
  BY <1>2, AdoptedUnchanged, InitialVersion DEF TypeOK
<1> QED
  BY <1>1, <1>2

\* The responses of a request that neither acted on an answer nor ran a task.
Silent(response) ==
    response \notin {"executed", "understanding_confirmed", "rule_confirmed",
                     "switch_confirmed", "understanding_rejected", "rule_rejected",
                     "switch_rejected", "cancelled"}

\* Such a request shows the promise neither an answer nor a goal.
LEMMA NothingActedOn ==
    ASSUME Silent(turn'.response)
    PROVE  RanGoal' = None /\ ActedOn' = "nothing"
BY DEF RanGoal, ActedOn, Silent

(***************************************************************************)
(* Each turn is a step of the promise.                                     *)
(***************************************************************************)

\* A request that leaves every review and the program alone is conversation.
LEMMA Conversation ==
    ASSUME UNCHANGED PendingVars, AdoptedRules' = AdoptedRules, Silent(turn'.response)
    PROVE  Promise!Next
<1>1. ReviewMap' = ReviewMap /\ RanGoal' = None /\ ActedOn' = "nothing"
  BY MapUnchanged, NothingActedOn
<1> QED
  BY <1>1 DEF Promise!Next, Promise!Converse, Promise!Acts, ReviewMap

\* A rejection of what is under review ends that review.
LEMMA Rejection ==
    ASSUME NEW e \in Episode, OnlyEpisode(e), NEW object \in Promise!Object,
           ReviewOf(e) = Promise!UnderReview(object), ReviewOf(e)' = None,
           UNCHANGED versions,
           turn'.response \in {"understanding_rejected", "rule_rejected"}
    PROVE  Promise!Next
<1>1. /\ ReviewMap' = [ReviewMap EXCEPT ![e] = None]
      /\ ReviewMap[e] = Promise!UnderReview(object)
      /\ AdoptedRules' = AdoptedRules
  BY MapOne, AdoptedUnchanged DEF ReviewMap
<1>2. RanGoal' = None /\ ActedOn' = "no"
  BY DEF RanGoal, ActedOn
<1>3. Promise!Reject(e)
  BY <1>1, <1>2 DEF Promise!Reject, Promise!Put, Promise!Acts, ReviewMap
<1> QED
  BY <1>3 DEF Promise!Next

\* A proposal puts a new object under review.
LEMMA Presentation ==
    ASSUME NEW e \in Episode, OnlyEpisode(e), NEW object \in Promise!Object,
           ReviewOf(e)' = Promise!UnderReview(object),
           UNCHANGED versions, Silent(turn'.response)
    PROVE  Promise!Next
<1>1. /\ ReviewMap' = [ReviewMap EXCEPT ![e] = Promise!UnderReview(object)]
      /\ AdoptedRules' = AdoptedRules
      /\ RanGoal' = None /\ ActedOn' = "nothing"
  BY MapOne, AdoptedUnchanged, NothingActedOn
<1>2. Promise!Present(e)
  BY <1>1 DEF Promise!Present, Promise!Put, Promise!Acts, ReviewMap
<1> QED
  BY <1>2 DEF Promise!Next

\* Creating an episode and reading the program are conversation.
LEMMA RequestRefines ==
    ASSUME TypeOK, GetCurrentProgram \/ \E e \in Episode : CreateEpisode(e)
    PROVE  Promise!Next
<1>1. AdoptedRules' = AdoptedRules /\ Silent(turn'.response)
  BY AdoptedInitial DEF GetCurrentProgram, CreateEpisode, Reply, Silent
<1>2. CASE GetCurrentProgram
  BY <1>1, <1>2, Conversation DEF GetCurrentProgram, PendingVars, episodes
<1>3. ASSUME NEW e \in Episode, CreateEpisode(e) PROVE Promise!Next
  <2>1. ReviewMap' = ReviewMap
    <3>1. OnlyEpisode(e)
      BY <1>3 DEF CreateEpisode, OnlyEpisode, TypeOK
    <3>2. ReviewOf(e)' = None /\ ReviewOf(e) = None
      <4>1. state[e] = None /\ state'[e] = "open"
        BY <1>3 DEF CreateEpisode, TypeOK
      <4> QED
        BY <4>1, NoneAssumption DEF ReviewOf, ReviewStates, EpisodeState
    <3> QED
      BY <3>1, <3>2, MapOne DEF ReviewMap
  <2>2. RanGoal' = None /\ ActedOn' = "nothing"
    BY <1>1, NothingActedOn
  <2> QED
    BY <1>1, <2>1, <2>2 DEF Promise!Next, Promise!Converse, Promise!Acts, ReviewMap
<1> QED
  BY <1>2, <1>3

\* Every exact-command turn is an answer the promise allows.
LEMMA CommandRefines ==
    ASSUME TypeOK, PendingBacked, NEW e \in Episode, CommandTurn(e)
    PROVE  Promise!Next
<1> USE DEF TypeOK
<1>1. CASE Cancel(e)
  <2>1. OnlyEpisode(e) /\ UNCHANGED versions /\ turn'.response = "cancelled"
    BY <1>1 DEF Cancel, OnlyEpisode, Reply
  <2>2. ReviewOf(e)' = None
    BY <1>1 DEF Cancel, ReviewOf, ReviewStates
  <2>3. RanGoal' = None /\ ActedOn' = "stop"
    BY <2>1 DEF RanGoal, ActedOn
  <2>4. Promise!Stop(e)
    BY <2>1, <2>2, <2>3, MapOne, AdoptedUnchanged
       DEF Promise!Stop, Promise!Put, Promise!Acts, ReviewMap
  <2> QED
    BY <2>4 DEF Promise!Next
<1>2. CASE RejectUnderstanding(e)
  <2> DEFINE object == Promise!GoalObject(understandings[e])
  <2>1. /\ state[e] = "pending_understanding_review"
        /\ understandings[e] # None /\ understandings[e] \in Text
    BY <1>2 DEF RejectUnderstanding, PendingBacked, Backed
  <2>2. /\ OnlyEpisode(e) /\ UNCHANGED versions
        /\ turn'.response = "understanding_rejected"
    BY <1>2, <2>1 DEF RejectUnderstanding, OnlyEpisode, Reply
  <2>3. ReviewOf(e)' = None
    BY <1>2 DEF RejectUnderstanding, ReviewOf, ReviewStates
  <2>4. ReviewOf(e) = Promise!UnderReview(object) /\ object \in Promise!Object
    BY <2>1 DEF ReviewOf, ReviewStates, RuleOrGoal, Promise!UnderReview,
                Promise!GoalObject, Promise!Object
  <2> HIDE DEF object
  <2> QED
    BY <2>2, <2>3, <2>4, Rejection
<1>7. CASE RejectRule(e)
  <2> DEFINE object == Promise!RuleObject(rule_candidates[e])
  <2>1. /\ state[e] = "pending_rule_review"
        /\ rule_candidates[e] # None /\ rule_candidates[e] \in RuleCandidate
    BY <1>7 DEF RejectRule, PendingBacked, Backed
  <2>2. /\ OnlyEpisode(e) /\ UNCHANGED versions
        /\ turn'.response = "rule_rejected"
    BY <1>7, <2>1 DEF RejectRule, OnlyEpisode, Reply
  <2>3. ReviewOf(e)' = None
    BY <1>7 DEF RejectRule, ReviewOf, ReviewStates
  <2>4. ReviewOf(e) = Promise!UnderReview(object) /\ object \in Promise!Object
    BY <2>1 DEF ReviewOf, ReviewStates, RuleOrGoal, Promise!UnderReview,
                Promise!RuleObject, Promise!Object
  <2> HIDE DEF object
  <2> QED
    BY <2>2, <2>3, <2>4, Rejection
<1>8. CASE ConfirmSwitch(e)
  <2> DEFINE object == RuleOrGoal(e, deferred[e])
  <2>1. /\ state[e] = "pending_switch_confirmation"
        /\ deferred[e] \in ReviewStates /\ deferred[e] # None
    BY <1>8 DEF ConfirmSwitch, PendingBacked
  <2>2. /\ OnlyEpisode(e) /\ UNCHANGED versions
        /\ turn'.response = "switch_confirmed"
    BY <1>8 DEF ConfirmSwitch, OnlyEpisode, Reply
  <2>3. object \in Promise!Object
    BY <2>1 DEF PendingBacked, Backed, RuleOrGoal, ReviewStates, Promise!Object
  <2>4. ReviewOf(e) = Promise!Paused(object)
    BY <2>1 DEF ReviewOf, ReviewStates, Promise!Paused
  <2>5. ReviewOf(e)' = None
    BY <1>8 DEF ConfirmSwitch, ReviewOf, ReviewStates
  <2>6. /\ ReviewMap' = [ReviewMap EXCEPT ![e] = None]
        /\ ReviewMap[e] = Promise!Paused(object)
        /\ AdoptedRules' = AdoptedRules
    BY <2>2, <2>4, <2>5, MapOne, AdoptedUnchanged DEF ReviewMap
  <2>7. RanGoal' = None /\ ActedOn' = "yes"
    BY <2>2 DEF RanGoal, ActedOn
  <2> HIDE DEF object
  <2>8. Promise!Abandon(e)
    BY <2>3, <2>6, <2>7 DEF Promise!Abandon, Promise!Put, Promise!Acts, ReviewMap
  <2> QED
    BY <2>8 DEF Promise!Next
<1>3. CASE ConfirmUnderstanding(e)
  <2> DEFINE goal == understandings[e]
  <2>1. /\ state[e] = "pending_understanding_review"
        /\ goal # None /\ goal \in Text
    BY <1>3 DEF ConfirmUnderstanding, PendingBacked, Backed
  <2>2. PICK result \in Executions(understandings[e], Program, FALSE) :
            Reply(e, "understanding_confirmed", result)
    BY <1>3, <2>1, Zenon DEF ConfirmUnderstanding
  <2>3. result.goal = goal
    <3> DEFINE include == FALSE
    <3>1. result \in Executions(understandings[e], Program, include)
      BY <2>2
    <3> HIDE DEF include
    <3> QED
      BY <3>1, ExecutionFacts
  <2>4. /\ OnlyEpisode(e) /\ UNCHANGED versions
        /\ state'[e] = "open"
    BY <1>3 DEF ConfirmUnderstanding, OnlyEpisode
  <2>5. RanGoal' = goal /\ ActedOn' = "yes"
    BY <2>2, <2>3 DEF RanGoal, ActedOn, Reply
  <2>6. ReviewOf(e)' = None
    BY <2>4 DEF ReviewOf, ReviewStates
  <2>7. ReviewOf(e) = Promise!UnderReview(Promise!GoalObject(goal))
    BY <2>1 DEF ReviewOf, ReviewStates, RuleOrGoal, Promise!UnderReview, Promise!GoalObject
  <2>8. ReviewMap' = [ReviewMap EXCEPT ![e] = None] /\ ReviewMap[e] = ReviewOf(e)
    BY <2>4, <2>6, MapOne DEF ReviewMap
  <2>9. AdoptedRules' = AdoptedRules
    BY <2>4, AdoptedUnchanged
  <2> HIDE DEF goal
  <2>10. Promise!AcceptGoal(e)
    BY <2>1, <2>5, <2>7, <2>8, <2>9
       DEF Promise!AcceptGoal, Promise!Put, Promise!Acts, ReviewMap, goal
  <2> QED
    BY <2>10 DEF Promise!Next
<1>4. CASE ConfirmUnderstandingRaises(e)
  BY <1>4, AdoptedUnchanged, Conversation
     DEF ConfirmUnderstandingRaises, PendingVars, episodes, Reply, Silent
<1>5. CASE ConfirmRule(e)
  <2> DEFINE rule == rule_candidates[e]
  <2>1. /\ state[e] = "pending_rule_review"
        /\ rule # None /\ rule \in RuleCandidate
    BY <1>5 DEF ConfirmRule, PendingBacked, Backed
  <2>2. /\ versions # << >> /\ versions \in Seq(AgentProgram)
        /\ Program \in AgentProgram
        /\ ConfirmRuleCandidate(Program, rule) \in AgentProgram
        /\ versions' = Append(versions, ConfirmRuleCandidate(Program, rule))
    BY <1>5, <2>1, ConfirmSaves
  <2>3. ConfirmRuleCandidate(Program, rule).rules = Append(Program.rules, RuleOf(rule))
    BY <2>1, <2>2, ConfirmedProgramType
  <2>4. AdoptedRules' = Append(AdoptedRules, rule)
    <3> DEFINE program == ConfirmRuleCandidate(Program, rule)
    <3>1. program \in AgentProgram /\ versions' = Append(versions, program)
      BY <2>2
    <3> HIDE DEF program
    <3>2. CurrentProgram(versions') = program /\ versions' # << >>
      BY <2>2, <3>1 DEF CurrentProgram
    <3>3. AdoptedRules' = RulesAdopted(program.rules)
      BY <3>2 DEF AdoptedRules, RulesAdopted, Program
    <3>4. AdoptedRules = RulesAdopted(Program.rules)
      BY <2>2, AdoptedIs
    <3>5. Program.rules \in Seq(AgentRule)
      BY <2>2 DEF AgentProgram
    <3> QED
      BY <2>1, <2>3, <3>3, <3>4, <3>5, RulesAdoptedAppend DEF program
  <2>5. /\ OnlyEpisode(e)
        /\ state'[e] = "open"
        /\ turn'.response = "rule_confirmed"
    BY <1>5, <2>1 DEF ConfirmRule, OnlyEpisode, Reply
  <2>6. ReviewOf(e)' = None /\ RanGoal' = None /\ ActedOn' = "yes"
    BY <2>5 DEF ReviewOf, ReviewStates, RanGoal, ActedOn
  <2>7. ReviewOf(e) = Promise!UnderReview(Promise!RuleObject(rule))
    BY <2>1 DEF ReviewOf, ReviewStates, RuleOrGoal, Promise!UnderReview, Promise!RuleObject
  <2>8. ReviewMap' = [ReviewMap EXCEPT ![e] = None] /\ ReviewMap[e] = ReviewOf(e)
    BY <2>5, <2>6, MapOne DEF ReviewMap
  <2> HIDE DEF rule
  <2>9. Promise!AcceptRule(e)
    BY <2>1, <2>4, <2>6, <2>7, <2>8
       DEF Promise!AcceptRule, Promise!Put, Promise!Acts, ReviewMap
  <2> QED
    BY <2>9 DEF Promise!Next
<1>6. CASE RejectSwitch(e)
  <2> DEFINE object == RuleOrGoal(e, deferred[e])
  <2>1. /\ state[e] = "pending_switch_confirmation"
        /\ deferred[e] \in ReviewStates /\ deferred[e] # None
        /\ state'[e] = deferred[e]
        /\ UNCHANGED <<rule_candidates, understandings, versions>>
        /\ OnlyEpisode(e)
        /\ turn'.response = "switch_rejected"
    BY <1>6 DEF RejectSwitch, PendingBacked, OnlyEpisode, Reply
  <2>2. object \in Promise!Object
    BY <2>1 DEF PendingBacked, Backed, RuleOrGoal, ReviewStates, Promise!Object
  <2>3. ReviewOf(e) = Promise!Paused(object)
    BY <2>1 DEF ReviewOf, ReviewStates, Promise!Paused
  <2>4. ReviewOf(e)' = Promise!UnderReview(object)
    BY <2>1 DEF ReviewOf, RuleOrGoal, Promise!UnderReview
  <2>5. /\ ReviewMap' = [ReviewMap EXCEPT ![e] = Promise!UnderReview(object)]
        /\ ReviewMap[e] = Promise!Paused(object)
    BY <2>1, <2>3, <2>4, MapOne DEF ReviewMap
  <2>6. AdoptedRules' = AdoptedRules /\ RanGoal' = None /\ ActedOn' = "no"
    BY <2>1, AdoptedUnchanged DEF RanGoal, ActedOn
  <2> HIDE DEF object
  <2>7. Promise!Resume(e)
    BY <2>2, <2>5, <2>6 DEF Promise!Resume, Promise!Put, Promise!Acts, ReviewMap
  <2> QED
    BY <2>7 DEF Promise!Next
<1> QED
  BY <1>1, <1>2, <1>3, <1>4, <1>5, <1>6, <1>7, <1>8 DEF CommandTurn

\* Every task turn is a step of the promise; one that runs is unreviewed only
\* under a program without an enforced rule.
LEMMA TaskRefines ==
    ASSUME TypeOK, RulesHonest, NEW e \in Episode, NEW intake \in Intakes,
           NEW goal \in Text, TaskTurn(e, intake, goal)
    PROVE  Promise!Next
<1> USE DEF TypeOK
<1>1. CASE ClarifyTask(e, intake, goal)
  BY <1>1, AdoptedUnchanged, Conversation DEF ClarifyTask, PendingVars, Reply, Silent
<1>2. CASE ExecuteTaskRaises(e, intake, goal)
  BY <1>2, AdoptedUnchanged, Conversation
     DEF ExecuteTaskRaises, PendingVars, episodes, Reply, Silent
<1>3. CASE ProposeUnderstanding(e, intake, goal)
  <2>1. /\ OnlyEpisode(e) /\ UNCHANGED versions
        /\ state'[e] = "pending_understanding_review"
        /\ understandings'[e] = goal
        /\ Silent(turn'.response)
    BY <1>3 DEF ProposeUnderstanding, OnlyEpisode, Reply, Silent
  <2>2. Promise!GoalObject(goal) \in Promise!Object
    BY DEF Promise!GoalObject, Promise!Object
  <2>3. ReviewOf(e)' = Promise!UnderReview(Promise!GoalObject(goal))
    BY <2>1 DEF ReviewOf, ReviewStates, RuleOrGoal, Promise!UnderReview,
                Promise!GoalObject
  <2> QED
    BY <2>1, <2>2, <2>3, Presentation
<1>4. CASE ExecuteTask(e, intake, goal)
  <2>1. /\ state[e] # None
        /\ ~Program.show_understanding_before_execution
        /\ UNCHANGED PendingVars /\ UNCHANGED versions
    BY <1>4 DEF ExecuteTask, TaskGoal, Routed, PendingVars
  <2>2. RanGoal' = goal /\ ActedOn' = "nothing"
    <3> DEFINE include == TRUE
    <3>1. PICK result \in Executions(goal, Program, TRUE) :
              Reply(e, "executed", result)
      BY <1>4, Zenon DEF ExecuteTask
    <3>2. result \in Executions(goal, Program, include)
      BY <3>1
    <3>3. turn'.response = "executed" /\ turn'.runtime = result
      BY <3>1 DEF Reply
    <3> HIDE DEF include
    <3>4. result.goal = goal
      BY <3>2, ExecutionFacts
    <3> QED
      BY <3>3, <3>4 DEF RanGoal, ActedOn
  <2>3. ~Promise!DemandsReview
    <3>1. versions # << >> /\ Program \in AgentProgram /\ HonestProgram(Program)
      <4>1. versions \in Seq(AgentProgram) /\ versions # << >> /\ Program \in AgentProgram
        BY <2>1, ProgramType
      <4>2. Len(versions) \in DOMAIN versions
        BY <4>1
      <4> QED
        BY <4>1, <4>2 DEF RulesHonest, Program, CurrentProgram
    <3>2. AdoptedRules = RulesAdopted(Program.rules)
      BY <3>1, AdoptedIs
    <3>3. \A i \in DOMAIN Program.rules :
             Program.rules[i].application_mode # "enforced_by_rule_engine"
      BY <2>1, <3>1 DEF HonestProgram, EnforcedRules, FutureRules
    <3>4. \A i \in DOMAIN AdoptedRules :
             AdoptedRules[i].application_mode # "enforced_by_rule_engine"
      BY <3>2, <3>3 DEF RulesAdopted, CandidateOf
    <3> QED
      BY <3>4 DEF Promise!DemandsReview, EnforcedCandidate
  <2>4. ReviewMap' = ReviewMap /\ AdoptedRules' = AdoptedRules
    BY <2>1, MapUnchanged, AdoptedUnchanged
  <2> QED
    BY <2>2, <2>3, <2>4 DEF Promise!Next, Promise!RunUnreviewed, Promise!Acts, ReviewMap
<1> QED
  BY <1>1, <1>2, <1>3, <1>4 DEF TaskTurn

\* Every semantic turn is a step of the promise.
LEMMA SemanticRefines ==
    ASSUME TypeOK, PendingBacked, RulesHonest,
           NEW e \in Episode, NEW intake \in Intakes, SemanticTurn(e, intake)
    PROVE  Promise!Next
<1> USE DEF TypeOK
<1>1. CASE Fallback(e, intake)
  <2>1. Silent(turn'.response)
    BY <1>1 DEF Fallback, FallbackResponse, Reply, Silent
  <2> QED
    BY <1>1, <2>1, AdoptedUnchanged, Conversation DEF Fallback, PendingVars
<1>2. CASE Answer(e, intake)
  <2>1. Silent(turn'.response)
    BY <1>2 DEF Answer, Reply, Silent
  <2> QED
    BY <1>2, <2>1, AdoptedUnchanged, Conversation DEF Answer, PendingVars
<1>3. CASE RequestSwitch(e, intake)
  <2> DEFINE object == RuleOrGoal(e, state[e])
  <2>1. /\ state[e] \in ReviewStates
        /\ state'[e] = "pending_switch_confirmation"
        /\ deferred'[e] = state[e]
        /\ UNCHANGED <<rule_candidates, understandings, versions>>
        /\ OnlyEpisode(e)
        /\ Silent(turn'.response)
    BY <1>3 DEF RequestSwitch, Routed, SemanticRoute, ShouldRequestSwitch,
                OnlyEpisode, Reply, Silent
  <2>2. object \in Promise!Object
    BY <2>1 DEF PendingBacked, Backed, RuleOrGoal, ReviewStates, Promise!Object
  <2>3. ReviewOf(e) = Promise!UnderReview(object)
    BY <2>1 DEF ReviewOf, Promise!UnderReview
  <2>4. ReviewOf(e)' = Promise!Paused(object)
    BY <2>1 DEF ReviewOf, ReviewStates, RuleOrGoal, Promise!Paused
  <2>5. /\ ReviewMap' = [ReviewMap EXCEPT ![e] = Promise!Paused(object)]
        /\ ReviewMap[e] = Promise!UnderReview(object)
    BY <2>1, <2>3, <2>4, MapOne DEF ReviewMap
  <2>6. AdoptedRules' = AdoptedRules /\ RanGoal' = None /\ ActedOn' = "nothing"
    BY <2>1, AdoptedUnchanged, NothingActedOn
  <2> HIDE DEF object
  <2>7. Promise!Pause(e)
    BY <2>2, <2>5, <2>6 DEF Promise!Pause, Promise!Put, Promise!Acts, ReviewMap
  <2> QED
    BY <2>7 DEF Promise!Next
<1>4. CASE ProposeRule(e, intake)
  <2>1. PICK i \in DOMAIN intake.items :
            rule_candidates' = [rule_candidates EXCEPT
                                   ![e] = CreateRuleCandidate(e, intake.items[i])]
    BY <1>4 DEF ProposeRule, FirstOfType
  <2> DEFINE rule == CreateRuleCandidate(e, intake.items[i])
  <2>2. rule \in RuleCandidate
    BY IntakeItem, CandidateType
  <2> HIDE DEF rule
  <2>3. /\ OnlyEpisode(e) /\ UNCHANGED versions
        /\ state'[e] = "pending_rule_review"
        /\ rule_candidates'[e] = rule
        /\ Silent(turn'.response)
    BY <1>4, <2>1 DEF ProposeRule, OnlyEpisode, Reply, Silent, rule
  <2>4. Promise!RuleObject(rule) \in Promise!Object
    BY <2>2 DEF Promise!RuleObject, Promise!Object
  <2>5. ReviewOf(e)' = Promise!UnderReview(Promise!RuleObject(rule))
    BY <2>3 DEF ReviewOf, ReviewStates, RuleOrGoal, Promise!UnderReview,
                Promise!RuleObject
  <2> QED
    BY <2>3, <2>4, <2>5, Presentation
<1>5. CASE \E goal \in Text : TaskTurn(e, intake, goal)
  BY <1>5, TaskRefines
<1> QED
  BY <1>1, <1>2, <1>3, <1>4, <1>5 DEF SemanticTurn

\* Nothing is under review, adopted or run at the start.
LEMMA InitRefines == Init => Promise!Init
<1> SUFFICES ASSUME Init PROVE Promise!Init
  OBVIOUS
<1>1. \A e \in Episode : ReviewOf(e) = None
  BY NoneAssumption DEF Init, ReviewOf, ReviewStates, EpisodeState
<1>2. AdoptedRules = << >> /\ RanGoal = None /\ ActedOn = "nothing"
  BY DEF Init, AdoptedRules, RanGoal, ActedOn
<1> QED
  BY <1>1, <1>2 DEF Promise!Init

\* Every step is a step of the promise, or none.
LEMMA StepRefines ==
    TypeOK /\ PendingBacked /\ RulesHonest /\ [Next]_vars
        => [Promise!Next]_(Promise!vars)
<1> SUFFICES ASSUME TypeOK, PendingBacked, RulesHonest, [Next]_vars
             PROVE  [Promise!Next]_(Promise!vars)
  OBVIOUS
<1>1. CASE UNCHANGED vars
  <2>1. ReviewMap' = ReviewMap
    BY <1>1, MapUnchanged DEF vars, PendingVars
  <2>2. AdoptedRules' = AdoptedRules
    BY <1>1, AdoptedUnchanged DEF vars
  <2>3. RanGoal' = RanGoal /\ ActedOn' = ActedOn
    BY <1>1 DEF vars, RanGoal, ActedOn
  <2> QED
    BY <2>1, <2>2, <2>3 DEF Promise!vars, ReviewMap
<1>2. CASE Next
  BY <1>2, RequestRefines, CommandRefines, SemanticRefines DEF Next
<1> QED
  BY <1>1, <1>2

\* Every behaviour of the dialogue is one of its promise: confirmations accept the
\* object last presented, interruptions lose nothing, the program grows by accepted
\* rules only, and once an enforced rule is in it nothing runs unreviewed.
THEOREM DialogueKeepsPromise == Spec => ImplementsReview
<1>1. Spec => [](TypeOK /\ PendingBacked /\ RulesHonest)
  BY TypeInvariant, PendingObjectsPresent, ProgramsHonest, PTL
<1> QED
  BY <1>1, InitRefines, StepRefines, PTL DEF Spec, ImplementsReview, Promise!Spec

=============================================================================
