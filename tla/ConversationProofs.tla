------------------------- MODULE ConversationProofs -------------------------
(***************************************************************************)
(* Conversations whose user waits stay whole, for any number of pages and  *)
(* server threads, although a turn writes its repositories one after the   *)
(* other.                                                                  *)
(***************************************************************************)
EXTENDS WebPageProofs

(***************************************************************************)
(* What the stores of one episode come to.                                 *)
(***************************************************************************)

\* A state, a candidate, an understanding and a deferred state fit together.
Asked(state, candidate, understanding) ==
    /\ state = "pending_rule_review" => candidate # None
    /\ state = "pending_understanding_review" => understanding # None

Fits(state, candidate, understanding, before) ==
    /\ Asked(state, candidate, understanding)
    /\ state = "pending_switch_confirmation" =>
           before # None /\ Asked(before, candidate, understanding)
    /\ state = "cancelled" => candidate = None /\ understanding = None /\ before = None

\* What is found in a repository once the writes are carried out.
Leaves(writes, repository, now, later) ==
    \/ \E i \in DOMAIN writes :
          writes[i].repository = repository /\ writes[i].value = later
    \/ /\ \A i \in DOMAIN writes : writes[i].repository # repository
       /\ now = later

\* The writes leave what fits to the state.
LeavesWhole(writes, e, state) ==
    \E candidate, understanding, before :
        /\ Leaves(writes, "rule_candidates", rule_candidates[e], candidate)
        /\ Leaves(writes, "understandings", understandings[e], understanding)
        /\ Leaves(writes, "deferred", deferred[e], before)
        /\ Fits(state, candidate, understanding, before)

\* A turn writes to its own episode, and to no repository twice.
OwnWrites(writes, e) ==
    /\ \A i \in DOMAIN writes : writes[i].repository # "versions" => writes[i].key = e
    /\ \A i, j \in DOMAIN writes : writes[i].repository = writes[j].repository => i = j

WritesOwn == \A w \in Worker : OwnWrites(jobs[w].writes, jobs[w].episode)

\* Whole, said of what is stored.
LEMMA WholeFits ==
    ASSUME NEW e
    PROVE  Whole(e) <=> Fits(episodes[e].state, rule_candidates[e], understandings[e],
                             deferred[e])
BY DEF Whole, Backed, Fits, Asked

\* One more write to another repository changes nothing of it.
LEMMA EpisodeLast ==
    ASSUME NEW writes \in Seq(PendingWrite), NEW last \in PendingWrite, NEW e, NEW state,
           last.repository = "episodes", last.key = e, OwnWrites(writes, e),
           \A i \in DOMAIN writes : writes[i].repository # "episodes"
    PROVE  /\ OwnWrites(Append(writes, last), e)
           /\ LeavesWhole(writes, e, state) => LeavesWhole(Append(writes, last), e, state)
<1> DEFINE all == Append(writes, last)
<1>1. /\ DOMAIN writes = 1..Len(writes) /\ DOMAIN all = 1..(Len(writes) + 1)
      /\ Len(writes) \in Nat /\ all[Len(writes) + 1] = last
      /\ \A i \in 1..Len(writes) : all[i] = writes[i]
  BY AppendParts
<1> HIDE DEF all
<1>2. OwnWrites(all, e)
  BY <1>1 DEF OwnWrites
<1>3. ASSUME NEW repository, repository # "episodes", NEW now, NEW later,
             Leaves(writes, repository, now, later)
      PROVE  Leaves(all, repository, now, later)
  BY <1>1, <1>3 DEF Leaves
<1>4. ASSUME LeavesWhole(writes, e, state) PROVE LeavesWhole(all, e, state)
  BY <1>3, <1>4 DEF LeavesWhole
<1> QED
  BY <1>2, <1>4 DEF all

(***************************************************************************)
(* Every decision keeps a conversation whole.                              *)
(***************************************************************************)

\* What a branch does: it plans such writes, for an episode that was whole.
Promises(w, writes, after, whole) ==
    /\ writes \in Seq(PendingWrite)
    /\ OwnWrites(writes, jobs[w].episode)
    /\ \A i \in DOMAIN writes : writes[i].repository # "episodes"
    /\ whole => LeavesWhole(writes, jobs[w].episode, after.state)
    /\ \E number, response, runtime : Owes(w, writes, after, number, response, runtime)

\* What a turn works on is what is stored.
Current(w) ==
    /\ jobs[w].snapshot = episodes[jobs[w].episode]
    /\ Whole(jobs[w].episode)

\* Where nothing is written, what is there stays.
LEMMA NothingLeaves ==
    ASSUME NEW e, NEW state,
           Fits(state, rule_candidates[e], understandings[e], deferred[e])
    PROVE  LeavesWhole(<< >>, e, state) /\ OwnWrites(<< >>, e)
BY DEF LeavesWhole, Leaves, OwnWrites

\* One write replaces one thing.
LEMMA OneLeaves ==
    ASSUME NEW write, NEW e, NEW state, write.key = e,
           Fits(state,
                IF write.repository = "rule_candidates" THEN write.value ELSE rule_candidates[e],
                IF write.repository = "understandings" THEN write.value ELSE understandings[e],
                IF write.repository = "deferred" THEN write.value ELSE deferred[e])
    PROVE  LeavesWhole(<<write>>, e, state) /\ OwnWrites(<<write>>, e)
<1>1. /\ DOMAIN <<write>> = {1} /\ <<write>>[1] = write
  OBVIOUS
<1>2. \A repository, now :
          Leaves(<<write>>, repository, now,
                 IF write.repository = repository THEN write.value ELSE now)
  BY <1>1 DEF Leaves
<1>3. OwnWrites(<<write>>, e)
  BY <1>1 DEF OwnWrites
<1> QED
  BY <1>2, <1>3 DEF LeavesWhole

\* An open episode waits for nothing.
LEMMA OpenFits ==
    \A candidate, understanding, before : Fits("open", candidate, understanding, before)
BY DEF Fits, Asked

\* The three deletions of a cancellation.
LEMMA CancelLeaves ==
    ASSUME NEW e
    PROVE  LET writes == <<Delete("rule_candidates", e), Delete("understandings", e),
                           Delete("deferred", e)>>
           IN  LeavesWhole(writes, e, "cancelled") /\ OwnWrites(writes, e)
<1> DEFINE writes == <<Delete("rule_candidates", e), Delete("understandings", e),
                       Delete("deferred", e)>>
<1>1. /\ DOMAIN writes = 1..3
      /\ writes[1] = Put("rule_candidates", e, None)
      /\ writes[2] = Put("understandings", e, None)
      /\ writes[3] = Put("deferred", e, None)
  BY DEF Delete
<1> HIDE DEF writes
<1>2. Fits("cancelled", None, None, None)
  BY DEF Fits, Asked
<1>3. /\ Leaves(writes, "rule_candidates", rule_candidates[e], None)
      /\ Leaves(writes, "understandings", understandings[e], None)
      /\ Leaves(writes, "deferred", deferred[e], None)
  BY <1>1 DEF Leaves, Put
<1>4. OwnWrites(writes, e)
  BY <1>1 DEF OwnWrites, Put
<1>5. LeavesWhole(writes, e, "cancelled")
  BY <1>2, <1>3 DEF LeavesWhole
<1> QED
  BY <1>4, <1>5 DEF writes

\* Command turns.
LEMMA CommandPromises ==
    ASSUME TypeOK, NEW w \in Worker, CommandTurn(w)
    PROVE  \/ Raise(w)
           \/ \E writes, after : Promises(w, writes, after, Current(w))
<1> DEFINE e == jobs[w].episode
           Goal == \E writes, after : Promises(w, writes, after, Current(w))
           all == <<Delete("rule_candidates", e), Delete("understandings", e),
                    Delete("deferred", e)>>
<1>0. e \in Episode /\ jobs[w].snapshot \in StoredEpisode /\ jobs[w].number \in Nat
      /\ jobs[w].program \in AgentProgram
  BY TurnReady DEF CommandTurn, Cancel, MissingUnderstanding, ConfirmUnderstanding,
     RejectUnderstanding, MissingRule, ConfirmRule, RejectRule, ConfirmSwitch,
     RejectSwitch
<1>s. \A state \in EpisodeState : Becomes(w, state).state = state
  BY <1>0 DEF Becomes, StoredEpisode
<1>d. \A repository \in {"rule_candidates", "understandings", "deferred"} :
          /\ Delete(repository, e) \in PendingWrite
          /\ Delete(repository, e).key = e /\ Delete(repository, e).value = None
          /\ Delete(repository, e).repository = repository
  BY <1>0, WriteTypes DEF Delete, Put
<1>a. /\ all \in Seq(PendingWrite) /\ OwnWrites(all, e)
      /\ LeavesWhole(all, e, "cancelled")
      /\ \A i \in DOMAIN all : all[i].repository # "episodes"
  BY <1>d, CancelLeaves
<1>b. \A repository \in {"rule_candidates", "understandings", "deferred"} :
          /\ <<Delete(repository, e)>> \in Seq(PendingWrite)
          /\ OwnWrites(<<Delete(repository, e)>>, e)
          /\ LeavesWhole(<<Delete(repository, e)>>, e, "open")
          /\ \A i \in DOMAIN <<Delete(repository, e)>> :
                <<Delete(repository, e)>>[i].repository # "episodes"
  <2> SUFFICES ASSUME NEW repository \in {"rule_candidates", "understandings", "deferred"}
               PROVE  LET write == Delete(repository, e) IN
                      /\ <<write>> \in Seq(PendingWrite)
                      /\ OwnWrites(<<write>>, e) /\ LeavesWhole(<<write>>, e, "open")
                      /\ \A i \in DOMAIN <<write>> : <<write>>[i].repository # "episodes"
    OBVIOUS
  <2> DEFINE write == Delete(repository, e)
  <2>1. /\ write \in PendingWrite /\ write.key = e
        /\ write.repository = repository
    BY <1>d
  <2> HIDE DEF write
  <2>2. OwnWrites(<<write>>, e) /\ LeavesWhole(<<write>>, e, "open")
    BY <2>1, OpenFits, OneLeaves
  <2>3. write.repository # "episodes"
    BY <2>1
  <2>4. /\ <<write>> \in Seq(PendingWrite)
        /\ \A i \in DOMAIN <<write>> : <<write>>[i] = write
    BY <2>1
  <2> QED
    BY <2>2, <2>3, <2>4 DEF write
<1>c. << >> \in Seq(PendingWrite) /\ \A i \in DOMAIN << >> : << >>[i].repository # "episodes"
  OBVIOUS
<1>o. LeavesWhole(<< >>, e, "open") /\ OwnWrites(<< >>, e)
  BY OpenFits, NothingLeaves
<1> HIDE DEF all
<1>1. CASE Cancel(w)
  <2>1. Promises(w, all, Becomes(w, "cancelled"), Current(w))
    BY <1>1, <1>a, <1>s DEF Cancel, Plan, Promises, all, EpisodeState
  <2> QED
    BY <2>1
<1>2. CASE MissingUnderstanding(w)
  <2>1. Promises(w, << >>, Becomes(w, "open"), Current(w))
    BY <1>2, <1>c, <1>o, <1>s DEF MissingUnderstanding, Plan, Promises, EpisodeState
  <2> QED
    BY <2>1
<1>3. CASE ConfirmUnderstanding(w)
  <2>1. CASE Raise(w)
    BY <2>1
  <2>2. CASE ~Raise(w)
    <3>1. PICK result \in Executions(understandings[e], jobs[w].program, FALSE) :
              Plan(w, <<Delete("understandings", e)>>, Becomes(w, "open"),
                   "understanding_confirmed", result)
      BY <1>3, <2>2, Zenon DEF ConfirmUnderstanding
    <3>2. Promises(w, <<Delete("understandings", e)>>, Becomes(w, "open"), Current(w))
      BY <1>b, <1>s, <3>1 DEF Plan, Promises, EpisodeState
    <3> QED
      BY <3>2
  <2> QED
    BY <2>1, <2>2
<1>4. CASE RejectUnderstanding(w)
  <2>1. Promises(w, <<Delete("understandings", e)>>, Becomes(w, "open"), Current(w))
    BY <1>4, <1>b, <1>s DEF RejectUnderstanding, Plan, Promises, EpisodeState
  <2> QED
    BY <2>1
<1>5. CASE MissingRule(w)
  <2>1. Promises(w, << >>, Becomes(w, "open"), Current(w))
    BY <1>5, <1>c, <1>o, <1>s DEF MissingRule, Plan, Promises, EpisodeState
  <2> QED
    BY <2>1
<1>6. CASE ConfirmRule(w)
  <2> DEFINE program == ConfirmRuleCandidate(jobs[w].program, rule_candidates[e])
             save == Put("versions", jobs[w].number + 1, program)
             delete == Delete("rule_candidates", e)
             both == <<save, delete>>
  <2>1. rule_candidates[e] \in RuleCandidate
    BY <1>0, <1>6 DEF TypeOK, ConfirmRule
  <2>2. save \in PendingWrite /\ save.repository = "versions"
    BY <1>0, <2>1, ConfirmedProgramType, WriteTypes DEF Put
  <2>3. Owes(w, both, Becomes(w, "open"), jobs[w].number + 1, "rule_confirmed", None)
    BY <1>6 DEF ConfirmRule
  <2>4. delete \in PendingWrite /\ delete.repository = "rule_candidates" /\ delete.key = e
    BY <1>d
  <2> HIDE DEF save, delete
  <2>5. both \in Seq(PendingWrite) /\ DOMAIN both = 1..2 /\ both[1] = save /\ both[2] = delete
    BY <2>2, <2>4
  <2> HIDE DEF both
  <2>6. OwnWrites(both, e) /\ \A i \in DOMAIN both : both[i].repository # "episodes"
    BY <2>2, <2>4, <2>5 DEF OwnWrites
  <2>7. LeavesWhole(both, e, "open")
    <3>1. \A repository, now : \E later : Leaves(both, repository, now, later)
      BY DEF Leaves
    <3> QED
      BY <3>1, OpenFits DEF LeavesWhole
  <2>8. Promises(w, both, Becomes(w, "open"), Current(w))
    BY <1>s, <2>3, <2>5, <2>6, <2>7 DEF Promises, EpisodeState
  <2> QED
    BY <2>8
<1>7. CASE RejectRule(w)
  <2>1. Promises(w, <<Delete("rule_candidates", e)>>, Becomes(w, "open"), Current(w))
    BY <1>7, <1>b, <1>s DEF RejectRule, Plan, Promises, EpisodeState
  <2> QED
    BY <2>1
<1>8. CASE ConfirmSwitch(w)
  <2>1. Promises(w, all, Becomes(w, "cancelled"), Current(w))
    BY <1>8, <1>a, <1>s DEF ConfirmSwitch, Plan, Promises, all, EpisodeState
  <2> QED
    BY <2>1
<1>9. CASE RejectSwitch(w)
  <2> DEFINE state == IF deferred[e] = None THEN "pending_rule_review" ELSE deferred[e]
             write == Delete("deferred", e)
  <2>1. /\ state \in ReviewStates
        /\ deferred[e] # None => state = deferred[e]
    BY <1>0 DEF TypeOK, ReviewStates
  <2>2. Plan(w, <<write>>, Becomes(w, state), "switch_rejected", None)
        /\ jobs[w].snapshot.state = "pending_switch_confirmation"
    BY <1>9 DEF RejectSwitch, In
  <2>3. /\ write.repository = "deferred" /\ write.key = e /\ write.value = None
        /\ <<write>> \in Seq(PendingWrite) /\ OwnWrites(<<write>>, e)
        /\ \A i \in DOMAIN <<write>> : <<write>>[i].repository # "episodes"
    BY <1>b, <1>d
  <2> HIDE DEF state, write
  <2>4. ASSUME Current(w)
        PROVE  LeavesWhole(<<write>>, e, state)
    <3>1. Fits("pending_switch_confirmation", rule_candidates[e], understandings[e],
               deferred[e])
      BY <2>2, <2>4, WholeFits DEF Current
    <3>2. Fits(state, rule_candidates[e], understandings[e], None)
      BY <2>1, <3>1 DEF Fits, Asked, ReviewStates
    <3> QED
      BY <2>3, <3>2, OneLeaves
  <2>5. Becomes(w, state).state = state
    BY <1>s, <2>1 DEF ReviewStates, EpisodeState
  <2>6. Promises(w, <<write>>, Becomes(w, state), Current(w))
    BY <2>2, <2>3, <2>4, <2>5 DEF Plan, Promises
  <2> QED
    BY <2>6
<1> QED
  BY <1>1, <1>2, <1>3, <1>4, <1>5, <1>6, <1>7, <1>8, <1>9 DEF CommandTurn

\* A turn that writes nothing and stays where it is.
LEMMA StayPromises ==
    ASSUME NEW w, NEW number, NEW response, NEW runtime, NEW after, NEW writes,
           writes \in Seq(PendingWrite),
           writes = << >> \/ \E write : /\ writes = <<write>>
                                        /\ write.repository = "unknown_utterances"
                                        /\ write.key = jobs[w].episode,
           after.state = jobs[w].snapshot.state,
           Owes(w, writes, after, number, response, runtime)
    PROVE  Promises(w, writes, after, Current(w))
<1> DEFINE e == jobs[w].episode
<1>1. Current(w) => Fits(after.state, rule_candidates[e], understandings[e], deferred[e])
  BY WholeFits DEF Current
<1>2. CASE writes = << >>
  BY <1>1, <1>2, NothingLeaves DEF Promises, OwnWrites
<1>3. CASE writes # << >>
  <2>1. PICK write : /\ writes = <<write>> /\ write.repository = "unknown_utterances"
                     /\ write.key = e
    BY <1>3
  <2>2. /\ OwnWrites(<<write>>, e)
        /\ \A i \in DOMAIN <<write>> : <<write>>[i].repository # "episodes"
    BY <2>1 DEF OwnWrites
  <2>3. Current(w) => LeavesWhole(<<write>>, e, after.state)
    BY <1>1, <2>1, OneLeaves
  <2> QED
    BY <2>1, <2>2, <2>3 DEF Promises
<1> QED
  BY <1>2, <1>3

\* A turn that writes one pending object.
LEMMA SavePromises ==
    ASSUME NEW w, NEW number, NEW response, NEW runtime, NEW after, NEW write,
           write \in PendingWrite, write.key = jobs[w].episode,
           write.repository \in {"rule_candidates", "understandings", "deferred"},
           Current(w) =>
               LET e == jobs[w].episode IN
               Fits(after.state,
                    IF write.repository = "rule_candidates" THEN write.value ELSE rule_candidates[e],
                    IF write.repository = "understandings" THEN write.value ELSE understandings[e],
                    IF write.repository = "deferred" THEN write.value ELSE deferred[e]),
           Owes(w, <<write>>, after, number, response, runtime)
    PROVE  Promises(w, <<write>>, after, Current(w))
<1> DEFINE e == jobs[w].episode
<1>1. Current(w) => LeavesWhole(<<write>>, e, after.state)
  BY OneLeaves
<1>2. /\ <<write>> \in Seq(PendingWrite) /\ OwnWrites(<<write>>, e)
      /\ \A i \in DOMAIN <<write>> : <<write>>[i].repository # "episodes"
  BY DEF OwnWrites
<1> QED
  BY <1>1, <1>2 DEF Promises

\* Semantic turns.
LEMMA SemanticPromises ==
    ASSUME TypeOK, NEW w \in Worker, NEW intake \in Intakes, SemanticTurn(w, intake)
    PROVE  \/ Raise(w)
           \/ \E writes, after : Promises(w, writes, after, Current(w))
<1> DEFINE e == jobs[w].episode
<1>0. e \in Episode /\ jobs[w].snapshot \in StoredEpisode
  BY TurnReady DEF SemanticTurn, Fallback, RequestSwitch, ProposeRule, Answer,
     ClarifyTask, ProposeUnderstanding, ExecuteTask, TaskGoal, Routed
<1>s. /\ \A state, count : Snapshot(state, count).state = state
      /\ Unmoved(w).state = jobs[w].snapshot.state
      /\ \A state : Understood(w, state).state = state
  BY DEF Snapshot, Unmoved, Understood
<1>e. << >> \in Seq(PendingWrite)
  OBVIOUS
<1>n. None \notin EpisodeState /\ None \notin RuleCandidate /\ None \notin Text
  BY NoneAssumption
<1>1. CASE Fallback(w, intake)
  <2> DEFINE count == jobs[w].snapshot.fallback_count + 1
             log == Put("unknown_utterances", e,
                        [reason |-> Reason(intake), fallback_count |-> count])
             after == Snapshot(jobs[w].snapshot.state, count)
  <2>1. count \in Nat
    BY <1>0 DEF StoredEpisode
  <2>2. [reason |-> Reason(intake), fallback_count |-> count] \in Utterance
    BY <2>1 DEF Utterance, Reason
  <2>3. log \in PendingWrite /\ log.repository = "unknown_utterances" /\ log.key = e
    BY <1>0, <2>2, WriteTypes DEF Put
  <2>4. Plan(w, <<log>>, after, FallbackResponse(count), None)
    BY <1>1 DEF Fallback
  <2>5. after.state = jobs[w].snapshot.state
    BY <1>s
  <2> HIDE DEF log, count, after
  <2>6. <<log>> \in Seq(PendingWrite)
    BY <2>3
  <2>7. Promises(w, <<log>>, after, Current(w))
    BY <2>3, <2>4, <2>5, <2>6, StayPromises DEF Plan
  <2> QED
    BY <2>7
<1>2. CASE RequestSwitch(w, intake)
  <2> DEFINE save == Put("deferred", e, jobs[w].snapshot.state)
             after == Understood(w, "pending_switch_confirmation")
  <2>1. jobs[w].snapshot.state \in ReviewStates
    BY <1>2 DEF RequestSwitch, Routed, SemanticRoute, ShouldRequestSwitch
  <2>2. /\ save \in PendingWrite /\ save.repository = "deferred" /\ save.key = e
        /\ save.value = jobs[w].snapshot.state
    BY <1>0, <2>1, WriteTypes DEF Put
  <2>3. after.state = "pending_switch_confirmation"
    BY <1>s
  <2>4. Plan(w, <<save>>, after, "switch_requested", None)
    BY <1>2 DEF RequestSwitch
  <2>5. jobs[w].snapshot.state # None
    BY <1>n, <2>1 DEF ReviewStates, EpisodeState
  <2> HIDE DEF save, after
  <2>6. ASSUME Current(w)
        PROVE  Fits(after.state, rule_candidates[e], understandings[e], save.value)
    <3>1. Asked(jobs[w].snapshot.state, rule_candidates[e], understandings[e])
      BY <2>6, WholeFits DEF Current, Fits
    <3> QED
      BY <2>2, <2>3, <2>5, <3>1 DEF Fits, Asked
  <2>7. Promises(w, <<save>>, after, Current(w))
    BY <2>2, <2>4, <2>6, SavePromises DEF Plan
  <2> QED
    BY <2>7
<1>3. CASE ProposeRule(w, intake)
  <2> DEFINE after == Understood(w, "pending_rule_review")
  <2>1. PICK i \in DOMAIN intake.items :
            Plan(w, <<Put("rule_candidates", e, CreateRuleCandidate(e, intake.items[i]))>>,
                 after, "rule_proposed", None)
    BY <1>3 DEF ProposeRule, FirstOfType
  <2>2. intake.items[i] \in MessageItem
    BY IntakesAssumption DEF IntakeResult
  <2> DEFINE candidate == CreateRuleCandidate(e, intake.items[i])
             save == Put("rule_candidates", e, candidate)
  <2>3. candidate \in RuleCandidate /\ candidate # None
    BY <1>0, <1>n, <2>2, CandidateType
  <2>4. /\ save \in PendingWrite /\ save.repository = "rule_candidates" /\ save.key = e
        /\ save.value = candidate
    BY <1>0, <2>3, WriteTypes DEF Put
  <2>5. after.state = "pending_rule_review"
    BY <1>s
  <2>6. Plan(w, <<save>>, after, "rule_proposed", None)
    BY <2>1
  <2> HIDE DEF save, after, candidate
  <2>7. Fits(after.state, save.value, understandings[e], deferred[e])
    BY <2>3, <2>4, <2>5 DEF Fits, Asked
  <2>8. Promises(w, <<save>>, after, Current(w))
    BY <2>4, <2>6, <2>7, SavePromises DEF Plan
  <2> QED
    BY <2>8
<1>4. CASE Answer(w, intake)
  <2>1. Plan(w, << >>, Unmoved(w), intake.primary_intent, None)
    BY <1>4 DEF Answer
  <2>2. Promises(w, << >>, Unmoved(w), Current(w))
    BY <1>e, <1>s, <2>1, StayPromises DEF Plan
  <2> QED
    BY <2>2
<1>5. ASSUME NEW goal \in Text, ClarifyTask(w, intake, goal)
      PROVE  Promises(w, << >>, Unmoved(w), Current(w))
  BY <1>e, <1>s, <1>5, StayPromises DEF ClarifyTask, Plan
<1>6. ASSUME NEW goal \in Text, ProposeUnderstanding(w, intake, goal)
      PROVE  \E writes, after : Promises(w, writes, after, Current(w))
  <2> DEFINE save == Put("understandings", e, goal)
             after == Understood(w, "pending_understanding_review")
  <2>1. /\ save \in PendingWrite /\ save.repository = "understandings" /\ save.key = e
        /\ save.value = goal /\ goal # None
    BY <1>0, <1>n, WriteTypes DEF Put
  <2>2. after.state = "pending_understanding_review"
    BY <1>s
  <2>3. Plan(w, <<save>>, after, "understanding_proposed", None)
    BY <1>6 DEF ProposeUnderstanding
  <2> HIDE DEF save, after
  <2>4. Fits(after.state, rule_candidates[e], save.value, deferred[e])
    BY <2>1, <2>2 DEF Fits, Asked
  <2>5. Promises(w, <<save>>, after, Current(w))
    BY <2>1, <2>3, <2>4, SavePromises DEF Plan
  <2> QED
    BY <2>5
<1>7. ASSUME NEW goal \in Text, ExecuteTask(w, intake, goal), ~Raise(w)
      PROVE  Promises(w, << >>, Unmoved(w), Current(w))
  <2>1. PICK result \in Executions(goal, jobs[w].program, TRUE) :
            Plan(w, << >>, Unmoved(w), "executed", result)
    BY <1>7, Zenon DEF ExecuteTask
  <2> QED
    BY <1>e, <1>s, <2>1, StayPromises DEF Plan
<1> QED
  BY <1>1, <1>2, <1>3, <1>4, <1>5, <1>6, <1>7 DEF SemanticTurn

(***************************************************************************)
(* What a step does to the stores of an episode.                           *)
(***************************************************************************)

\* The stores of an episode stay as they are.
Untouched(e) ==
    /\ episodes'[e] = episodes[e] /\ rule_candidates'[e] = rule_candidates[e]
    /\ understandings'[e] = understandings[e] /\ deferred'[e] = deferred[e]

Before == {"read", "initialise", "fetch", "decide"}

\* A request arrives with what it read.
LEMMA ReceivedSnapshot ==
    ASSUME TypeOK, NEW w \in Worker, NEW request, NEW e, NEW command, NEW snapshot,
           Receive(w, request, e, command, snapshot)
    PROVE  jobs'[w].snapshot = snapshot /\ \A d \in Episode : Untouched(d)
BY DEF TypeOK, Receive, Idle, Untouched, stores

\* Until it decides a job prepares, and keeps the episode it read.
LEMMA PreparedJob ==
    ASSUME TypeOK, NEW w \in Worker, ReadVersions(w) \/ Initialise(w) \/ FetchProgram(w)
    PROVE  /\ Alone(w) /\ SameRequest(w) /\ jobs[w].pc \in Before /\ jobs'[w].pc \in Before
           /\ jobs'[w].snapshot = jobs[w].snapshot /\ jobs'[w].writes = jobs[w].writes
           /\ \A d \in Episode : Untouched(d)
<1>1. jobs[w] \in Job /\ jobs \in [Worker -> Job]
  BY DEF TypeOK
<1>2. \A d \in Episode : Untouched(d)
  BY DEF ReadVersions, Initialise, FetchProgram, stores, Untouched
<1>3. CASE ReadVersions(w)
  <2>1. jobs'[w].snapshot = jobs[w].snapshot
    BY <1>1, <1>3 DEF ReadVersions, Job
  <2> QED
    BY <1>2, <1>3, <2>1, ReadJob DEF Before
<1>4. CASE Initialise(w)
  <2>1. jobs'[w].snapshot = jobs[w].snapshot
    BY <1>1, <1>4 DEF Initialise, Job
  <2> QED
    BY <1>2, <1>4, <2>1, InitialisedJob DEF Before
<1>5. CASE FetchProgram(w)
  BY <1>2, <1>5, FetchedJob DEF Before
<1> QED
  BY <1>3, <1>4, <1>5

\* A turn works on what is stored, a new episode starts open.
WorksOnTruth(w) ==
    \/ jobs[w].request = "turn" /\ Current(w)
    \/ jobs[w].request = "create_episode" /\ jobs[w].snapshot.state = "open"

\* What it plans leaves the conversation whole, and nothing is written yet.
PlansKeep(w) ==
    /\ OwnWrites(jobs'[w].writes, jobs'[w].episode)
    /\ \A d \in Episode : Untouched(d)
    /\ \/ jobs'[w].pc = "respond" /\ jobs[w].request # "create_episode"
       \/ /\ jobs'[w].pc = "write"
          /\ WorksOnTruth(w) =>
                 LeavesWhole(jobs'[w].writes, jobs[w].episode, jobs'[w].snapshot.state)

\* Every decision does.
LEMMA DecidedKeeps ==
    ASSUME TypeOK, WritesOwn, NEW w \in Worker, Decide(w)
    PROVE  PlansKeep(w)
<1> DEFINE e == jobs[w].episode
<1>0. jobs[w] \in Job /\ jobs \in [Worker -> Job] /\ jobs[w].pc = "decide"
  BY DecisionPlans DEF TypeOK
<1>1. ASSUME NEW response, Only(w, None, response), jobs[w].request # "create_episode"
      PROVE  PlansKeep(w)
  <2>1. /\ jobs'[w].writes = jobs[w].writes /\ jobs'[w].episode = e
        /\ jobs'[w].pc = "respond"
    BY <1>0, <1>1 DEF Only, Job
  <2>2. \A d \in Episode : Untouched(d)
    BY <1>1 DEF Only, stores, Untouched
  <2> QED
    BY <1>1, <2>1, <2>2 DEF WritesOwn, PlansKeep
<1>2. ASSUME NEW writes, NEW after, NEW kept, Promises(w, writes, after, kept), e \in Episode,
             after \in StoredEpisode, WorksOnTruth(w) => kept
      PROVE  PlansKeep(w)
  <2> DEFINE last == Put("episodes", e, after)
             all == Append(writes, last)
  <2>1. PICK number, response, runtime : Owes(w, writes, after, number, response, runtime)
    BY <1>2 DEF Promises
  <2>2. /\ jobs'[w].pc = "write" /\ jobs'[w].writes = all /\ jobs'[w].snapshot = after
        /\ jobs'[w].episode = e
    BY <1>0, <2>1 DEF Owes, Job
  <2>3. \A d \in Episode : Untouched(d)
    BY <2>1 DEF Owes, stores, Untouched
  <2>4. last \in PendingWrite /\ last.repository = "episodes" /\ last.key = e
    BY <1>2, WriteTypes DEF Put
  <2> HIDE DEF last
  <2>5. /\ OwnWrites(all, e)
        /\ LeavesWhole(writes, e, after.state) => LeavesWhole(all, e, after.state)
    BY <1>2, <2>4, EpisodeLast DEF Promises
  <2>6. kept => LeavesWhole(writes, e, after.state)
    BY <1>2 DEF Promises
  <2> HIDE DEF all
  <2> QED
    BY <1>2, <2>2, <2>3, <2>5, <2>6 DEF PlansKeep
<1>3. CASE CreateEpisode(w)
  <2>1. /\ jobs[w].request = "create_episode" /\ jobs[w].snapshot \in StoredEpisode
        /\ e \in Episode
    BY <1>3 DEF TypeOK, JobReady, CreateEpisode, Deciding
  <2>2. << >> \in Seq(PendingWrite)
    OBVIOUS
  <2>3. Promises(w, << >>, jobs[w].snapshot, jobs[w].snapshot.state = "open")
    BY <1>3, <2>2, OpenFits, NothingLeaves DEF CreateEpisode, Plan, Promises, OwnWrites
  <2>4. WorksOnTruth(w) => jobs[w].snapshot.state = "open"
    BY <2>1 DEF WorksOnTruth
  <2> QED
    BY <1>2, <2>1, <2>3, <2>4
<1>4. CASE GetCurrentProgram(w)
  BY <1>1, <1>4 DEF GetCurrentProgram, Deciding
<1>5. CASE CommandTurn(w) \/ \E intake \in Intakes : SemanticTurn(w, intake)
  <2>1. jobs[w].request = "turn"
    BY <1>5 DEF CommandTurn, Cancel,
     MissingUnderstanding, ConfirmUnderstanding, RejectUnderstanding, MissingRule,
     ConfirmRule, RejectRule, ConfirmSwitch, RejectSwitch, SemanticTurn, Fallback,
     RequestSwitch, ProposeRule, Answer, ClarifyTask, ProposeUnderstanding,
     ExecuteTask, TaskGoal, Routed, Commanded, Deciding
  <2>2. CASE Raise(w)
    <3>1. Only(w, None, "server_error") /\ jobs[w].request # "create_episode"
      BY <2>1, <2>2 DEF Raise
    <3> QED
      BY <1>1, <3>1
  <2>3. ASSUME NEW writes, NEW after, Promises(w, writes, after, Current(w)) PROVE PlansKeep(w)
    <3>1. e \in Episode
      BY <1>0, <2>1 DEF TypeOK, JobReady
    <3>2. jobs'[w].snapshot = after /\ jobs'[w].pc = "write"
      BY <1>0, <2>3 DEF Promises, Owes, Job
    <3>3. after \in StoredEpisode
      BY <3>2, DecidedJob DEF AnswersAtOnce, PlansWrites
    <3>4. WorksOnTruth(w) => Current(w)
      BY <2>1 DEF WorksOnTruth
    <3> QED
      BY <1>2, <2>3, <3>1, <3>3, <3>4
  <2> QED
    BY <1>5, <2>2, <2>3, CommandPromises, SemanticPromises
<1> QED
  BY <1>3, <1>4, <1>5 DEF Decide


\* What a write leaves where it may go to.
Replaced(write, repository, now) ==
    IF write.repository = repository THEN write.value ELSE now

\* Once the first write is carried out the others still lead to the same.
LEMMA TailLeaves ==
    ASSUME NEW writes \in Seq(PendingWrite), writes # << >>, NEW e, OwnWrites(writes, e),
           NEW repository, NEW now, NEW later, Leaves(writes, repository, now, later)
    PROVE  Leaves(Tail(writes), repository, Replaced(Head(writes), repository, now), later)
<1> DEFINE first == Head(writes)
           rest == Tail(writes)
           next == Replaced(first, repository, now)
<1>1. /\ first = writes[1] /\ Len(writes) \in Nat \ {0}
      /\ DOMAIN writes = 1..Len(writes) /\ DOMAIN rest = 1..(Len(writes) - 1)
      /\ \A i \in 1..(Len(writes) - 1) : rest[i] = writes[i + 1]
  OBVIOUS
<1> HIDE DEF first, rest
<1>2. \A i \in DOMAIN rest : i + 1 \in DOMAIN writes /\ rest[i] = writes[i + 1] /\ i + 1 # 1
  BY <1>1
<1>3. \A i \in DOMAIN writes : i # 1 => i - 1 \in DOMAIN rest /\ rest[i - 1] = writes[i]
  BY <1>1
<1>4. 1 \in DOMAIN writes
  BY <1>1
<1>5. ASSUME NEW i \in DOMAIN writes,
             writes[i].repository = repository, writes[i].value = later
      PROVE  Leaves(rest, repository, next, later)
  <2>1. CASE i = 1
    <3>1. next = later
      BY <1>1, <1>5, <2>1 DEF Replaced
    <3>2. \A j \in DOMAIN rest : rest[j].repository # repository
      BY <1>2, <1>4, <1>5, <2>1 DEF OwnWrites
    <3> QED
      BY <3>1, <3>2 DEF Leaves
  <2>2. CASE i # 1
    BY <1>3, <1>5, <2>2 DEF Leaves
  <2> QED
    BY <2>1, <2>2
<1>6. ASSUME \A i \in DOMAIN writes : writes[i].repository # repository, now = later
      PROVE  Leaves(rest, repository, next, later)
  <2>1. next = later
    BY <1>1, <1>4, <1>6 DEF Replaced
  <2>2. \A j \in DOMAIN rest : rest[j].repository # repository
    BY <1>2, <1>6
  <2> QED
    BY <2>1, <2>2 DEF Leaves
<1>7. Leaves(rest, repository, next, later)
  BY <1>5, <1>6 DEF Leaves
<1> QED
  BY <1>7 DEF first, rest

\* What a write makes of a repository: its own entry is replaced, if it is of it.
LEMMA StoredParts ==
    ASSUME NEW store, DOMAIN store = Episode, NEW name, NEW write, NEW e \in Episode,
           write.repository = name => write.key = e
    PROVE  /\ Stored(store, name, write)[e] = Replaced(write, name, store[e])
           /\ \A d \in Episode : d # e => Stored(store, name, write)[d] = store[d]
BY DEF Stored, Replaced

\* A write touches no other episode, keeps what the turn is to leave, and the last
\* one leaves it.
LEMMA WrittenKeeps ==
    ASSUME TypeOK, WritesOwn, JobsRight, NEW w \in Worker, Write(w),
           NEW e, e = jobs[w].episode, NEW state, state = jobs[w].snapshot.state
    PROVE  /\ OwnWrites(jobs'[w].writes, e)
           /\ \A d \in Episode : d # e => Untouched(d)
           /\ jobs'[w].snapshot = jobs[w].snapshot
           /\ LeavesWhole(jobs[w].writes, e, state) =>
                  /\ jobs'[w].pc = "write" => LeavesWhole(jobs[w].writes, e, state)'
                  /\ jobs'[w].pc = "respond" => Whole(e)'
<1> DEFINE writes == jobs[w].writes
           first == Head(writes)
           rest == Tail(writes)
<1>1. /\ jobs'[w].episode = e /\ jobs[w].pc = "write"
      /\ jobs'[w].pc = IF Len(writes) = 1 THEN "respond" ELSE "write"
      /\ jobs'[w].snapshot = jobs[w].snapshot /\ jobs'[w].writes = rest
  BY WrittenJob DEF SameRequest
<1>2. /\ writes \in Seq(PendingWrite) /\ writes # << >> /\ OwnWrites(writes, e)
      /\ JobRight(jobs[w], Len(versions)) /\ e \in Episode
  BY <1>1, WritingEpisode DEF TypeOK, Job, JobReady, WritesOwn, JobsRight
<1>3. /\ first = writes[1] /\ Len(writes) \in Nat \ {0} /\ first \in PendingWrite
      /\ DOMAIN writes = 1..Len(writes) /\ DOMAIN rest = 1..(Len(writes) - 1)
      /\ \A i \in 1..(Len(writes) - 1) : rest[i] = writes[i + 1]
  BY <1>2
<1>4. first.repository # "versions" => first.key = e
  BY <1>2, <1>3 DEF OwnWrites
<1>5. OwnWrites(rest, e)
  <2>1. \A i \in DOMAIN rest : i + 1 \in DOMAIN writes /\ rest[i] = writes[i + 1] /\ i \in Nat
    BY <1>3
  <2>2. \A i \in DOMAIN rest : rest[i].repository # "versions" => rest[i].key = e
    BY <1>2, <2>1 DEF OwnWrites
  <2>3. ASSUME NEW i \in DOMAIN rest, NEW j \in DOMAIN rest,
               rest[i].repository = rest[j].repository
        PROVE  i = j
    <3>1. i + 1 = j + 1
      BY <1>2, <2>1, <2>3 DEF OwnWrites
    <3> QED
      BY <2>1, <3>1
  <2> QED
    BY <2>2, <2>3 DEF OwnWrites
<1>6. /\ episodes' = Stored(episodes, "episodes", first)
      /\ rule_candidates' = Stored(rule_candidates, "rule_candidates", first)
      /\ understandings' = Stored(understandings, "understandings", first)
      /\ deferred' = Stored(deferred, "deferred", first)
  BY DEF Write
<1>0. /\ DOMAIN episodes = Episode /\ DOMAIN rule_candidates = Episode
      /\ DOMAIN understandings = Episode /\ DOMAIN deferred = Episode
  BY DEF TypeOK
<1> HIDE DEF first, rest, writes
<1>7. /\ episodes'[e] = Replaced(first, "episodes", episodes[e])
      /\ \A d \in Episode : d # e => episodes'[d] = episodes[d]
  BY <1>0, <1>2, <1>4, <1>6, StoredParts
<1>8. /\ rule_candidates'[e] = Replaced(first, "rule_candidates", rule_candidates[e])
      /\ \A d \in Episode : d # e => rule_candidates'[d] = rule_candidates[d]
  BY <1>0, <1>2, <1>4, <1>6, StoredParts
<1>9. /\ understandings'[e] = Replaced(first, "understandings", understandings[e])
      /\ \A d \in Episode : d # e => understandings'[d] = understandings[d]
  BY <1>0, <1>2, <1>4, <1>6, StoredParts
<1>10. /\ deferred'[e] = Replaced(first, "deferred", deferred[e])
       /\ \A d \in Episode : d # e => deferred'[d] = deferred[d]
  BY <1>0, <1>2, <1>4, <1>6, StoredParts
<1>11. \A d \in Episode : d # e => Untouched(d)
  BY <1>7, <1>8, <1>9, <1>10 DEF Untouched
<1>12. ASSUME LeavesWhole(writes, e, state)
       PROVE  \E candidate, understanding, before :
                 /\ Leaves(rest, "rule_candidates", rule_candidates'[e], candidate)
                 /\ Leaves(rest, "understandings", understandings'[e], understanding)
                 /\ Leaves(rest, "deferred", deferred'[e], before)
                 /\ Fits(state, candidate, understanding, before)
  <2>1. PICK candidate, understanding, before :
            /\ Leaves(writes, "rule_candidates", rule_candidates[e], candidate)
            /\ Leaves(writes, "understandings", understandings[e], understanding)
            /\ Leaves(writes, "deferred", deferred[e], before)
            /\ Fits(state, candidate, understanding, before)
    BY <1>12 DEF LeavesWhole
  <2>2. /\ Leaves(rest, "rule_candidates", rule_candidates'[e], candidate)
        /\ Leaves(rest, "understandings", understandings'[e], understanding)
        /\ Leaves(rest, "deferred", deferred'[e], before)
    BY <1>2, <1>8, <1>9, <1>10, <2>1, TailLeaves DEF first, rest
  <2> QED
    BY <2>1, <2>2
<1>13. ASSUME LeavesWhole(writes, e, state), Len(writes) = 1
       PROVE  Whole(e)'
  <2>1. DOMAIN rest = {}
    BY <1>3, <1>13
  <2>2. \A repository, now, later : Leaves(rest, repository, now, later) => now = later
    BY <2>1 DEF Leaves
  <2>3. Fits(state, rule_candidates'[e], understandings'[e], deferred'[e])
    BY <1>12, <1>13, <2>2
  <2>4. first = Put("episodes", e, jobs[w].snapshot)
    BY <1>1, <1>2, <1>3, <1>13 DEF JobRight, writes
  <2>5. episodes'[e] = jobs[w].snapshot
    BY <1>7, <2>4 DEF Put, Replaced
  <2> QED
    BY <2>3, <2>5 DEF Whole, Backed, Fits, Asked
<1>14. ASSUME LeavesWhole(writes, e, state)
       PROVE  LeavesWhole(jobs[w].writes, e, state)'
  BY <1>1, <1>12, <1>14 DEF LeavesWhole
<1> QED
  BY <1>1, <1>5, <1>11, <1>13, <1>14 DEF writes


(***************************************************************************)
(* The invariant: a calm conversation is whole between its turns, and a    *)
(* turn under way is to leave it whole.                                    *)
(***************************************************************************)

JobKeeps(w, e) ==
    /\ jobs[w].pc \in Before => WorksOnTruth(w)
    /\ jobs[w].pc = "write" => LeavesWhole(jobs[w].writes, e, jobs[w].snapshot.state)
    /\ jobs[w].pc = "respond" => Whole(e)

EpisodeKept(e) ==
    pace[e] = "calm" =>
        /\ \A w \in Worker : On(w, e) => JobKeeps(w, e)
        /\ ~Busy(e) /\ episodes[e] # None => Whole(e)

Kept == \A e \in Episode : EpisodeKept(e)

\* What happens to other episodes does not reach this one.
LEMMA QuietKept ==
    ASSUME NEW e \in Episode, EpisodeKept(e), Untouched(e),
           \A w \in Worker : On(w, e) \/ On(w, e)' => jobs'[w] = jobs[w],
           pace'[e] = "calm" => pace[e] = "calm"
    PROVE  EpisodeKept(e)'
<1>1. \A w \in Worker : /\ On(w, e)' <=> On(w, e)
                        /\ On(w, e) => jobs'[w] = jobs[w]
  BY DEF On
<1>2. Busy(e)' <=> Busy(e)
  BY <1>1 DEF Busy, On
<1>3. Whole(e)' <=> Whole(e)
  BY DEF Untouched, Whole, Backed
<1>4. ASSUME NEW w \in Worker, On(w, e), JobKeeps(w, e)
      PROVE  JobKeeps(w, e)'
  <2>1. jobs'[w] = jobs[w] /\ jobs[w].episode = e
    BY <1>1, <1>4 DEF On
  <2>2. WorksOnTruth(w) => WorksOnTruth(w)'
    BY <1>3, <2>1 DEF WorksOnTruth, Current, Untouched
  <2>3. LeavesWhole(jobs[w].writes, e, jobs[w].snapshot.state) =>
            LeavesWhole(jobs[w].writes, e, jobs[w].snapshot.state)'
    BY <2>1 DEF LeavesWhole, Untouched
  <2> QED
    BY <1>3, <1>4, <2>1, <2>2, <2>3 DEF JobKeeps
<1> QED
  BY <1>1, <1>2, <1>3, <1>4 DEF EpisodeKept, Untouched

\* An action of a worker reaches only the episode it is on.
LEMMA OthersKept ==
    ASSUME Kept, NEW w \in Worker, NEW e \in Episode, Alone(w),
           ~On(w, e), ~On(w, e)', Untouched(e), pace'[e] = "calm" => pace[e] = "calm"
    PROVE  EpisodeKept(e)'
<1>1. \A v \in Worker : On(v, e) \/ On(v, e)' => jobs'[v] = jobs[v]
  BY DEF On, Alone
<1> QED
  BY <1>1, QuietKept DEF Kept

\* A request arrives alone: it begins from what is whole.
LEMMA ArrivedKept ==
    ASSUME TypeOK, NEW w \in Worker, NEW e \in Episode, NEW request, NEW command,
           NEW snapshot, Receive(w, request, e, command, snapshot), ~Busy(e),
           \/ request = "turn" /\ snapshot = episodes[e] /\ Whole(e)
           \/ request = "create_episode" /\ snapshot.state = "open"
    PROVE  EpisodeKept(e)'
<1>1. /\ Alone(w) /\ jobs'[w].pc = "read" /\ jobs'[w].request = request
      /\ jobs'[w].episode = e /\ jobs'[w].snapshot = snapshot /\ Untouched(e)
  BY ReceivedJob, ReceivedSnapshot
<1>2. Whole(e) => Whole(e)'
  BY <1>1 DEF Untouched, Whole, Backed
<1>3. JobKeeps(w, e)'
  BY <1>1, <1>2 DEF JobKeeps, WorksOnTruth, Current, Untouched, Before
<1>4. \A v \in Worker : On(v, e)' => v = w
  BY <1>1 DEF On, Busy, Alone
<1>5. Busy(e)'
  BY <1>1 DEF Busy
<1> QED
  BY <1>3, <1>4, <1>5 DEF EpisodeKept

\* A handler under way keeps its own episode.
LEMMA HandledKept ==
    ASSUME TypeOK, CountingServer, JobsRight, Told, WritesOwn, Kept,
           NEW w \in Worker, Handle(w), NEW e \in Episode, e = jobs[w].episode
    PROVE  EpisodeKept(e)'
<1> SUFFICES ASSUME pace'[e] = "calm"
             PROVE  /\ \A v \in Worker : On(v, e)' => JobKeeps(v, e)'
                    /\ Busy(e)'
  BY DEF EpisodeKept
<1>1. Alone(w) /\ SameRequest(w) /\ jobs[w].pc # "idle" /\ jobs'[w].pc # "idle"
  BY PreparedJob, DecidedJob, WrittenJob
     DEF Handle, Before, AnswersAtOnce, PlansWrites
<1>2. On(w, e) /\ Busy(e)' /\ jobs'[w].episode = e
  BY <1>1 DEF On, Busy, SameRequest
<1>3. pace[e] = "calm"
  BY DEF Handle, page
<1>4. JobKeeps(w, e) /\ Waits(e)
  BY <1>2, <1>3 DEF Kept, EpisodeKept, Told, EpisodeTold
<1>5. \A v \in Worker : On(v, e)' => v = w
  BY <1>1, <1>2, <1>4 DEF Waits, On, Alone
<1>6. CASE ReadVersions(w) \/ Initialise(w) \/ FetchProgram(w)
  <2>1. /\ jobs[w].pc \in Before /\ jobs'[w].pc \in Before
        /\ jobs'[w].snapshot = jobs[w].snapshot /\ Untouched(e)
    BY <1>6, PreparedJob
  <2>2. Whole(e) => Whole(e)'
    BY <2>1 DEF Untouched, Whole, Backed
  <2>3. WorksOnTruth(w)'
    BY <1>1, <1>2, <1>4, <2>1, <2>2
       DEF JobKeeps, WorksOnTruth, Current, Untouched, SameRequest
  <2>4. JobKeeps(w, e)'
    BY <2>1, <2>3 DEF JobKeeps, Before
  <2> QED
    BY <1>2, <1>5, <2>4
<1>7. CASE Decide(w)
  <2>1. PlansKeep(w) /\ jobs[w].pc = "decide"
    BY <1>7, DecidedKeeps, DecidedJob
  <2>2. WorksOnTruth(w)
    BY <1>4, <2>1 DEF JobKeeps, Before
  <2>3. CASE jobs'[w].pc = "respond" /\ jobs[w].request # "create_episode"
    <3>1. Whole(e)
      BY <2>2, <2>3 DEF WorksOnTruth, Current
    <3>2. Whole(e)'
      BY <2>1, <3>1 DEF PlansKeep, Untouched, Whole, Backed
    <3>3. JobKeeps(w, e)'
      BY <2>3, <3>2 DEF JobKeeps, Before
    <3> QED
      BY <1>2, <1>5, <3>3
  <2>4. ASSUME jobs'[w].pc = "write",
               LeavesWhole(jobs'[w].writes, e, jobs'[w].snapshot.state), Untouched(e)
        PROVE  \A v \in Worker : On(v, e)' => JobKeeps(v, e)'
    <3>1. LeavesWhole(jobs[w].writes, e, jobs[w].snapshot.state)'
      BY <2>4 DEF LeavesWhole, Untouched
    <3>2. JobKeeps(w, e)'
      BY <2>4, <3>1 DEF JobKeeps, Before
    <3> QED
      BY <1>5, <3>2
  <2> QED
    BY <1>2, <2>1, <2>2, <2>3, <2>4 DEF PlansKeep
<1>8. CASE Write(w)
  <2>1. /\ jobs[w].pc = "write"
        /\ jobs'[w].pc = "write" \/ jobs'[w].pc = "respond"
    BY <1>8, WrittenJob
  <2>2. LeavesWhole(jobs[w].writes, e, jobs[w].snapshot.state)
    BY <1>4, <2>1 DEF JobKeeps
  <2>3. PICK state : state = jobs[w].snapshot.state
    OBVIOUS
  <2>4. /\ jobs'[w].snapshot = jobs[w].snapshot
        /\ jobs'[w].pc = "write" => LeavesWhole(jobs[w].writes, e, state)'
        /\ jobs'[w].pc = "respond" => Whole(e)'
    BY <1>8, <2>2, <2>3, WrittenKeeps
  <2>5. JobKeeps(w, e)'
    BY <2>1, <2>3, <2>4 DEF JobKeeps, Before
  <2> QED
    BY <1>2, <1>5, <2>5
<1> QED
  BY <1>6, <1>7, <1>8 DEF Handle


\* A handler under way touches no other episode.
LEMMA HandledOthers ==
    ASSUME TypeOK, JobsRight, WritesOwn, NEW w \in Worker, Handle(w)
    PROVE  /\ Alone(w) /\ SameRequest(w)
           /\ OwnWrites(jobs'[w].writes, jobs'[w].episode)
           /\ \A d \in Episode : d # jobs[w].episode => Untouched(d)
<1>1. CASE ReadVersions(w) \/ Initialise(w) \/ FetchProgram(w)
  BY <1>1, PreparedJob DEF WritesOwn, SameRequest
<1>2. CASE Decide(w)
  BY <1>2, DecidedJob, DecidedKeeps DEF PlansKeep
<1>3. CASE Write(w)
  <2>1. PICK e, state : e = jobs[w].episode /\ state = jobs[w].snapshot.state
    OBVIOUS
  <2>2. /\ OwnWrites(jobs'[w].writes, e)
        /\ \A d \in Episode : d # e => Untouched(d)
    BY <1>3, <2>1, WrittenKeeps
  <2>3. Alone(w) /\ SameRequest(w)
    BY <1>3, WrittenJob
  <2> QED
    BY <2>1, <2>2, <2>3 DEF SameRequest
<1> QED
  BY <1>1, <1>2, <1>3 DEF Handle

\* Every step of a page keeps the writes of every turn its own.
LEMMA WritesOwnStep ==
    ASSUME TypeOK, JobsRight, WritesOwn, [PageNext]_pageVars
    PROVE  WritesOwn'
<1>1. CASE jobs' = jobs
  BY <1>1 DEF WritesOwn
<1>2. ASSUME NEW w \in Worker, Alone(w), OwnWrites(jobs'[w].writes, jobs'[w].episode)
      PROVE  WritesOwn'
  BY <1>2 DEF WritesOwn, Alone
<1>3. \A e : OwnWrites(<< >>, e)
  BY DEF OwnWrites
<1>4. ASSUME NEW w \in Worker, NEW request, NEW e, NEW command, NEW snapshot,
             Receive(w, request, e, command, snapshot)
      PROVE  WritesOwn'
  BY <1>2, <1>3, <1>4, ReceivedJob
<1>5. ASSUME NEW w \in Worker, Respond(w) PROVE WritesOwn'
  <2>1. Alone(w) /\ jobs'[w] = Idle
    BY <1>5, AnsweredJob DEF Respond, TypeOK
  <2> QED
    BY <1>2, <1>3, <2>1 DEF Idle
<1>6. ASSUME NEW w \in Worker, Handle(w) PROVE WritesOwn'
  BY <1>2, <1>6, HandledOthers
<1> QED
  BY <1>1, <1>4, <1>5, <1>6
  DEF PageNext, Open, SubmitTurn, InspectProgram, SendProgram, Send, Show, Shows,
      ReceiveEpisode, ReceiveTurn, ReceiveProgramQuery, pageVars, vars

\* Every step of a page keeps every calm conversation.
LEMMA KeptStep ==
    ASSUME TypeOK, CountingServer, JobsRight, PageTypeOK, Told, WritesOwn, Kept,
           [PageNext]_pageVars
    PROVE  Kept'
<1>1. CASE UNCHANGED pageVars
  BY <1>1, QuietKept DEF pageVars, page, vars, stores, Untouched, Kept
<1>2. ASSUME NEW w \in Worker, NEW e \in Episode, Open(w, e) PROVE Kept'
  <2>1. /\ Receive(w, "create_episode", e, "none", Snapshot("open", 0)) /\ ~Busy(e)
        /\ pace' = pace
    BY <1>2 DEF Open, ReceiveEpisode, page
  <2>2. Snapshot("open", 0).state = "open"
    BY DEF Snapshot
  <2>3. EpisodeKept(e)'
    BY <2>1, <2>2, ArrivedKept
  <2>4. /\ Alone(w) /\ jobs[w].pc = "idle" /\ jobs'[w].episode = e
        /\ \A d \in Episode : Untouched(d)
    BY <2>1, ReceivedJob, ReceivedSnapshot
  <2>5. \A d \in Episode : d # e => EpisodeKept(d)'
    BY <2>1, <2>4, OthersKept DEF On
  <2> QED
    BY <2>3, <2>5 DEF Kept
<1>3. ASSUME NEW w \in Worker, NEW e \in Episode, NEW command \in Command,
             SubmitTurn(w, e, command)
      PROVE  Kept'
  <2>1. /\ Receive(w, "turn", e, command, episodes[e]) /\ episodes[e] # None
        /\ pace'[e] = IF Outstanding(e) THEN "hurried"
                      ELSE IF pace[e] = "hurried" THEN "repairing" ELSE pace[e]
        /\ \A d \in Episode : d # e => pace'[d] = pace[d]
    BY <1>3 DEF SubmitTurn, ReceiveTurn, PageTypeOK
  <2>2. /\ Alone(w) /\ jobs[w].pc = "idle" /\ jobs'[w].episode = e
        /\ \A d \in Episode : Untouched(d)
    BY <2>1, ReceivedJob, ReceivedSnapshot
  <2>3. \A d \in Episode : d # e => EpisodeKept(d)'
    BY <2>1, <2>2, OthersKept DEF On
  <2>4. EpisodeKept(e)'
    <3>1. CASE pace'[e] # "calm"
      BY <3>1 DEF EpisodeKept
    <3>2. CASE pace'[e] = "calm"
      <4>1. ~Busy(e) /\ pace[e] = "calm"
        BY <2>1, <3>2 DEF Outstanding
      <4>2. Whole(e)
        BY <2>1, <4>1 DEF Kept, EpisodeKept
      <4> QED
        BY <2>1, <4>1, <4>2, ArrivedKept
    <3> QED
      BY <3>1, <3>2
  <2> QED
    BY <2>3, <2>4 DEF Kept
<1>4. ASSUME NEW w \in Worker, Handle(w) PROVE Kept'
  <2>1. /\ Alone(w) /\ SameRequest(w)
        /\ \A d \in Episode : d # jobs[w].episode => Untouched(d)
    BY <1>4, HandledOthers
  <2>2. pace' = pace
    BY <1>4 DEF Handle, page
  <2>3. \A d \in Episode : d # jobs[w].episode => EpisodeKept(d)'
    BY <2>1, <2>2, OthersKept DEF On, SameRequest
  <2>4. \A d \in Episode : d = jobs[w].episode => EpisodeKept(d)'
    BY <1>4, HandledKept
  <2> QED
    BY <2>3, <2>4 DEF Kept
<1>5. ASSUME NEW w \in Worker, Send(w) PROVE Kept'
  <2>1. /\ Alone(w) /\ jobs[w].pc = "respond" /\ jobs'[w].pc = "idle"
        /\ pace' = pace /\ \A d \in Episode : Untouched(d)
    BY <1>5, AnsweredJob DEF Send, stores, Untouched
  <2>2. \A d \in Episode : d # jobs[w].episode => EpisodeKept(d)'
    BY <2>1, OthersKept DEF On
  <2>3. ASSUME NEW e \in Episode, e = jobs[w].episode, pace[e] = "calm"
        PROVE  EpisodeKept(e)'
    <3>1. On(w, e) /\ JobKeeps(w, e) /\ Waits(e)
      BY <2>1, <2>3 DEF On, Kept, EpisodeKept, Told, EpisodeTold
    <3>2. Whole(e)'
      BY <2>1, <3>1 DEF JobKeeps, Untouched, Whole, Backed
    <3>3. \A v \in Worker : ~On(v, e)'
      BY <2>1, <3>1 DEF Waits, On, Alone
    <3> QED
      BY <3>2, <3>3 DEF EpisodeKept
  <2>4. \A e \in Episode : e = jobs[w].episode => EpisodeKept(e)'
    BY <2>1, <2>3 DEF EpisodeKept
  <2> QED
    BY <2>2, <2>4 DEF Kept
<1>6. ASSUME NEW e \in Episode, NEW i \in DOMAIN answers[e], Show(e, i) PROVE Kept'
  <2>1. /\ jobs' = jobs /\ \A d \in Episode : Untouched(d)
        /\ \A d \in Episode : pace'[d] = "calm" => pace[d] = "calm"
    BY <1>6 DEF Show, Shows, vars, stores, Untouched, PageTypeOK
  <2> QED
    BY <2>1, QuietKept DEF Kept
<1>7. ASSUME NEW w \in Worker, InspectProgram(w) \/ SendProgram(w) PROVE Kept'
  <2>1. /\ Alone(w) /\ pace' = pace
        /\ \A d \in Episode : Untouched(d) /\ ~On(w, d) /\ ~On(w, d)'
    <3>1. CASE InspectProgram(w)
      BY <3>1, ReceivedJob, NoneAssumption
         DEF InspectProgram, ReceiveProgramQuery, stores, page, On, Untouched
    <3>2. CASE SendProgram(w)
      BY <3>2, AnsweredJob, ProgramIsNoPage DEF SendProgram, stores, page, On, Untouched
    <3> QED
      BY <1>7, <3>1, <3>2
  <2> QED
    BY <2>1, OthersKept DEF Kept
<1> QED
  BY <1>1, <1>2, <1>3, <1>4, <1>5, <1>6, <1>7 DEF PageNext

\* As long as its user waits, an episode between two of its turns has what its
\* state is about, and nothing pending once cancelled: for any number of pages and
\* threads, whatever other conversations do, and although a turn writes its
\* repositories one after the other.
THEOREM CalmConversationsWhole == PageSpec => []CalmConversationsStayWhole
<1>1. PageInit => WritesOwn /\ Kept
  <2> SUFFICES ASSUME PageInit PROVE WritesOwn /\ Kept
    OBVIOUS
  <2>1. /\ \A w \in Worker : jobs[w].pc = "idle" /\ jobs[w].writes = << >>
        /\ \A e \in Episode : episodes[e] = None
    BY DEF PageInit, Init, Idle
  <2> QED
    BY <2>1 DEF WritesOwn, OwnWrites, Kept, EpisodeKept, On
<1>2. /\ TypeOK /\ CountingServer /\ PageTypeOK /\ JobsRight /\ LinesSaved /\ Told
      /\ WritesOwn /\ Kept /\ [PageNext]_pageVars
      => (WritesOwn /\ Kept)'
  BY WritesOwnStep, KeptStep
<1>3. Kept => CalmConversationsStayWhole
  BY DEF Kept, EpisodeKept, CalmConversationsStayWhole
<1> QED
  BY <1>1, <1>2, <1>3, PageInvariant, PTL DEF PageSpec

=============================================================================
