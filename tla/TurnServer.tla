----------------------------- MODULE TurnServer -----------------------------
(***************************************************************************)
(* The request handlers of api.py as they really run: each on a thread of  *)
(* the server's pool, over repositories they share without a lock.         *)
(*                                                                         *)
(* A request is the work of one worker, split at its repository calls in   *)
(* the order of the code.  A turn reads its episode, then the newest       *)
(* program version, then at most one pending object; from these snapshots  *)
(* it decides everything, and then it writes one repository after the      *)
(* other, its episode last.  Deciding is the branch handle_message takes;  *)
(* the writes it still owes are kept with the job.                         *)
(***************************************************************************)
EXTENDS Routing, TaskRuntime, FiniteSets

CONSTANTS Worker,        \* the threads that run handlers
          Overlap,       \* may a client send a turn before the last is answered
          Intakes,       \* the intakes the classifier may return
          None,          \* no such entry, no such field
          MaxVersions,   \* bound: the versions a behaviour may reach
          MaxUnknown     \* bound: the fallbacks recorded for one episode

ASSUME OverlapAssumption == Overlap \in BOOLEAN
ASSUME IntakesAssumption == Intakes \subseteq IntakeResult
ASSUME NoneAssumption ==
    None \notin Text \cup RuleCandidate \cup EpisodeState \cup Episode
ASSUME BoundsAssumption == MaxVersions \in Nat /\ MaxUnknown \in Nat

VARIABLES
    episodes,            \* episode repository
    rule_candidates,     \* rule candidate repository, by episode
    understandings,      \* pending understanding repository: the goal to run
    deferred,            \* deferred message repository: the state to return to
    versions,            \* program version repository, by number
    unknown_utterances,  \* the unknown utterance log, split by episode
    jobs                 \* what each worker is doing

stores == <<episodes, rule_candidates, understandings, deferred, versions,
            unknown_utterances>>
vars == <<stores, jobs>>

Snapshot(state, count) == [state |-> state, fallback_count |-> count]

Put(repository, key, value) ==
    [repository |-> repository, key |-> key, value |-> value]

Delete(repository, key) == Put(repository, key, None)

Idle == [pc |-> "idle", request |-> None, episode |-> None, command |-> "none",
         snapshot |-> None, number |-> 0, program |-> None, writes |-> << >>,
         response |-> "none", runtime |-> None]

Init ==
    /\ episodes = [e \in Episode |-> None]
    /\ rule_candidates = [e \in Episode |-> None]
    /\ understandings = [e \in Episode |-> None]
    /\ deferred = [e \in Episode |-> None]
    /\ versions = << >>
    /\ unknown_utterances = [e \in Episode |-> << >>]
    /\ jobs = [w \in Worker |-> Idle]

-----------------------------------------------------------------------------
(* Requests arrive. *)

Busy(e) == \E w \in Worker : jobs[w].pc # "idle" /\ jobs[w].episode = e

Receive(w, request, e, command, snapshot) ==
    /\ jobs[w].pc = "idle"
    /\ jobs' = [jobs EXCEPT ![w] =
                   [Idle EXCEPT !.pc = "read", !.request = request, !.episode = e,
                                !.command = command, !.snapshot = snapshot]]
    /\ UNCHANGED stores

\* An identifier is drawn afresh for every episode.
ReceiveEpisode(w, e) ==
    /\ episodes[e] = None /\ ~Busy(e)
    /\ Receive(w, "create_episode", e, "none", Snapshot("open", 0))

ReceiveProgramQuery(w) == Receive(w, "program", None, "none", None)

ConfirmsRule(command, state) ==
    command = "confirm" /\ state = "pending_rule_review"

\* The turns that may still save a version.
Confirming ==
    {w \in Worker :
        \/ /\ jobs[w].pc \in {"read", "initialise", "fetch", "decide"}
           /\ jobs[w].request = "turn"
           /\ ConfirmsRule(jobs[w].command, jobs[w].snapshot.state)
        \/ \E i \in DOMAIN jobs[w].writes : jobs[w].writes[i].repository = "versions"}

\* The stored episode is read here, and never again in this turn.  The bound
\* keeps room for every confirmation under way.
ReceiveTurn(w, e, command) ==
    /\ episodes[e] # None
    /\ Overlap \/ ~Busy(e)
    /\ Preprocess(command, episodes[e].state) = command
    /\ ConfirmsRule(command, episodes[e].state) =>
           Len(versions) + Cardinality(Confirming) < MaxVersions
    /\ Receive(w, "turn", e, command, episodes[e])

-----------------------------------------------------------------------------
(* Every request makes sure of a first version and reads the newest one:    *)
(* first the stored numbers are listed, then what is stored under the last. *)

\* Mutants: a turn works on the version create_initial_version returned; a request
\* that finds no version polls until an episode was created.
ReadVersionsTakesFirst(w) ==
    /\ jobs[w].pc = "read"
    /\ jobs' = [jobs EXCEPT ![w] =
                   IF versions = << >> THEN [@ EXCEPT !.pc = "initialise"]
                   ELSE [@ EXCEPT !.pc = "fetch", !.number = 1]]
    /\ UNCHANGED stores

ReadVersionsPolls(w) ==
    /\ jobs[w].pc = "read"
    /\ jobs' = [jobs EXCEPT ![w] =
                   IF versions = << >>
                   THEN [@ EXCEPT !.pc = IF jobs[w].request = "program"
                                         THEN "read" ELSE "initialise"]
                   ELSE [@ EXCEPT !.pc = "fetch", !.number = Len(versions)]]
    /\ UNCHANGED stores

\* A new episode is told the first version, everything else the newest.
ReadVersions(w) ==
    /\ jobs[w].pc = "read"
    /\ jobs' = [jobs EXCEPT ![w] =
                   IF versions = << >> THEN [@ EXCEPT !.pc = "initialise"]
                   ELSE [@ EXCEPT !.pc = "fetch",
                                  !.number = IF jobs[w].request = "create_episode"
                                             THEN 1 ELSE Len(versions)]]
    /\ UNCHANGED stores

\* Another version may be the newest by now, and this one may have been replaced.
FetchProgram(w) ==
    /\ jobs[w].pc = "fetch"
    /\ jobs' = [jobs EXCEPT ![w].pc = "decide", ![w].program = versions[jobs[w].number]]
    /\ UNCHANGED stores

\* Found empty a moment ago: another request may have saved it since.
Initialise(w) ==
    /\ jobs[w].pc = "initialise"
    /\ versions' = SaveVersion(versions, 1, DefaultProgram)
    /\ jobs' = [jobs EXCEPT ![w].pc = "read"]
    /\ UNCHANGED <<episodes, rule_candidates, understandings, deferred,
                   unknown_utterances>>

-----------------------------------------------------------------------------
(* Decisions.  A job decides once, from what it read, what it will write    *)
(* and answer.                                                              *)

Deciding(w, request) == jobs[w].pc = "decide" /\ jobs[w].request = request

\* The writes of a branch, then the episode it returns, saved last.
Owes(w, writes, after, number, response, runtime) ==
    /\ jobs' = [jobs EXCEPT ![w] =
                   [@ EXCEPT !.pc = "write",
                             !.writes = Append(writes, Put("episodes", jobs[w].episode, after)),
                             !.snapshot = after, !.number = number, !.program = None,
                             !.response = response, !.runtime = runtime]]
    /\ UNCHANGED stores

Plan(w, writes, after, response, runtime) ==
    Owes(w, writes, after, jobs[w].number, response, runtime)

\* Nothing is written: the answer is all there is.
Only(w, snapshot, response) ==
    /\ jobs' = [jobs EXCEPT ![w] =
                   [@ EXCEPT !.pc = "respond", !.snapshot = snapshot, !.program = None,
                             !.response = response]]
    /\ UNCHANGED stores

CreateEpisode(w) ==
    /\ Deciding(w, "create_episode")
    /\ Plan(w, << >>, jobs[w].snapshot, "episode_created", None)

GetCurrentProgram(w) ==
    /\ Deciding(w, "program")
    /\ Only(w, None, "program_current")

\* The runtime raised: the client gets a server error and no episode.
Raise(w) == Only(w, None, "server_error")

In(w, state) == jobs[w].snapshot.state = state
Becomes(w, state) == [jobs[w].snapshot EXCEPT !.state = state]

Commanded(w, command) == Deciding(w, "turn") /\ jobs[w].command = command

\* Mutant: the deferred message is forgotten.
CancelKeepsDeferred(w) ==
    LET e == jobs[w].episode IN
    /\ Commanded(w, "cancel")
    /\ Plan(w, <<Delete("rule_candidates", e), Delete("understandings", e)>>,
            Becomes(w, "cancelled"), "cancelled", None)

Cancel(w) ==
    LET e == jobs[w].episode IN
    /\ Commanded(w, "cancel")
    /\ Plan(w, <<Delete("rule_candidates", e), Delete("understandings", e),
                 Delete("deferred", e)>>,
            Becomes(w, "cancelled"), "cancelled", None)

MissingUnderstanding(w) ==
    /\ Commanded(w, "confirm") \/ Commanded(w, "reject")
    /\ In(w, "pending_understanding_review")
    /\ understandings[jobs[w].episode] = None
    /\ Plan(w, << >>, Becomes(w, "open"), "missing_understanding", None)

ConfirmUnderstanding(w) ==
    LET e == jobs[w].episode IN
    /\ Commanded(w, "confirm")
    /\ In(w, "pending_understanding_review")
    /\ understandings[e] # None
    /\ \/ \E result \in Executions(understandings[e], jobs[w].program, FALSE) :
              Plan(w, <<Delete("understandings", e)>>, Becomes(w, "open"),
                   "understanding_confirmed", result)
       \/ MayRaise(understandings[e]) /\ Raise(w)

RejectUnderstanding(w) ==
    LET e == jobs[w].episode IN
    /\ Commanded(w, "reject")
    /\ In(w, "pending_understanding_review")
    /\ understandings[e] # None
    /\ Plan(w, <<Delete("understandings", e)>>, Becomes(w, "open"),
            "understanding_rejected", None)

MissingRule(w) ==
    /\ Commanded(w, "confirm") \/ Commanded(w, "reject")
    /\ In(w, "pending_rule_review")
    /\ rule_candidates[jobs[w].episode] = None
    /\ Plan(w, << >>, Becomes(w, "open"), "missing_rule", None)

\* Mutants: the rule joins the newest rules, the policy is the one that was read;
\* the number is taken when the version is made.
ConfirmRuleMerges(w) ==
    LET e == jobs[w].episode
        confirmed == ConfirmRuleCandidate(jobs[w].program, rule_candidates[e])
        number == Len(versions) + 1
    IN
    /\ Commanded(w, "confirm")
    /\ In(w, "pending_rule_review")
    /\ rule_candidates[e] # None
    /\ Owes(w, <<Put("versions", number,
                     [confirmed EXCEPT !.rules =
                         Append(CurrentProgram(versions).rules,
                                RuleOf(rule_candidates[e]))]),
                 Delete("rule_candidates", e)>>,
            Becomes(w, "open"), number, "rule_confirmed", None)

ConfirmRuleNumbersLate(w) ==
    LET e == jobs[w].episode
        number == Len(versions) + 1
    IN
    /\ Commanded(w, "confirm")
    /\ In(w, "pending_rule_review")
    /\ rule_candidates[e] # None
    /\ Owes(w, <<Put("versions", number,
                     ConfirmRuleCandidate(jobs[w].program, rule_candidates[e])),
                 Delete("rule_candidates", e)>>,
            Becomes(w, "open"), number, "rule_confirmed", None)

\* One past the version the turn read, whatever was saved since.
ConfirmRule(w) ==
    LET e == jobs[w].episode
        number == jobs[w].number + 1
    IN
    /\ Commanded(w, "confirm")
    /\ In(w, "pending_rule_review")
    /\ rule_candidates[e] # None
    /\ Owes(w, <<Put("versions", number,
                     ConfirmRuleCandidate(jobs[w].program, rule_candidates[e])),
                 Delete("rule_candidates", e)>>,
            Becomes(w, "open"), number, "rule_confirmed", None)

RejectRule(w) ==
    LET e == jobs[w].episode IN
    /\ Commanded(w, "reject")
    /\ In(w, "pending_rule_review")
    /\ rule_candidates[e] # None
    /\ Plan(w, <<Delete("rule_candidates", e)>>, Becomes(w, "open"),
            "rule_rejected", None)

ConfirmSwitch(w) ==
    LET e == jobs[w].episode IN
    /\ Commanded(w, "confirm")
    /\ In(w, "pending_switch_confirmation")
    /\ Plan(w, <<Delete("rule_candidates", e), Delete("understandings", e),
                 Delete("deferred", e)>>,
            Becomes(w, "cancelled"), "switch_confirmed", None)

\* Mutant: the deferred message is taken to be there.
RejectSwitchUnchecked(w) ==
    LET e == jobs[w].episode IN
    /\ Commanded(w, "reject")
    /\ In(w, "pending_switch_confirmation")
    /\ Plan(w, <<Delete("deferred", e)>>, Becomes(w, deferred[e]),
            "switch_rejected", None)

RejectSwitch(w) ==
    LET e == jobs[w].episode IN
    /\ Commanded(w, "reject")
    /\ In(w, "pending_switch_confirmation")
    /\ Plan(w, <<Delete("deferred", e)>>,
            Becomes(w, IF deferred[e] = None
                       THEN "pending_rule_review" ELSE deferred[e]),
            "switch_rejected", None)

-----------------------------------------------------------------------------
(* Semantic turns. *)

Routed(w, intake, route) ==
    Commanded(w, "none") /\ SemanticRoute(jobs[w].snapshot.state, intake) = route

\* The episode of an understood turn.
Understood(w, state) == Snapshot(state, 0)
Unmoved(w) == Understood(w, jobs[w].snapshot.state)

FallbackResponse(count) ==
    IF count = 1 THEN "ask_to_clarify"
    ELSE IF count = 2 THEN "ask_to_rephrase" ELSE "suggest_verbs"

Fallback(w, intake) ==
    LET e == jobs[w].episode
        count == jobs[w].snapshot.fallback_count + 1
    IN
    /\ Routed(w, intake, "fallback")
    /\ Len(unknown_utterances[e]) < MaxUnknown
    /\ Plan(w, <<Put("unknown_utterances", e,
                     [reason |-> Reason(intake), fallback_count |-> count])>>,
            Snapshot(jobs[w].snapshot.state, count), FallbackResponse(count), None)

RequestSwitch(w, intake) ==
    /\ Routed(w, intake, "request_switch")
    /\ Plan(w, <<Put("deferred", jobs[w].episode, jobs[w].snapshot.state)>>,
            Understood(w, "pending_switch_confirmation"), "switch_requested", None)

ProposeRule(w, intake) ==
    LET e == jobs[w].episode IN
    /\ Routed(w, intake, "propose_rule")
    /\ \E i \in FirstOfType(intake.items, "rule_candidate") :
           Plan(w, <<Put("rule_candidates", e, CreateRuleCandidate(e, intake.items[i]))>>,
                Understood(w, "pending_rule_review"), "rule_proposed", None)

Answer(w, intake) ==
    /\ Routed(w, intake, intake.primary_intent)
    /\ intake.primary_intent \in {"query", "chat", "feedback", "correction"}
    /\ Plan(w, << >>, Unmoved(w), intake.primary_intent, None)

TaskGoal(w, intake, goal) ==
    /\ Routed(w, intake, "task")
    /\ \E i \in FirstOfType(intake.items, "task") : goal = intake.items[i].text

ClarifyTask(w, intake, goal) ==
    /\ TaskGoal(w, intake, goal)
    /\ RequiresClarification(goal)
    /\ Plan(w, << >>, Unmoved(w), "task_unclear", None)

ProposeUnderstanding(w, intake, goal) ==
    /\ TaskGoal(w, intake, goal)
    /\ ~RequiresClarification(goal)
    /\ jobs[w].program.show_understanding_before_execution
    /\ Plan(w, <<Put("understandings", jobs[w].episode, goal)>>,
            Understood(w, "pending_understanding_review"), "understanding_proposed",
            None)

\* Mutant: the policy tested is the one read, the program run is the newest.
ExecuteTaskOnNewest(w, intake, goal) ==
    /\ TaskGoal(w, intake, goal)
    /\ ~RequiresClarification(goal)
    /\ ~jobs[w].program.show_understanding_before_execution
    /\ \/ \E result \in Executions(goal, CurrentProgram(versions), TRUE) :
              Plan(w, << >>, Unmoved(w), "executed", result)
       \/ MayRaise(goal) /\ Raise(w)

ExecuteTask(w, intake, goal) ==
    /\ TaskGoal(w, intake, goal)
    /\ ~RequiresClarification(goal)
    /\ ~jobs[w].program.show_understanding_before_execution
    /\ \/ \E result \in Executions(goal, jobs[w].program, TRUE) :
              Plan(w, << >>, Unmoved(w), "executed", result)
       \/ MayRaise(goal) /\ Raise(w)

-----------------------------------------------------------------------------
(* What was decided is written, then answered. *)

\* Saving replaces an entry, deleting empties it.
Stored(repository, name, write) ==
    IF write.repository = name
    THEN [repository EXCEPT ![write.key] = write.value] ELSE repository

Logged(log, write) ==
    IF write.repository = "unknown_utterances"
    THEN [log EXCEPT ![write.key] = Append(@, write.value)] ELSE log

StoredVersion(store, write) ==
    IF write.repository = "versions"
    THEN SaveVersion(store, write.key, write.value) ELSE store

Write(w) ==
    LET write == Head(jobs[w].writes) IN
    /\ jobs[w].pc = "write"
    /\ episodes' = Stored(episodes, "episodes", write)
    /\ rule_candidates' = Stored(rule_candidates, "rule_candidates", write)
    /\ understandings' = Stored(understandings, "understandings", write)
    /\ deferred' = Stored(deferred, "deferred", write)
    /\ versions' = StoredVersion(versions, write)
    /\ unknown_utterances' = Logged(unknown_utterances, write)
    /\ jobs' = [jobs EXCEPT ![w].writes = Tail(@),
                            ![w].pc = IF Len(jobs[w].writes) = 1
                                      THEN "respond" ELSE "write"]

Respond(w) ==
    /\ jobs[w].pc = "respond"
    /\ jobs' = [jobs EXCEPT ![w] = Idle]
    /\ UNCHANGED stores

-----------------------------------------------------------------------------

CommandTurn(w) ==
    \/ Cancel(w)
    \/ MissingUnderstanding(w)
    \/ ConfirmUnderstanding(w)
    \/ RejectUnderstanding(w)
    \/ MissingRule(w)
    \/ ConfirmRule(w)
    \/ RejectRule(w)
    \/ ConfirmSwitch(w)
    \/ RejectSwitch(w)

SemanticTurn(w, intake) ==
    \/ Fallback(w, intake)
    \/ RequestSwitch(w, intake)
    \/ ProposeRule(w, intake)
    \/ Answer(w, intake)
    \/ \E goal \in Text : \/ ClarifyTask(w, intake, goal)
                          \/ ProposeUnderstanding(w, intake, goal)
                          \/ ExecuteTask(w, intake, goal)

Decide(w) ==
    \/ CreateEpisode(w)
    \/ GetCurrentProgram(w)
    \/ CommandTurn(w)
    \/ \E intake \in Intakes : SemanticTurn(w, intake)

\* A step of a handler under way.
Serve(w) ==
    \/ ReadVersions(w)
    \/ Initialise(w)
    \/ FetchProgram(w)
    \/ Decide(w)
    \/ Write(w)
    \/ Respond(w)

Next ==
    \E w \in Worker :
        \/ ReceiveProgramQuery(w)
        \/ \E e \in Episode : \/ ReceiveEpisode(w, e)
                              \/ \E command \in Command : ReceiveTurn(w, e, command)
        \/ Serve(w)

\* A thread that runs a handler is scheduled again and again, and nothing in a
\* handler waits for another; whether requests come is up to the clients.
Fairness == \A w \in Worker : WF_vars(Serve(w))

Spec == Init /\ [][Next]_vars /\ Fairness

-----------------------------------------------------------------------------
(* Properties. *)

Response ==
    {"none", "episode_created", "program_current", "cancelled",
     "missing_understanding", "understanding_confirmed", "understanding_rejected",
     "missing_rule", "rule_confirmed", "rule_rejected", "switch_confirmed",
     "switch_rejected", "ask_to_clarify", "ask_to_rephrase", "suggest_verbs",
     "switch_requested", "rule_proposed", "query", "chat", "feedback",
     "correction", "task_unclear", "understanding_proposed", "executed",
     "server_error"}

StoredEpisode == [state : EpisodeState, fallback_count : Nat]

Utterance == [reason : {"ambiguous_request", "missing_mandatory_fields"},
              fallback_count : Nat]

PendingWrite ==
    [repository : {"episodes"}, key : Episode, value : StoredEpisode]
    \cup [repository : {"rule_candidates"}, key : Episode,
          value : RuleCandidate \cup {None}]
    \cup [repository : {"understandings"}, key : Episode, value : Text \cup {None}]
    \cup [repository : {"deferred"}, key : Episode, value : ReviewStates \cup {None}]
    \cup [repository : {"unknown_utterances"}, key : Episode, value : Utterance]
    \cup [repository : {"versions"}, key : Nat \ {0}, value : AgentProgram]

Runtime == [goal : Text, runtime_plan : Seq(RuntimeStep),
            execution_mode : {"stub", "read_only_repo_review"},
            status : {"completed", "failed"}, verified : BOOLEAN]

Job ==
    [pc : {"idle", "read", "initialise", "fetch", "decide", "write", "respond"},
     request : {"create_episode", "program", "turn", None},
     episode : Episode \cup {None}, command : Command,
     snapshot : StoredEpisode \cup {None}, number : Nat,
     program : AgentProgram \cup {None}, writes : Seq(PendingWrite),
     response : Response, runtime : Runtime \cup {None}]

\* What a job must have when it decides and when it writes.
JobReady(job) ==
    /\ job.pc # "idle" /\ job.request # "program" => job.episode \in Episode
    /\ job.pc \in {"read", "initialise", "fetch", "decide"} /\ job.request # "program" =>
           job.snapshot \in StoredEpisode
    /\ job.pc = "decide" => job.program \in AgentProgram
    /\ job.pc = "write" <=> job.writes # << >>

\* Every store, job and answer is well formed under any interleaving, no turn
\* decides before it has an episode and a program, and no version that was listed
\* is gone when it is fetched.
TypeOK ==
    /\ episodes \in [Episode -> StoredEpisode \cup {None}]
    /\ rule_candidates \in [Episode -> RuleCandidate \cup {None}]
    /\ understandings \in [Episode -> Text \cup {None}]
    /\ deferred \in [Episode -> ReviewStates \cup {None}]
    /\ versions \in Seq(AgentProgram)
    /\ unknown_utterances \in [Episode -> Seq(Utterance)]
    /\ jobs \in [Worker -> Job]
    /\ \A w \in Worker : JobReady(jobs[w])
    /\ \A w \in Worker : jobs[w].pc = "fetch" => jobs[w].number \in DOMAIN versions

\* The writes the jobs still owe.
Owed == UNION {{jobs[w].writes[i] : i \in DOMAIN jobs[w].writes} : w \in Worker}

\* Whatever turns overlap, a version that is stored or about to be is honest:
\* its policy and its list of rules come from one program that was read once.
RulesHonest ==
    /\ \A n \in DOMAIN versions : HonestProgram(versions[n])
    /\ \A write \in Owed :
          write.repository = "versions" => HonestProgram(write.value)

\* Whatever turns overlap, version n holds the rules of n - 1 confirmations, and
\* no save leaves a gap before it: numbers stay contiguous from 1.
VersionNumbersCountRules ==
    /\ \A n \in DOMAIN versions : Len(versions[n].rules) = n - 1
    /\ \A write \in Owed :
          write.repository = "versions" =>
              /\ write.key <= Len(versions) + 1
              /\ Len(write.value.rules) = write.key - 1

\* Whatever is confirmed while a task is decided, the plan that runs was made
\* under the policy that was tested: no step of it waits for the user.
NoPlanAwaitsUser ==
    \A w \in Worker :
        jobs[w].runtime # None =>
            \A i \in DOMAIN jobs[w].runtime.runtime_plan :
                ~jobs[w].runtime.runtime_plan[i].requires_confirmation

\* Every request is answered, with an error if it must: no handler waits for
\* another one or for a client.
EveryRequestAnswered ==
    \A w \in Worker : jobs[w].pc # "idle" ~> jobs[w].pc = "idle"

\* A saved version is never changed (agent_program_service.py:51).  Violated:
\* two conversations confirm at once, and both save the same number.
VersionsImmutable ==
    [][\A n \in DOMAIN versions : versions'[n] = versions[n]]_vars

RulesFrom(e) ==
    {n \in DOMAIN versions :
        \E i \in DOMAIN versions[n].rules : versions[n].rules[i].source_episode_id = e}

\* A rule whose rejection is being answered ("rejected and not saved") is not saved
\* (orchestrator.py:44).  Violated: a confirmation that overlaps the rejection
\* read the candidate before, and saves it after.
RejectedIsNotSaved ==
    [][\A w \in Worker :
          (jobs[w].pc = "respond" /\ jobs[w].response = "rule_rejected") =>
              RulesFrom(jobs[w].episode)' \subseteq RulesFrom(jobs[w].episode)]_vars

\* The answers to a question the dialogue had asked, and the cancellation.
Settling ==
    {"understanding_confirmed", "understanding_rejected", "rule_confirmed",
     "rule_rejected", "switch_confirmed", "switch_rejected", "cancelled"}

WritesEpisode(w, e) ==
    /\ jobs[w].pc = "write" /\ Head(jobs[w].writes).repository = "episodes"
    /\ jobs[w].episode = e /\ jobs'[w] # jobs[w]

\* No message discards what is pending silently (07_PATCH_SUMMARY_v1_1_1.md:47): a
\* conversation stops waiting for an answer only when one is being saved.  Violated:
\* a turn that began before the review did saves the state it read then.
ReviewsEndByAnswer ==
    [][\A w \in Worker, e \in Episode :
          (/\ WritesEpisode(w, e)
           /\ episodes[e] # None /\ episodes[e].state \in PendingConfirmationStates
           /\ episodes'[e].state \notin PendingConfirmationStates) =>
              jobs[w].response \in Settling]_vars

=============================================================================
