# Jeeves DAP in TLA+

Jeeves DAP is a chat backend. A message of the user is classified into an
*intake*; deterministic code then answers it, proposes a rule for the agent's
program, shows how it understood a task, or runs the task on a stub runtime.
Rules and, once a rule asks for it, tasks take effect only after the user says
yes. This directory models that control flow, alone and with requests that
overlap, model-checks it with TLC and proves its main properties with TLAPS.

All paths below are relative to the Python package (`src/jeeves_dap` of the
repository), except documents, which are under `jeeves_dap_docs_v1_1_1`.

## The system

| Part | Code | State it keeps | Operations | Must be true of it |
|---|---|---|---|---|
| Intake and validation | `domain/models.py`, `domain/validation.py` | none | item validity, sufficiency, review flags | an unclear intake never acts |
| Preprocessor | `services/deterministic_preprocessor.py` | none | exact yes / no / cancel commands | a command is found between any punctuation and never inside a text; yes and no mean something only while an answer is awaited |
| Pending switch service | `services/pending_switch_service.py`, `repositories/deferred_message_repository.py` | one deferred message per episode | request, confirm, reject, cancel | a declined switch brings the old review back whole |
| Agent program | `domain/agent_program.py`, `services/agent_program_service.py`, `repositories/agent_program_repository.py` | numbered program versions | first version, candidate, confirm, query | versions are append-only and tell the truth |
| Runtime | `services/rule_engine.py`, `services/task_runtime_stub.py`, `services/repo_review_runtime.py`, `services/verifier_stub.py` | none | plan, execute, verify | nothing unclear runs, no plan waits for an answer it will not get |
| Orchestrator | `services/orchestrator.py` | rule candidates, pending understandings, unknown utterances (repositories) | `handle_message` | see *Properties* |
| API | `api.py` | episodes (repository), user messages | create an episode, create a turn, read the program | every request is answered; one turn sees and leaves consistent stores |
| Classifiers | `services/classification.py` | none | slash commands; a language model behind a seam | a payload becomes an intake whole or not at all |
| Web page | `api.py` (`ROOT_HTML`) | episode id, status line | open an episode, post a turn, show an answer | the status line is the saved episode |
| Model routing | `services/model_routing.py` | none | constant configuration | - |

How they interact. The page creates an episode and posts a turn per message.
`create_turn` (api.py:415) reads the episode, makes sure a first program version
exists, takes the latest version, stores the message, calls `handle_message` and saves
the episode it returns. `handle_message` asks the preprocessor first; a command is
answered from the stored state and the pending repositories. Otherwise the classifier's
intake is validated and routed: unclear intakes raise the fallback count, an intake that
interrupts a review is deferred, a rule item becomes a candidate, queries and chat are
answered, a task is refused as unclear, shown for confirmation or run. The repositories
are plain dictionaries shared by all requests; there is no lock and nothing is
persisted. The page shows answers as they come in.

What is hard about it: a review can be interrupted at any point and the repositories
of one episode must stay in step with its stored state; failures between two writes
of one turn; the order in which the branches are tried, since a language model may
combine any intent with any items; counters and logs written in different places; the
policy flag and the list of rules, which are two records of one fact; a payload checked
in one place and used in another; and, because the handlers are plain `def` functions
run on a thread pool, turns that overlap, each of which decides from a snapshot and
saves that snapshot last. `PROJECT.json` lists these hazards at their lines.

## Modules

| Module | Models | Correspondence |
|---|---|---|
| `Intake` | intakes and their validation; the slash-command classifier | An item is a record; its text is a model value, of which only "blank once stripped" is kept; a scope is present or not. `FirstOfType` is `next(...)`: the first item of a type, *valid or not*. `DevIntakes` is what `DevCommandClassifier` can return. |
| `AgentProgram` | program, candidates, rules, version store | The store is a dictionary by number, here a sequence; `SaveVersion` replaces on a stored number, as the dictionary does. |
| `TaskRuntime` | plan, execution, verification | A goal is unclear, a repository review, or anything else; `Executions` is every result `execute` may return, `MayRaise` the goals for which it may raise. |
| `Routing` | preprocessor, switch test, order of the branches | `SemanticRoute` is the cascade of `handle_message` as one decision. |
| `Orchestrator` | `handle_message`, the repositories it writes, the API operations, one request at a time | One action per branch, with every write of that branch and the saving of the episode. |
| `Review` | abstract: what the dialogue promises | One object under review per conversation, present or paused; the rules adopted; the user's answer acted on; the goal run. |
| `TurnServer` | the same handlers on the threads of the server | One request per worker, split at its repository calls: read the episode, list the versions, save a first one, fetch the newest, decide, write one repository after the other, the episode last, answer. |
| `SerialTurns` | one worker of `TurnServer` | A history variable (`turn`, the last answer) and the mapping to `Orchestrator`: its stores with the writes the worker owes carried out. |
| `WebPage` | the script of `ROOT_HTML` before `TurnServer` | What each page shows, the answers on their way to it, and a history variable: did its user wait. Beside the pages anybody may inspect the program (`InspectProgram`). |
| `CommandText` | `normalize_command` and the command lists | A text is a sequence over seven classes of characters; the pipeline step by step, and beside it what an exact command is, said without the pipeline. |
| `LLMIntake` | `LLMIntakeClassifier`, and where validation and dispatch raise on what it let through | A payload is any JSON value or an object; of each field, whether it is missing, of its kind, or of another. |
| `RoutingTable` | one message from its text to its branch, without stores | Every state: preprocess, classify, validate, dispatch; an exception ends in `server_error`. |
| `ProgramLemmas`, `OrchestratorProofs`, `TurnServerProofs`, `SerialProofs`, `WebPageProofs`, `ConversationProofs`, `CommandTextProofs`, `RoutingTableProofs` | lemmas and theorems | See *Proofs*. |
| `MCOrchestrator`, `MCRoutingTable`, `MCSerialTurns`, `MCTurnServer`, `MCWebPage` | instances for TLC | The sets of intakes, payloads and texts; the symmetries. |

`Orchestrator` and `TurnServer` both extend `Routing` and `TaskRuntime` (which extends
`AgentProgram` and `Intake`), so that they share every decision and differ in where a
turn can be interrupted. `Orchestrator` instantiates `Review`, `SerialTurns`
instantiates `Orchestrator`, each with a refinement mapping; `WebPage` extends
`TurnServer` and composes its actions; `RoutingTable` extends `LLMIntake` and
`CommandText`.

State of `Orchestrator`: `state` and `fallback_count` are the stored episode;
`rule_candidates`, `understandings` and `deferred` are the three pending
repositories by episode (of a deferred message only the state to return to is ever
read); `versions` is the version store; `unknown_utterances` the log, split by
episode; `turn` is the answer of the last request. Each response names the return
statement that built it; texts are left out. Left out as never read: ids,
timestamps, the user message log, confidence, the memory and tool policies.
The states `executing` and `completed` exist in the code's type and are never
assigned.

State of `TurnServer`: the same stores (an episode is one record, as it is saved as one
object) and `jobs`. A job holds what its handler's local variables hold: the episode
it read, the program and its number, then the writes it still owes and its answer.
One dictionary operation is one step. Reading the newest version is two, because
`list_versions` sorts the numbers first and fetches the versions after; of these a turn
uses the last one only. A turn reads at most one pending object, before its first
write, so it reads it and decides in one step. A turn for an unknown episode is refused
with 404 before it does anything and is no step.

A few operators are marked *Mutant*. Each is a mapped definition with a plausible
bug seeded (a missing guard, a forgotten reset, a swapped order); `PROJECT.json`
pairs it with the property that must catch it when it takes the definition's place.

## Properties

On `Orchestrator`, where a turn is one step:

- `PendingBacked`: a stored review state has its object, and so has the state a
  pending switch will return to. The "nothing is pending" answers are dead code as
  long as requests do not overlap.
- `CancelledIsClean`: a cancelled episode left nothing in any pending repository.
- `RulesHonest`: each version lists each rule once, as enforced or future, and the
  policy flag is on exactly if an enforced rule is listed.
- `NothingUnclearRuns`: a vague task is never stored for review nor run, however many
  turns lie between.
- `NoPlanAwaitsUser`: the runtime runs every step of a plan without asking, so no plan
  it was given contains a step that wants a confirmation.
- `FallbackLadder`: the misunderstandings that the fallback count stands for are the
  last ones of the log, each recorded at its level.
- `FallbackRun`: the count is the length of the current run of misunderstood turns. Every
  turn with an understood outcome ends the run, an executed task like any other; no
  command, error or turn of another episode touches it.
- `VersionsAppendOnly`: a step adds at most one version, one past the last, with the
  old rules and one more, and changes none.
- `ImplementsReview`: the orchestrator implements `Review`. A yes accepts exactly the
  object last presented; a review ends only by an answer to it, a cancellation or a
  new object presented; a declined interruption restores the very object; no rule is
  adopted otherwise; no task runs unreviewed while an adopted rule is enforced.

On `TurnServer`, where turns overlap:

- `RulesHonest`: every version stored, or about to be, has a policy and a list of rules
  from one program that was read once.
- `VersionNumbersCountRules`: version n holds the rules of n - 1 confirmations, and
  numbers stay contiguous, also when a save replaces a version or the first version is
  saved twice.
- `NoPlanAwaitsUser`: the policy tested and the plan made come from one snapshot,
  whatever is confirmed in between.
- `EveryRequestAnswered`: each request received is answered, with an error if it must.
- `ReviewsEndByAnswer`: a conversation stops waiting for an answer only when an answer, or
  a cancellation, is being saved. Violated; see *Where code and documents disagree*.

On `SerialTurns`: `ImplementsOrchestrator`. One worker's handlers, with every read and
write a step of its own, implement the atomic turns. This is what carries the results
about `Orchestrator` (and through it `Review`) to the handlers as they run, as long as
they do not overlap.

On `WebPage`, for the user who waits for an answer before sending the next message
(*calm*) and the one who does not:

- `CalmPageTellsTruth`: a calm page with nothing under way shows the saved state and
  fallback count; and after hurried messages, one message sent alone and answered brings
  the truth back.
- `CalmConversationsStayWhole`: between two turns, a calm conversation has the object
  its state is about, and nothing pending once cancelled, although each turn writes in
  several steps, may raise before the last, and other conversations run meanwhile. Turns
  of one conversation that overlap are not in it: `ReviewsEndByAnswer` is about those.
- `CalmVersionGrows`: the program version a calm page shows never goes back, whoever
  else confirms rules.

On `RoutingTable`:

- `CommandsExact`: a text is a command exactly if the whole of it says one.
- `FailsClosed`: a payload out of shape is never acted on in part.
- `ActsAsOnIntake`: a turn that ends without an error did what a well-formed intake
  would have made it do. Therefore the other modules may take intakes straight from
  `IntakeResult`.
- `TaskBranchHasGoal`: the unguarded `next(...)` finds an item.
- `OrderlyTakesItsBranch`: an intake whose items are all valid and unambiguous, with
  those its intent needs, takes the branch of a decision table in every state: the switch
  question if it interrupts a review, else a rule if it holds one, whatever its intent,
  else its intent. An intake to cancel has no branch of its own (it falls back) and is
  left out. The table is the code's; that a task beside a rule is dropped is listed under
  *Where code and documents disagree*.

## Runs

| Run | Instance | Shows |
|---|---|---|
| `dialogue` | 1 episode, 4 texts (blank, plain, unclear, review), every intake of at most one item of any kind or two of five representative items, 2 versions, 1 recorded fallback | `TypeOK`, `PendingBacked`, `CancelledIsClean`, `NothingUnclearRuns`, `NoPlanAwaitsUser`, `ImplementsReview` |
| `history` | 1 episode, slash commands and corrections that carry a rule, 3 versions, 4 recorded fallbacks | `RulesHonest`, `FallbackLadder`, `FallbackRun`, `VersionsAppendOnly` |
| `routing` | every state; every text of at most 5 characters; every payload of at most one item of any kind or two of representative items of every type and defect, as JSON and as object | `TypeOK`, `CommandsExact`, `FailsClosed`, `ActsAsOnIntake`, `TaskBranchHasGoal`, `OrderlyTakesItsBranch` |
| `serial` | 1 worker, 1 episode, every slash command, an unclear text and a review, 2 versions, 1 recorded fallback | `ImplementsOrchestrator` |
| `overlap` | 2 workers, 1 episode, turns that overlap at will, tasks and rules of both kinds, 3 versions | `TypeOK`, `RulesHonest`, `VersionNumbersCountRules`, `NoPlanAwaitsUser` |
| `page` | 1 page, 2 workers, a user who waits or not, program queries, a task that may raise, a rule for the future, a misunderstanding, 1 version (so no rule is confirmed), 1 recorded fallback | `CalmPageTellsTruth` |
| `pages` | 2 pages whose users wait, 2 workers, program queries, tasks that may raise and the rule that has them reviewed, 2 versions | `CalmConversationsStayWhole`, `CalmVersionGrows` |
| `answered` | 2 workers, 1 episode whose client waits, program queries at any time, every slash command, a task that may raise and an unclear one, an empty store to begin with, 2 versions, 1 recorded fallback | `EveryRequestAnswered` |
| `discard` | 1 episode, slash commands | violates `NoSilentDiscard` |
| `immutable` | 2 workers, 2 episodes whose clients each wait for their answers | violates `VersionsImmutable` |
| `rejected` | 2 workers, 1 episode, overlapping | violates `RejectedIsNotSaved` |
| `stale_save` | 2 workers, 1 episode, overlapping | violates `ReviewsEndByAnswer` |

Why the bounds are enough. The stores of different episodes are disjoint except for
the program, so one episode shows everything about reviews. Two versions are needed to
see a rule in force, three to see a future rule adopted after an enforced one, or two
confirmations that overlap and save one number. One recorded fallback shows that it
changes nothing else; four go past the last level of the ladder. An intake matters only
through the first item of each type and the existence of a valid or an ambiguous one, so
two items show every disagreement between them. Five characters hold the longest command
with punctuation and a blank around it. Two workers show every order of two turns; a
third could only add another stale writer. `MaxAnswers` is 1: a message is submitted
while at most no answer is on its way, but an answer may be sent while another one
waits, so two can arrive in either order.

Episodes share only the program, so a second one matters where versions are confirmed
meanwhile. In `pages` one conversation turns on the review the other then gets, and its
confirmation falls between any two calls of the other's turn, the listing and the fetching
of versions among them. Two confirmations at once, which replace a version, need room for
three: they are in `overlap` and `immutable`, and for pages in the theorems. The users of
`pages` wait (`Overlap` is FALSE), because its properties are about such users. So does the
client of `answered`, to keep the liveness check small: there a turn overlaps with program
queries, which share the version store with it, and that store is all that one handler's
loop could depend on of another. Turns of one conversation that overlap are in `page`,
`overlap`, `rejected` and `stale_save`. The
theorems about `TurnServer` and `WebPage` hold for any number of workers and episodes, and
for users who hurry on one page and not on another.

`MaxVersions` and `MaxUnknown` guard confirmations and fallbacks; at the bound those
turns are not taken, every other one is (in `TurnServer` a confirmation is received only
if there is room for all under way, so that none is stuck half-way). Symmetry is on
workers and episodes, and only in runs of invariants and action properties: none of
these tells one from another. In the runs of `RoutingTable` deadlock is not checked: one
message is routed and the specification ends. Everywhere else it is.

**Fairness.** `TurnServer!Spec` assumes weak fairness of each worker's `Serve`: a thread
that runs a handler keeps being scheduled, and no handler waits for a lock, for another
handler or for a client, so its next step stays enabled. Nothing is assumed of clients:
whether requests come, and whether a user ever answers a review, is not up to the code.
The other specifications state no fairness and claim no liveness.

### Where code and documents disagree

Shown by a run:

- `discard`: a third message sent *instead of an answer* to the switch question is
  classified afresh; a rule in it overwrites the pending candidate without a word
  (orchestrator.py:278, pending_switch_service.py:31), against
  07_PATCH_SUMMARY_v1_1_1.md:47. `Review` allows this (`Present` in any state), so that
  the rest of the promise can be stated of the code as it is.
- `immutable`: two conversations confirm a rule each at once; both number their version
  from the one they read and the second save replaces the first, whose rule is gone
  (agent_program_repository.py:33), against agent_program_service.py:51.
- `rejected`: a rejection that overlaps a confirmation of the same rule is answered
  "rejected and not saved" (orchestrator.py:44), and the rule is saved.
- `stale_save`: a turn saves the episode it read at its start (api.py:440). A task is
  being answered when a rule is proposed in the same episode; the task's turn saves the
  state from before, and the rule is stored but no longer waits for an answer, against
  07_PATCH_SUMMARY_v1_1_1.md:47. This is why `CalmPageTellsTruth` and
  `CalmConversationsStayWhole` speak of a user who waits.

Read off the model, without a run of their own:

- A task beside a rule item is dropped for the rule (orchestrator.py:268), against
  02_TECHNICAL_SPECIFICATION.md:222-223. `OrderlyTakesItsBranch` states what the code does.
- Sufficiency looks for *some* valid item, the branches take the *first* one, so blank
  text can run or be adopted (orchestrator.py:268, 307), against
  02_TECHNICAL_SPECIFICATION.md:201-202. The models take it over (`FirstOfType`).
- A rule key that cannot be hashed, or a text that is null, is parsed, and validation
  raises on it later, outside the `try` (validation.py:25 and 33), against "parse ... or
  fail closed" (classification.py:128). `RoutingTable` ends such a turn in `server_error`.
- A `cancel` recognised by the classifier counts as a misunderstanding
  (orchestrator.py:373), against 04_DEVELOPER_HANDOFF.md:235.

## Proofs

The theorems hold for any sets of workers, episodes, texts and intakes and any bounds,
that about `SerialTurns` for any sets but that of workers, which has at most one.
Assumptions: `Blank`, `UnclearGoals`, `ReviewGoals` are texts, `Intakes` are well-formed
intakes, `None` is no text, candidate, state, episode, stored episode or status line, the
bounds are naturals; in `RoutingTable`, a message is a text and a
payload of any length, of the kinds listed there.

| Theorem | States | Argument |
|---|---|---|
| `TypeInvariant` | `Spec => []TypeOK` (`Orchestrator`) | inductive as it stands, because it includes "an episode exists only beside a version"; without it `Program` need not be a program |
| `PendingObjectsPresent`, `CancelledEpisodesClean` | `[]PendingBacked`, `[]CancelledIsClean` | inductive together with `TypeOK`; `PendingBacked` needs its second half, or declining a switch could not restore the first |
| `ProgramsHonest` | `[]RulesHonest` | strengthened by `CandidatesHonest`: a stored candidate has the mode its key derives, so what a later confirmation adopts is honest |
| `VersionsOnlyAppended` | `VersionsAppendOnly` | from `TypeOK`: the number saved is one past the last |
| `UnclearNeverRuns`, `ExecutedPlansSilent` | `[]NothingUnclearRuns`, `[]NoPlanAwaitsUser` | `RunFacts`: there are two ways to run a task, one from a stored understanding without the step that shows it, one under a program without the policy |
| `LadderHolds` | `[]FallbackLadder` | `LadderMoves`: a step records one misunderstanding at the raised count, resets one count, or touches neither |
| `CountMeasuresRun` | `Spec => FallbackRun` | one case per branch under `TypeOK`: what it makes of the count is what its response says it should |
| `DialogueKeepsPromise` | `Spec => ImplementsReview` | step simulation under `TypeOK`, `PendingBacked` and `RulesHonest`: the second gives each answer its object, the third turns "the policy is off" into "no adopted rule is enforced" |
| `ServerTypeInvariant` | `Spec => []TypeOK` (`TurnServer`) | `DecisionPlans`: every decision either answers at once or owes well-typed writes that end with its episode |
| `ProgramsHonestWhateverOverlaps` | `[]RulesHonest` (`TurnServer`) | `HonestServer` adds to it the programs the jobs have read and the candidates stored and owed: each version is made of one program and one candidate, both honest, whenever it is saved |
| `VersionsNumberedByRules` | `[]VersionNumbersCountRules` | `CountingServer` adds: the store never shrinks, so the version a job read is still below its end, and the program it read has as many rules as its number says |
| `PlansSilentWhateverOverlaps` | `[]NoPlanAwaitsUser` (`TurnServer`) | the policy and the plan come from the job's own program |
| `PageTypeInvariant` | `PageSpec => []PageTypeOK` | lines are made of snapshots |
| `CalmPagesTellTruth` | `PageSpec => []CalmPageTellsTruth` | `Told`: of an episode whose user does not hurry at most one request or answer is under way, and what it will tell is what is saved or is about to be (`JobsRight`, `LinesSaved`); a request about the program alone is on no page (`ProgramIsNoPage`) |
| `CalmVersionsGrow` | `PageSpec => CalmVersionGrows` | `LinesSaved` and `Told`: the version in every answer was stored, the store never shrinks, and the one answer under way read it after the last one shown |
| `CalmConversationsWhole` | `PageSpec => []CalmConversationsStayWhole` | `Kept`: a turn of a calm episode works on what is stored until it decides, then owes writes that leave the episode whole (`LeavesWhole`: what its repositories come to once all are carried out), each write keeps that, and the last one, of the state, completes it |
| `RoutesTyped`, `DefectsFailClosed`, `TaskTurnsHaveGoals`, `OrderlyIntakesTakeTheirBranch` | `[]TypeOK`, `[]FailsClosed`, `[]TaskBranchHasGoal`, `[]OrderlyTakesItsBranch` (`RoutingTable`) | `Decided`: what was decided follows from the message and the state alone; that a first item of a type exists is the least-number principle, from the well-foundedness of the naturals |
| `OneWorkerIsSerial` | `SerialSpec => ImplementsOrchestrator` | step simulation under `TypeOK` and `SerialRight`: until it decides, the job knows what is stored (its episode, its program, the number of it), so a decision is the atomic turn of its branch; before the first answer there is at most the first version and no episode (`Begins`), which is why nobody can tell when that version was saved; and the writes owed are of different repositories, so carrying one out changes nothing once all are counted as done (`SettledByWriting`) |
| `CommandsAreExact` | `[]CommandsExact` (`RoutingTable`) | each stage of the pipeline is a relation between a text and the text it becomes (`Cut`, `Traced`), and each keeps both ways that a text is one word, or two with only blanks between, with nothing but punctuation around; `Collapse` recurses over the text, so that it is defined, and what it builds, are shown by induction |
| `IntakesCoverTheModel` | `[]ActsAsOnIntake` | from `Decided`: validation raises on the first value not of its kind that a decision would look at, so the values it let through change nothing |

`OrchestratorProofs` and `TurnServerProofs` have one lemma per group of actions for each
invariant, in the order of `Next`; then `OrchestratorProofs` has the refinement of
`Review`, with a lemma per kind of abstract step, and `TurnServerProofs` what each step
does to its job; `ProgramLemmas` what both use about programs and rules. `SerialProofs`
is about sets of owed writes first, then the steps that decide nothing, each a stutter of
`Orchestrator`, then the decisions, each its turn; what `Orchestrator` and `TurnServer`
both take from `Routing`, `AgentProgram` and `TaskRuntime` is the same in the two
(`SameRoute`, `SameProgram`, `SameRuntime`). `WebPageProofs` has one lemma per step of
the page; `ConversationProofs` what every branch promises to leave (`CommandPromises`,
`SemanticPromises`), then the same for its writes. `ServerUnderPage` carries the theorems
of `TurnServer` to the page. `CommandTextProofs` has the induction: the library's
induction theorems take an operator as a parameter, which no installed prover can
instantiate, so a property of all prefixes of a text is proved from the least prefix that
would lack it (`LeastOf`, `Induction`), and the recursive function is shown to exist
prefix by prefix.

Only model-checked: `EveryRequestAnswered` (liveness is out of the prover's reach, as is
`ENABLED`) and the four disagreements, each of which is a counterexample.

## Not modelled

- The user message log: written once per turn and never read.
- Model routing: constants read from the environment, no state; `create_app` does not use
  it, and a lookup that raises is a payload of shape `raised`.
- Response models, their serialisation and wording, beyond the fields the page reads;
  chat bubbles, the debug view and the style sheet of the page.
- The commands and report text of the repository review, which is read-only and
  synchronous: of it the models keep its verdict and that it may raise. The component is
  therefore *partly* modelled.
- A crash or restart: nothing is persisted, so a restart is `Init`.
- The package surface, the project check and the tests.
