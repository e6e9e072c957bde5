---------------------------- MODULE SerialTurns -----------------------------
(***************************************************************************)
(* One worker: what its handlers do, taken together, is what Orchestrator  *)
(* does in single steps.  A turn takes effect when it is decided: the      *)
(* stores of Orchestrator are those of TurnServer with the writes the      *)
(* worker still owes carried out.                                          *)
(***************************************************************************)
EXTENDS TurnServer

ASSUME OneWorker == \A v, w \in Worker : v = w
ASSUME NoneIsNoEpisode == None \notin StoredEpisode

VARIABLE turn    \* history: what the last decision answered

Started == [episode |-> None, response |-> "started", runtime |-> None]

Answered(job) ==
    [episode |-> job.episode, response |-> job.response, runtime |-> job.runtime]

Decides(w) == jobs[w].response = "none" /\ jobs'[w].response # "none"

SerialInit == Init /\ turn = Started

SerialNext ==
    /\ Next
    /\ turn' = IF \E w \in Worker : Decides(w)
               THEN Answered(jobs'[CHOOSE w \in Worker : Decides(w)]) ELSE turn

SerialSpec == SerialInit /\ [][SerialNext]_<<vars, turn>>

-----------------------------------------------------------------------------
(* The stores once every owed write is carried out.  A branch writes a      *)
(* repository at most once.                                                 *)

OwedTo(repository, writes) == {write \in writes : write.repository = repository}

TheWrite(repository, writes) == CHOOSE write \in OwedTo(repository, writes) : TRUE

Settled(store, repository, writes) ==
    IF OwedTo(repository, writes) = {} THEN store
    ELSE LET write == TheWrite(repository, writes)
         IN  [store EXCEPT ![write.key] = write.value]

SettledLog(log, writes) ==
    IF OwedTo("unknown_utterances", writes) = {} THEN log
    ELSE Logged(log, TheWrite("unknown_utterances", writes))

SettledVersions(store, writes) ==
    IF OwedTo("versions", writes) = {} THEN store
    ELSE StoredVersion(store, TheWrite("versions", writes))

\* Of an episode that is not stored, Orchestrator counts no fallbacks.
StateOf(stored) ==
    [e \in Episode |-> IF stored[e] = None THEN None ELSE stored[e].state]

CountOf(stored) ==
    [e \in Episode |-> IF stored[e] = None THEN 0 ELSE stored[e].fallback_count]

SerialEpisodes == Settled(episodes, "episodes", Owed)
SerialState == StateOf(SerialEpisodes)
SerialCount == CountOf(SerialEpisodes)
SerialCandidates == Settled(rule_candidates, "rule_candidates", Owed)
SerialUnderstandings == Settled(understandings, "understandings", Owed)
SerialDeferred == Settled(deferred, "deferred", Owed)
SerialUtterances == SettledLog(unknown_utterances, Owed)

\* The first version counts from the first answer on.
SerialVersions ==
    IF turn = Started THEN << >> ELSE SettledVersions(versions, Owed)

Serial == INSTANCE Orchestrator WITH
    state <- SerialState,
    fallback_count <- SerialCount,
    rule_candidates <- SerialCandidates,
    understandings <- SerialUnderstandings,
    deferred <- SerialDeferred,
    unknown_utterances <- SerialUtterances,
    versions <- SerialVersions

\* The handlers of one worker, with every read and write a step of its own,
\* implement the atomic turns of Orchestrator: no turn is decided from what it
\* has not read, and none leaves a write of its branch undone.
ImplementsOrchestrator == Serial!Spec

=============================================================================
