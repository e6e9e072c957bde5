---------------------------- MODULE SerialProofs ----------------------------
(***************************************************************************)
(* The proof that one worker implements Orchestrator: every decision is    *)
(* the atomic turn of its branch, and every other step a stutter.          *)
(***************************************************************************)
EXTENDS SerialTurns, TurnServerProofs, FiniteSetTheorems

(***************************************************************************)
(* Settling sets of writes.                                                *)
(***************************************************************************)

\* A store to which nothing is owed stays as it is.
LEMMA NothingOwed ==
    ASSUME NEW repository, NEW writes, \A x \in writes : x.repository # repository
    PROVE  /\ OwedTo(repository, writes) = {}
           /\ \A store : Settled(store, repository, writes) = store
<1>1. OwedTo(repository, writes) = {}
  BY DEF OwedTo
<1> QED
  BY <1>1 DEF Settled

\* One to which a single write is owed takes its value.
LEMMA OneOwed ==
    ASSUME NEW repository, NEW writes, NEW x \in writes, x.repository = repository,
           \A y \in writes : y.repository = repository => y = x
    PROVE  /\ OwedTo(repository, writes) # {} /\ TheWrite(repository, writes) = x
           /\ \A store : Settled(store, repository, writes)
                             = [store EXCEPT ![x.key] = x.value]
<1>1. OwedTo(repository, writes) = {x}
  BY DEF OwedTo
<1>2. TheWrite(repository, writes) = x
  BY <1>1 DEF TheWrite
<1> QED
  BY <1>1, <1>2 DEF Settled

\* The same for the log.
LEMMA LogOwed ==
    ASSUME NEW writes
    PROVE  /\ (\A x \in writes : x.repository # "unknown_utterances") =>
                  \A log : SettledLog(log, writes) = log
           /\ \A x \in writes :
                 (/\ x.repository = "unknown_utterances"
                  /\ \A y \in writes : y.repository = "unknown_utterances" => y = x)
                 => \A log : SettledLog(log, writes) = Logged(log, x)
<1>1. ASSUME \A x \in writes : x.repository # "unknown_utterances"
      PROVE  \A log : SettledLog(log, writes) = log
  BY <1>1, NothingOwed DEF SettledLog
<1>2. ASSUME NEW x \in writes, x.repository = "unknown_utterances",
             \A y \in writes : y.repository = "unknown_utterances" => y = x
      PROVE  \A log : SettledLog(log, writes) = Logged(log, x)
  <2>1. OwedTo("unknown_utterances", writes) # {}
        /\ TheWrite("unknown_utterances", writes) = x
    BY <1>2, OneOwed
  <2> QED
    BY <2>1 DEF SettledLog
<1> QED
  BY <1>1, <1>2

\* And for the versions.
LEMMA VersionOwed ==
    ASSUME NEW writes
    PROVE  /\ (\A x \in writes : x.repository # "versions") =>
                  \A store : SettledVersions(store, writes) = store
           /\ \A x \in writes :
                 (/\ x.repository = "versions"
                  /\ \A y \in writes : y.repository = "versions" => y = x)
                 => \A store : SettledVersions(store, writes) = StoredVersion(store, x)
<1>1. ASSUME \A x \in writes : x.repository # "versions"
      PROVE  \A store : SettledVersions(store, writes) = store
  BY <1>1, NothingOwed DEF SettledVersions
<1>2. ASSUME NEW x \in writes, x.repository = "versions",
             \A y \in writes : y.repository = "versions" => y = x
      PROVE  \A store : SettledVersions(store, writes) = StoredVersion(store, x)
  <2>1. OwedTo("versions", writes) # {} /\ TheWrite("versions", writes) = x
    BY <1>2, OneOwed
  <2> QED
    BY <2>1 DEF SettledVersions
<1> QED
  BY <1>1, <1>2

\* The entries of a sequence of writes.
WritesIn(writes) == {writes[i] : i \in DOMAIN writes}

\* No two of them are of one repository.
Apart(writes) ==
    \A i, j \in DOMAIN writes :
        writes[i].repository = writes[j].repository => i = j

\* Carrying out the first write leaves every store settled as it was.
LEMMA SettledByWriting ==
    ASSUME NEW writes \in Seq(PendingWrite), writes # << >>, Apart(writes)
    PROVE  /\ \A repository, store :
                 Settled(Stored(store, repository, Head(writes)), repository,
                         WritesIn(Tail(writes)))
                     = Settled(store, repository, WritesIn(writes))
           /\ \A log : SettledLog(Logged(log, Head(writes)), WritesIn(Tail(writes)))
                           = SettledLog(log, WritesIn(writes))
           /\ \A store : SettledVersions(StoredVersion(store, Head(writes)),
                                         WritesIn(Tail(writes)))
                             = SettledVersions(store, WritesIn(writes))
<1> DEFINE first == Head(writes)
           rest == WritesIn(Tail(writes))
           all == WritesIn(writes)
<1>1. /\ first \in all /\ rest \subseteq all
      /\ \A x \in all : x = first \/ x \in rest
      /\ \A x \in rest : x.repository # first.repository
  <2>1. /\ first = writes[1] /\ 1 \in DOMAIN writes /\ Tail(writes) \in Seq(PendingWrite)
        /\ \A i \in DOMAIN Tail(writes) : i + 1 \in DOMAIN writes
                                          /\ Tail(writes)[i] = writes[i + 1]
    BY HeadTail
  <2>2. \A i \in DOMAIN writes : i = 1 \/ (i - 1 \in DOMAIN Tail(writes) /\ (i - 1) + 1 = i)
    OBVIOUS
  <2>3. \A i \in DOMAIN Tail(writes) : i + 1 # 1
    OBVIOUS
  <2> HIDE DEF first
  <2>4. first \in all
    BY <2>1 DEF WritesIn
  <2>5. rest \subseteq all
    BY <2>1 DEF WritesIn
  <2>6. \A x \in all : x = first \/ x \in rest
    <3> TAKE x \in all
    <3>1. PICK i \in DOMAIN writes : x = writes[i]
      BY DEF WritesIn
    <3>2. CASE i = 1
      BY <2>1, <3>1, <3>2
    <3>3. CASE i - 1 \in DOMAIN Tail(writes) /\ (i - 1) + 1 = i
      BY <2>1, <3>1, <3>3 DEF WritesIn
    <3> QED
      BY <2>2, <3>2, <3>3
  <2>7. \A x \in rest : x.repository # first.repository
    BY <2>1, <2>3 DEF WritesIn, Apart
  <2> QED
    BY <2>4, <2>5, <2>6, <2>7
<1> HIDE DEF first, rest, all
<1>2. \A repository :
          /\ first.repository = repository =>
                 /\ \A x \in rest : x.repository # repository
                 /\ \A y \in all : y.repository = repository => y = first
          /\ first.repository # repository =>
                 OwedTo(repository, rest) = OwedTo(repository, all)
  BY <1>1 DEF OwedTo
<1>3. ASSUME NEW repository, NEW store
      PROVE  Settled(Stored(store, repository, first), repository, rest)
                 = Settled(store, repository, all)
  <2>1. CASE first.repository = repository
    <3>1. Stored(store, repository, first) = [store EXCEPT ![first.key] = first.value]
      BY <2>1 DEF Stored
    <3>a. first \in all /\ \A y \in all : y.repository = repository => y = first
      BY <1>1, <1>2, <2>1
    <3>b. \A x \in rest : x.repository # repository
      BY <1>2, <2>1
    <3>2. Settled(store, repository, all) = [store EXCEPT ![first.key] = first.value]
      BY <2>1, <3>a, OneOwed
    <3>3. \A s : Settled(s, repository, rest) = s
      BY <3>b, NothingOwed
    <3> QED
      BY <3>1, <3>2, <3>3
  <2>2. CASE first.repository # repository
    BY <1>2, <2>2 DEF Stored, Settled, TheWrite
  <2> QED
    BY <2>1, <2>2
<1>4. ASSUME NEW log
      PROVE  SettledLog(Logged(log, first), rest) = SettledLog(log, all)
  <2>1. CASE first.repository = "unknown_utterances"
    <3>1. SettledLog(log, all) = Logged(log, first)
      BY <1>1, <1>2, <2>1, LogOwed
    <3>2. \A l : SettledLog(l, rest) = l
      BY <1>2, <2>1, LogOwed
    <3> QED
      BY <3>1, <3>2
  <2>2. CASE first.repository # "unknown_utterances"
    BY <1>2, <2>2 DEF Logged, SettledLog, TheWrite
  <2> QED
    BY <2>1, <2>2
<1>5. ASSUME NEW store
      PROVE  SettledVersions(StoredVersion(store, first), rest)
                 = SettledVersions(store, all)
  <2>1. CASE first.repository = "versions"
    <3>1. SettledVersions(store, all) = StoredVersion(store, first)
      BY <1>1, <1>2, <2>1, VersionOwed
    <3>2. \A s : SettledVersions(s, rest) = s
      BY <1>2, <2>1, VersionOwed
    <3> QED
      BY <3>1, <3>2
  <2>2. CASE first.repository # "versions"
    BY <1>2, <2>2 DEF StoredVersion, SettledVersions, TheWrite
  <2> QED
    BY <2>1, <2>2
<1> QED
  BY <1>3, <1>4, <1>5 DEF first, rest, all

\* The plans a branch may make: nothing, or one to three writes.
LEMMA PlansApart ==
    /\ WritesIn(<< >>) = {} /\ Apart(<< >>) /\ << >> \in Seq(PendingWrite)
    /\ \A a \in PendingWrite :
          WritesIn(<<a>>) = {a} /\ Apart(<<a>>) /\ <<a>> \in Seq(PendingWrite)
    /\ \A a, b \in PendingWrite :
          a.repository # b.repository =>
              /\ WritesIn(<<a, b>>) = {a, b} /\ Apart(<<a, b>>)
              /\ <<a, b>> \in Seq(PendingWrite)
    /\ \A a, b, c \in PendingWrite :
          (/\ a.repository # b.repository /\ a.repository # c.repository
           /\ b.repository # c.repository) =>
              /\ WritesIn(<<a, b, c>>) = {a, b, c} /\ Apart(<<a, b, c>>)
              /\ <<a, b, c>> \in Seq(PendingWrite)
<1>1. WritesIn(<< >>) = {} /\ Apart(<< >>) /\ << >> \in Seq(PendingWrite)
  BY DEF WritesIn, Apart
<1>2. ASSUME NEW a \in PendingWrite
      PROVE  WritesIn(<<a>>) = {a} /\ Apart(<<a>>) /\ <<a>> \in Seq(PendingWrite)
  <2>1. DOMAIN <<a>> = {1} /\ <<a>>[1] = a
    OBVIOUS
  <2> QED
    BY <2>1 DEF WritesIn, Apart
<1>3. ASSUME NEW a \in PendingWrite, NEW b \in PendingWrite,
             a.repository # b.repository
      PROVE  /\ WritesIn(<<a, b>>) = {a, b} /\ Apart(<<a, b>>)
             /\ <<a, b>> \in Seq(PendingWrite)
  <2>1. DOMAIN <<a, b>> = {1, 2} /\ <<a, b>>[1] = a /\ <<a, b>>[2] = b
    OBVIOUS
  <2> QED
    BY <1>3, <2>1 DEF WritesIn, Apart
<1>4. ASSUME NEW a \in PendingWrite, NEW b \in PendingWrite, NEW c \in PendingWrite,
             a.repository # b.repository, a.repository # c.repository,
             b.repository # c.repository
      PROVE  /\ WritesIn(<<a, b, c>>) = {a, b, c} /\ Apart(<<a, b, c>>)
             /\ <<a, b, c>> \in Seq(PendingWrite)
  <2> DEFINE s == <<a, b, c>>
  <2>1. DOMAIN s = {1, 2, 3} /\ s[1] = a /\ s[2] = b /\ s[3] = c
        /\ s \in Seq(PendingWrite)
    OBVIOUS
  <2> HIDE DEF s
  <2>2. WritesIn(s) = {a, b, c}
    BY <2>1 DEF WritesIn
  <2>3. Apart(s)
    BY <1>4, <2>1 DEF Apart
  <2> QED
    BY <2>1, <2>2, <2>3 DEF s
<1> QED
  BY <1>1, <1>2, <1>3, <1>4

\* Only what is owed to a repository matters to it.
LEMMA SameOwed ==
    ASSUME NEW writes, NEW others, NEW repository,
           OwedTo(repository, writes) = OwedTo(repository, others)
    PROVE  /\ \A store : Settled(store, repository, writes)
                             = Settled(store, repository, others)
           /\ repository = "unknown_utterances" =>
                  \A log : SettledLog(log, writes) = SettledLog(log, others)
           /\ repository = "versions" =>
                  \A store : SettledVersions(store, writes)
                                 = SettledVersions(store, others)
<1>1. TheWrite(repository, writes) = TheWrite(repository, others)
  BY DEF TheWrite
<1>2. ASSUME NEW store
      PROVE  Settled(store, repository, writes) = Settled(store, repository, others)
  BY <1>1 DEF Settled
<1> QED
  BY <1>1, <1>2 DEF SettledLog, SettledVersions

\* Nothing owed settles nothing.
LEMMA SettledByNone ==
    /\ \A store, repository : Settled(store, repository, {}) = store
    /\ \A log : SettledLog(log, {}) = log
    /\ \A store : SettledVersions(store, {}) = store
BY NothingOwed, LogOwed, VersionOwed

\* Saving one entry changes its store.
LEMMA PutSettles ==
    ASSUME NEW repository, NEW key, NEW value
    PROVE  \A store : Settled(store, repository, {Put(repository, key, value)})
                          = [store EXCEPT ![key] = value]
<1> DEFINE x == Put(repository, key, value)
<1>1. x.repository = repository /\ x.key = key /\ x.value = value
  BY DEF Put
<1> HIDE DEF x
<1>2. OwedTo(repository, {x}) = {x}
  BY <1>1 DEF OwedTo
<1>3. TheWrite(repository, {x}) = x
  BY <1>2 DEF TheWrite
<1>4. ASSUME NEW store
      PROVE  Settled(store, repository, {x}) = [store EXCEPT ![key] = value]
  <2>1. Settled(store, repository, {x}) = [store EXCEPT ![x.key] = x.value]
    BY <1>2, <1>3 DEF Settled
  <2> QED
    BY <1>1, <2>1
<1> QED
  BY <1>4 DEF x

\* It changes no other.
LEMMA PutLeaves ==
    ASSUME NEW repository, NEW key, NEW value
    PROVE  \A other : other # repository =>
               \A store : Settled(store, other, {Put(repository, key, value)}) = store
<1>1. \A y \in {Put(repository, key, value)} : y.repository = repository
  BY DEF Put
<1> QED
  BY <1>1, NothingOwed

\* The log and the versions change by a write of their own only.
LEMMA PutElsewhere ==
    ASSUME NEW repository, NEW key, NEW value
    PROVE  /\ repository # "unknown_utterances" =>
                  \A log : SettledLog(log, {Put(repository, key, value)}) = log
           /\ repository # "versions" =>
                  \A store : SettledVersions(store, {Put(repository, key, value)}) = store
<1>1. \A y \in {Put(repository, key, value)} : y.repository = repository
  BY DEF Put
<1> QED
  BY <1>1, LogOwed, VersionOwed

\* A recorded utterance is added to the log.
LEMMA PutLogs ==
    ASSUME NEW e, NEW value
    PROVE  \A log : SettledLog(log, {Put("unknown_utterances", e, value)})
                        = [log EXCEPT ![e] = Append(@, value)]
<1> DEFINE x == Put("unknown_utterances", e, value)
<1>1. x.repository = "unknown_utterances" /\ x.key = e /\ x.value = value
  BY DEF Put
<1> HIDE DEF x
<1>2. OwedTo("unknown_utterances", {x}) = {x}
  BY <1>1 DEF OwedTo
<1>3. TheWrite("unknown_utterances", {x}) = x
  BY <1>2 DEF TheWrite
<1>4. ASSUME NEW log
      PROVE  SettledLog(log, {x}) = [log EXCEPT ![e] = Append(@, value)]
  <2>1. SettledLog(log, {x}) = [log EXCEPT ![x.key] = Append(@, x.value)]
    BY <1>1, <1>2, <1>3 DEF SettledLog, Logged
  <2> QED
    BY <1>1, <2>1
<1> QED
  BY <1>4 DEF x

\* The deletions of all that is pending of an episode.
Discarded(e) ==
    {Delete("rule_candidates", e), Delete("understandings", e), Delete("deferred", e)}

\* They empty its three entries, and touch no other.
LEMMA SettledByDiscarding ==
    ASSUME NEW e
    PROVE  /\ \A repository \in {"rule_candidates", "understandings", "deferred"} :
                 \A store : Settled(store, repository, Discarded(e))
                                = [store EXCEPT ![e] = None]
           /\ \A log : SettledLog(log, Discarded(e)) = log
           /\ \A store : SettledVersions(store, Discarded(e)) = store
<1>1. /\ OwedTo("rule_candidates", Discarded(e)) = {Delete("rule_candidates", e)}
      /\ OwedTo("understandings", Discarded(e)) = {Delete("understandings", e)}
      /\ OwedTo("deferred", Discarded(e)) = {Delete("deferred", e)}
      /\ OwedTo("unknown_utterances", Discarded(e)) = {}
      /\ OwedTo("versions", Discarded(e)) = {}
  BY DEF OwedTo, Discarded, Delete, Put
<1>2. ASSUME NEW repository \in {"rule_candidates", "understandings", "deferred"},
             NEW store
      PROVE  Settled(store, repository, Discarded(e)) = [store EXCEPT ![e] = None]
  <2>1. OwedTo(repository, Discarded(e)) = {Delete(repository, e)}
    BY <1>1
  <2>2. TheWrite(repository, Discarded(e)) = Delete(repository, e)
    BY <2>1 DEF TheWrite
  <2>3. Delete(repository, e).key = e /\ Delete(repository, e).value = None
    BY DEF Delete, Put
  <2> QED
    BY <2>1, <2>2, <2>3 DEF Settled
<1> QED
  BY <1>1, <1>2 DEF SettledLog, SettledVersions

\* What confirming a rule settles: one version more, and no candidate.
LEMMA SettledByConfirming ==
    ASSUME NEW save, save.repository = "versions",
           NEW drop, drop.repository = "rule_candidates"
    PROVE  /\ \A store : SettledVersions(store, {save, drop})
                             = SaveVersion(store, save.key, save.value)
           /\ \A store : Settled(store, "understandings", {save, drop}) = store
           /\ \A store : Settled(store, "deferred", {save, drop}) = store
           /\ \A log : SettledLog(log, {save, drop}) = log
<1>1. /\ OwedTo("versions", {save, drop}) = {save}
      /\ OwedTo("understandings", {save, drop}) = {}
      /\ OwedTo("deferred", {save, drop}) = {}
      /\ OwedTo("unknown_utterances", {save, drop}) = {}
  BY DEF OwedTo
<1>2. TheWrite("versions", {save, drop}) = save
  BY <1>1 DEF TheWrite
<1>3. \A store : SettledVersions(store, {save, drop})
                    = SaveVersion(store, save.key, save.value)
  BY <1>1, <1>2 DEF SettledVersions, StoredVersion
<1> QED
  BY <1>1, <1>3 DEF Settled, SettledLog

\* The candidate is dropped.
LEMMA DroppedByConfirming ==
    ASSUME NEW save, save.repository = "versions",
           NEW drop, drop.repository = "rule_candidates"
    PROVE  \A store : Settled(store, "rule_candidates", {save, drop})
                          = [store EXCEPT ![drop.key] = drop.value]
<1>1. OwedTo("rule_candidates", {save, drop}) = {drop}
  BY DEF OwedTo
<1>2. TheWrite("rule_candidates", {save, drop}) = drop
  BY <1>1 DEF TheWrite
<1> QED
  BY <1>1, <1>2 DEF Settled

(***************************************************************************)
(* The invariant: until it decides, a job knows what is stored.            *)
(***************************************************************************)

Undecided == {"read", "initialise", "fetch", "decide"}

\* What a request brought is still true of the episodes and versions stored.
Current(job, stored, saved) ==
    /\ job.request = "program" => job.episode = None
    /\ job.request = "create_episode" =>
           stored[job.episode] = None /\ job.snapshot = Snapshot("open", 0)
    /\ job.request = "turn" =>
           /\ stored[job.episode] # None /\ job.snapshot = stored[job.episode]
           /\ Preprocess(job.command, job.snapshot.state) = job.command
           /\ ConfirmsRule(job.command, job.snapshot.state) => Len(saved) < MaxVersions

JobRight(job, stored, saved) ==
    /\ Apart(job.writes)
    /\ job.pc \in Undecided =>
           /\ job.response = "none" /\ job.runtime = None
           /\ Current(job, stored, saved)
    /\ job.pc = "initialise" => saved = << >>
    /\ job.pc \in {"fetch", "decide"} =>
           /\ saved # << >>
           /\ job.number = IF job.request = "create_episode" THEN 1 ELSE Len(saved)
    /\ job.pc = "decide" => job.program = saved[job.number]

\* Before the first answer there is at most the default version, and no episode.
Begins(answered, stored, saved) ==
    /\ answered # Started => saved # << >>
    /\ answered = Started =>
           /\ saved = << >> \/ saved = <<DefaultProgram>>
           /\ \A e \in Episode : stored[e] = None
           /\ \A w \in Worker : jobs[w].pc \notin {"write", "respond"}

SerialRight ==
    /\ Begins(turn, episodes, versions)
    /\ \A w \in Worker : JobRight(jobs[w], episodes, versions)

\* What one worker owes is all that is owed.
LEMMA OwedByOne ==
    ASSUME NEW w \in Worker
    PROVE  Owed = WritesIn(jobs[w].writes) /\ Owed' = WritesIn(jobs'[w].writes)
BY OneWorker DEF Owed, WritesIn

\* The answer is that of the decision, if the step is one.
LEMMA TurnAnswered ==
    ASSUME SerialNext, NEW w \in Worker
    PROVE  /\ Decides(w) => turn' = Answered(jobs'[w])
           /\ ~Decides(w) => turn' = turn
BY OneWorker DEF SerialNext

\* A step that leaves what is owed and stored, but for a first version before the
\* first answer, is no step of the dialogue.
LEMMA Quiet ==
    ASSUME NEW w \in Worker, turn' = turn, jobs'[w].writes = jobs[w].writes,
           UNCHANGED <<episodes, rule_candidates, understandings, deferred,
                       unknown_utterances>>,
           versions' = versions \/ turn = Started
    PROVE  UNCHANGED Serial!vars
<1>1. Owed' = Owed
  BY OwedByOne
<1>2. SerialEpisodes' = SerialEpisodes
  BY <1>1 DEF SerialEpisodes
<1>3. SerialState' = SerialState /\ SerialCount' = SerialCount
  BY <1>2 DEF SerialState, SerialCount
<1>4. /\ SerialCandidates' = SerialCandidates
      /\ SerialUnderstandings' = SerialUnderstandings
      /\ SerialDeferred' = SerialDeferred
      /\ SerialUtterances' = SerialUtterances
      /\ SerialVersions' = SerialVersions
  BY <1>1 DEF SerialCandidates, SerialUnderstandings, SerialDeferred, SerialUtterances,
     SerialVersions
<1> QED
  BY <1>3, <1>4 DEF Serial!vars

(***************************************************************************)
(* Steps that decide nothing.                                              *)
(***************************************************************************)

\* The invariant holds again when it does for the one worker.
LEMMA RightAgain ==
    ASSUME NEW w \in Worker, JobRight(jobs'[w], episodes', versions'),
           turn' # Started => versions' # << >>,
           turn' = Started =>
               /\ versions' = << >> \/ versions' = <<DefaultProgram>>
               /\ \A e \in Episode : episodes'[e] = None
               /\ jobs'[w].pc \notin {"write", "respond"}
    PROVE  SerialRight'
BY OneWorker DEF SerialRight, Begins

\* A job owes something exactly while it writes.
LEMMA OwesWriting ==
    ASSUME TypeOK, NEW w \in Worker
    PROVE  jobs[w].pc # "write" => jobs[w].writes = << >>
BY DEF TypeOK, JobReady

\* A request arrives.
LEMMA ReceivedQuietly ==
    ASSUME TypeOK, SerialRight, SerialNext, NEW w \in Worker,
           NEW request, NEW e, NEW command, NEW snapshot,
           Receive(w, request, e, command, snapshot),
           NEW job, job = [Idle EXCEPT !.pc = "read", !.request = request, !.episode = e,
                                       !.command = command, !.snapshot = snapshot],
           Current(job, episodes, versions)
    PROVE  SerialRight' /\ UNCHANGED Serial!vars
<1>1. /\ job.pc = "read" /\ job.response = "none" /\ job.runtime = None
      /\ job.writes = << >>
  BY DEF Idle
<1>2. jobs'[w] = job /\ UNCHANGED stores /\ jobs[w].pc = "idle"
  BY DEF Receive, TypeOK
<1>3. turn' = turn
  BY <1>1, <1>2, TurnAnswered DEF Decides
<1>4. jobs[w].writes = << >>
  BY <1>2, OwesWriting
<1>5. JobRight(jobs'[w], episodes', versions')
  BY <1>1, <1>2, PlansApart DEF JobRight, stores
<1>6. SerialRight'
  BY <1>1, <1>2, <1>3, <1>5, RightAgain DEF SerialRight, Begins, stores
<1>7. UNCHANGED Serial!vars
  BY <1>1, <1>2, <1>3, <1>4, Quiet DEF stores
<1> QED
  BY <1>6, <1>7

\* When a turn is received nothing is under way: there is room for its version.
LEMMA ArrivesQuietly ==
    ASSUME TypeOK, SerialRight, SerialNext, NEW w \in Worker,
           \/ ReceiveProgramQuery(w)
           \/ \E e \in Episode : \/ ReceiveEpisode(w, e)
                                 \/ \E command \in Command : ReceiveTurn(w, e, command)
    PROVE  SerialRight' /\ UNCHANGED Serial!vars
<1> DEFINE Job0(request, e, command, snapshot) ==
               [Idle EXCEPT !.pc = "read", !.request = request, !.episode = e,
                            !.command = command, !.snapshot = snapshot]
<1>1. \A request, e, command, snapshot :
          LET job == Job0(request, e, command, snapshot)
          IN  /\ job.request = request /\ job.episode = e /\ job.command = command
              /\ job.snapshot = snapshot
  BY DEF Idle
<1>2. CASE ReceiveProgramQuery(w)
  <2>1. Current(Job0("program", None, "none", None), episodes, versions)
    BY <1>1 DEF Current
  <2> QED
    BY <1>2, <2>1, ReceivedQuietly DEF ReceiveProgramQuery
<1>3. ASSUME NEW e \in Episode, ReceiveEpisode(w, e)
      PROVE  SerialRight' /\ UNCHANGED Serial!vars
  <2>1. Current(Job0("create_episode", e, "none", Snapshot("open", 0)), episodes, versions)
    BY <1>1, <1>3 DEF Current, ReceiveEpisode
  <2> QED
    BY <1>3, <2>1, ReceivedQuietly DEF ReceiveEpisode
<1>4. ASSUME NEW e \in Episode, NEW command \in Command, ReceiveTurn(w, e, command)
      PROVE  SerialRight' /\ UNCHANGED Serial!vars
  <2>1. jobs[w].pc = "idle" /\ jobs[w].writes = << >>
    BY <1>4, OwesWriting DEF ReceiveTurn, Receive
  <2>2. Confirming = {}
    BY <2>1, OneWorker DEF Confirming
  <2>3. Cardinality(Confirming) = 0
    BY <2>2, FS_EmptySet
  <2>4. ConfirmsRule(command, episodes[e].state) => Len(versions) < MaxVersions
    BY <1>4, <2>3 DEF ReceiveTurn, TypeOK
  <2>5. Current(Job0("turn", e, command, episodes[e]), episodes, versions)
    BY <1>1, <1>4, <2>4 DEF Current, ReceiveTurn
  <2> QED
    BY <1>4, <2>5, ReceivedQuietly DEF ReceiveTurn
<1> QED
  BY <1>2, <1>3, <1>4

\* The versions are listed.
LEMMA ReadQuietly ==
    ASSUME TypeOK, SerialRight, SerialNext, NEW w \in Worker, ReadVersions(w)
    PROVE  SerialRight' /\ UNCHANGED Serial!vars
<1> DEFINE job == jobs[w]
<1>0. job \in Job /\ jobs \in [Worker -> Job] /\ job.pc = "read"
  BY DEF TypeOK, ReadVersions
<1>1. /\ jobs'[w].pc = IF versions = << >> THEN "initialise" ELSE "fetch"
      /\ versions # << >> =>
             jobs'[w].number = IF job.request = "create_episode"
                               THEN 1 ELSE Len(versions)
      /\ jobs'[w].writes = job.writes /\ jobs'[w].response = job.response
      /\ jobs'[w].runtime = job.runtime /\ jobs'[w].request = job.request
      /\ jobs'[w].episode = job.episode /\ jobs'[w].snapshot = job.snapshot
      /\ jobs'[w].command = job.command
      /\ UNCHANGED stores
  BY <1>0 DEF Job, ReadVersions
<1>2. turn' = turn
  BY <1>1, TurnAnswered DEF Decides
<1>3. JobRight(job, episodes, versions)
  BY DEF SerialRight
<1>4. Current(jobs'[w], episodes, versions)
  BY <1>0, <1>1, <1>3 DEF JobRight, Current, Undecided
<1>5. JobRight(jobs'[w], episodes', versions')
  BY <1>0, <1>1, <1>3, <1>4 DEF JobRight, Undecided, stores
<1>6. SerialRight'
  BY <1>1, <1>2, <1>5, RightAgain DEF SerialRight, Begins, stores
<1>7. UNCHANGED Serial!vars
  BY <1>1, <1>2, Quiet DEF stores
<1> QED
  BY <1>6, <1>7

\* The newest one is fetched, and still the newest.
LEMMA FetchedQuietly ==
    ASSUME TypeOK, SerialRight, SerialNext, NEW w \in Worker, FetchProgram(w)
    PROVE  SerialRight' /\ UNCHANGED Serial!vars
<1> DEFINE job == jobs[w]
<1>0. job \in Job /\ jobs \in [Worker -> Job] /\ job.pc = "fetch"
  BY DEF TypeOK, FetchProgram
<1>1. /\ jobs'[w].pc = "decide" /\ jobs'[w].number = job.number
      /\ jobs'[w].program = versions[job.number]
      /\ jobs'[w].writes = job.writes /\ jobs'[w].response = job.response
      /\ jobs'[w].runtime = job.runtime /\ jobs'[w].request = job.request
      /\ jobs'[w].episode = job.episode /\ jobs'[w].snapshot = job.snapshot
      /\ jobs'[w].command = job.command
      /\ UNCHANGED stores
  BY <1>0 DEF Job, FetchProgram
<1>2. turn' = turn
  BY <1>1, TurnAnswered DEF Decides
<1>3. JobRight(job, episodes, versions)
  BY DEF SerialRight
<1>4. Current(jobs'[w], episodes, versions)
  BY <1>0, <1>1, <1>3 DEF JobRight, Current, Undecided
<1>5. JobRight(jobs'[w], episodes', versions')
  BY <1>0, <1>1, <1>3, <1>4 DEF JobRight, Undecided, stores
<1>6. SerialRight'
  BY <1>1, <1>2, <1>5, RightAgain DEF SerialRight, Begins, stores
<1>7. UNCHANGED Serial!vars
  BY <1>1, <1>2, Quiet DEF stores
<1> QED
  BY <1>6, <1>7

\* The first version is saved, before anything was answered.
LEMMA InitialisedQuietly ==
    ASSUME TypeOK, SerialRight, SerialNext, NEW w \in Worker, Initialise(w)
    PROVE  SerialRight' /\ UNCHANGED Serial!vars
<1> DEFINE job == jobs[w]
<1>0. job \in Job /\ jobs \in [Worker -> Job] /\ job.pc = "initialise"
  BY DEF TypeOK, Initialise
<1>1. /\ jobs'[w].pc = "read"
      /\ jobs'[w].writes = job.writes /\ jobs'[w].response = job.response
      /\ jobs'[w].runtime = job.runtime /\ jobs'[w].request = job.request
      /\ jobs'[w].episode = job.episode /\ jobs'[w].snapshot = job.snapshot
      /\ jobs'[w].command = job.command
      /\ UNCHANGED <<episodes, rule_candidates, understandings, deferred,
                     unknown_utterances>>
      /\ versions' = SaveVersion(versions, 1, DefaultProgram)
  BY <1>0 DEF Job, Initialise
<1>2. turn' = turn
  BY <1>1, TurnAnswered DEF Decides
<1>3. JobRight(job, episodes, versions) /\ versions = << >>
  BY <1>0 DEF SerialRight, JobRight
<1>4. versions' = <<DefaultProgram>> /\ versions' # << >>
  BY <1>1, <1>3, DefaultProgramType DEF SaveVersion
<1>5. turn = Started /\ \A e \in Episode : episodes[e] = None
  BY <1>3 DEF SerialRight, Begins
<1>6. Current(job, episodes, versions) /\ job.request # "turn"
  <2>1. Current(job, episodes, versions)
    BY <1>0, <1>3 DEF JobRight, Undecided
  <2>2. job.request = "turn" => job.episode \in Episode
    BY <1>0 DEF TypeOK, JobReady
  <2> QED
    BY <1>5, <2>1, <2>2 DEF Current
<1>7. Current(jobs'[w], episodes', versions')
  BY <1>1, <1>6 DEF Current
<1>8. JobRight(jobs'[w], episodes', versions')
  BY <1>0, <1>1, <1>3, <1>7 DEF JobRight, Undecided
<1>9. SerialRight'
  BY <1>1, <1>2, <1>4, <1>5, <1>8, RightAgain
<1>10. UNCHANGED Serial!vars
  BY <1>1, <1>2, <1>5, Quiet
<1> QED
  BY <1>9, <1>10

\* A write that was owed is carried out.
LEMMA WrittenQuietly ==
    ASSUME TypeOK, SerialRight, SerialNext, NEW w \in Worker, Write(w)
    PROVE  SerialRight' /\ UNCHANGED Serial!vars
<1> DEFINE job == jobs[w]
           first == Head(job.writes)
<1>0. /\ job \in Job /\ jobs \in [Worker -> Job] /\ job.pc = "write"
      /\ job.writes \in Seq(PendingWrite) /\ job.writes # << >>
      /\ versions \in Seq(AgentProgram)
  BY DEF TypeOK, JobReady, Job, Write
<1>1. /\ jobs'[w].pc \in {"write", "respond"}
      /\ jobs'[w].writes = Tail(job.writes) /\ jobs'[w].response = job.response
  BY <1>0 DEF Job, Write
<1>2. turn' = turn
  BY <1>1, TurnAnswered DEF Decides
<1>3. JobRight(job, episodes, versions) /\ Apart(job.writes)
  BY DEF SerialRight, JobRight
<1>4. Apart(Tail(job.writes))
  <2>1. /\ Tail(job.writes) \in Seq(PendingWrite)
        /\ \A i \in DOMAIN Tail(job.writes) :
              i + 1 \in DOMAIN job.writes /\ Tail(job.writes)[i] = job.writes[i + 1]
    BY <1>0, HeadTail
  <2>2. \A i, j \in DOMAIN Tail(job.writes) : i \in Nat /\ j \in Nat
    BY <2>1
  <2> QED
    BY <1>3, <2>1, <2>2 DEF Apart
<1>5. JobRight(jobs'[w], episodes', versions')
  BY <1>1, <1>4 DEF JobRight, Undecided
<1>6. turn # Started /\ versions # << >>
  BY <1>0 DEF SerialRight, Begins
<1>7. versions' = StoredVersion(versions, first)
  BY DEF Write
<1>8. versions' # << >>
  <2>1. first \in PendingWrite
    BY <1>0, HeadTail
  <2>2. first.repository = "versions" =>
            first.key \in Nat \ {0} /\ first.value \in AgentProgram
    BY <2>1, WriteParts
  <2>3. DOMAIN versions \subseteq DOMAIN versions'
    BY <1>0, <1>7, <2>2, SavedVersions DEF StoredVersion
  <2>4. 1 \in DOMAIN versions
    BY <1>0, <1>6
  <2>5. 1 \in DOMAIN versions' /\ DOMAIN << >> = {}
    BY <2>3, <2>4
  <2> QED
    BY <2>5
<1>9. SerialRight'
  BY <1>2, <1>5, <1>6, <1>8, RightAgain
<1>10. UNCHANGED Serial!vars
  <2>1. Owed = WritesIn(job.writes) /\ Owed' = WritesIn(Tail(job.writes))
    BY <1>1, OwedByOne
  <2>2. /\ episodes' = Stored(episodes, "episodes", first)
        /\ rule_candidates' = Stored(rule_candidates, "rule_candidates", first)
        /\ understandings' = Stored(understandings, "understandings", first)
        /\ deferred' = Stored(deferred, "deferred", first)
        /\ unknown_utterances' = Logged(unknown_utterances, first)
    BY DEF Write
  <2>3. /\ \A repository, store :
              Settled(Stored(store, repository, first), repository,
                      WritesIn(Tail(job.writes)))
                  = Settled(store, repository, WritesIn(job.writes))
        /\ \A log : SettledLog(Logged(log, first), WritesIn(Tail(job.writes)))
                        = SettledLog(log, WritesIn(job.writes))
        /\ \A store : SettledVersions(StoredVersion(store, first),
                                      WritesIn(Tail(job.writes)))
                          = SettledVersions(store, WritesIn(job.writes))
    BY <1>0, <1>3, SettledByWriting
  <2> HIDE DEF first, job
  <2>4. /\ SerialEpisodes' = SerialEpisodes
        /\ SerialCandidates' = SerialCandidates
        /\ SerialUnderstandings' = SerialUnderstandings
        /\ SerialDeferred' = SerialDeferred
        /\ SerialUtterances' = SerialUtterances
        /\ SerialVersions' = SerialVersions
    BY <1>2, <1>7, <2>1, <2>2, <2>3 DEF SerialEpisodes, SerialCandidates,
       SerialUnderstandings, SerialDeferred, SerialUtterances, SerialVersions
  <2>5. SerialState' = SerialState /\ SerialCount' = SerialCount
    BY <2>4 DEF SerialState, SerialCount
  <2> QED
    BY <1>2, <2>4, <2>5 DEF Serial!vars
<1> QED
  BY <1>9, <1>10

\* The request is answered.
LEMMA AnsweredQuietly ==
    ASSUME TypeOK, SerialRight, SerialNext, NEW w \in Worker, Respond(w)
    PROVE  SerialRight' /\ UNCHANGED Serial!vars
<1>1. /\ jobs'[w] = Idle /\ UNCHANGED stores /\ jobs[w].pc = "respond"
  BY DEF Respond, TypeOK
<1>2. Idle.pc = "idle" /\ Idle.response = "none" /\ Idle.writes = << >>
  BY DEF Idle
<1>3. turn' = turn
  BY <1>1, <1>2, TurnAnswered DEF Decides
<1>4. jobs[w].writes = << >>
  BY <1>1, OwesWriting
<1>5. JobRight(jobs'[w], episodes', versions')
  BY <1>1, <1>2, PlansApart DEF JobRight, Undecided
<1>6. SerialRight'
  BY <1>1, <1>2, <1>3, <1>5, RightAgain DEF SerialRight, Begins, stores
<1>7. UNCHANGED Serial!vars
  BY <1>1, <1>2, <1>3, <1>4, Quiet DEF stores
<1> QED
  BY <1>6, <1>7

(***************************************************************************)
(* A decision takes effect at once in the stores of the dialogue.          *)
(***************************************************************************)

\* What the stores of the dialogue become when a job decides on some writes.
Turned(w, writes, after, response, runtime) ==
    LET e == jobs[w].episode IN
    /\ turn' = [episode |-> e, response |-> response, runtime |-> runtime]
    /\ SerialState' = [SerialState EXCEPT ![e] = after.state]
    /\ SerialCount' = [SerialCount EXCEPT ![e] = after.fallback_count]
    /\ SerialCandidates' = Settled(rule_candidates, "rule_candidates", writes)
    /\ SerialUnderstandings' = Settled(understandings, "understandings", writes)
    /\ SerialDeferred' = Settled(deferred, "deferred", writes)
    /\ SerialUtterances' = SettledLog(unknown_utterances, writes)
    /\ SerialVersions' = SettledVersions(versions, writes)

\* Before it, nothing is owed.
LEMMA NothingOwedYet ==
    ASSUME TypeOK, SerialRight, NEW w \in Worker, jobs[w].pc = "decide"
    PROVE  /\ Owed = {} /\ versions # << >>
           /\ SerialEpisodes = episodes
           /\ SerialCandidates = rule_candidates
           /\ SerialUnderstandings = understandings
           /\ SerialDeferred = deferred
           /\ SerialUtterances = unknown_utterances
           /\ turn # Started => SerialVersions = versions
           /\ turn = Started => SerialVersions = << >> /\ versions = <<DefaultProgram>>
<1>1. Owed = {}
  BY OwesWriting, OwedByOne, PlansApart
<1>2. versions # << >>
  BY DEF SerialRight, JobRight
<1>3. turn = Started => versions = <<DefaultProgram>>
  BY <1>2 DEF SerialRight, Begins
<1> QED
  BY <1>1, <1>2, <1>3, SettledByNone DEF SerialEpisodes, SerialCandidates,
     SerialUnderstandings, SerialDeferred, SerialUtterances, SerialVersions

\* A job that decides on writes owes them, and its episode last.
LEMMA OwingTurns ==
    ASSUME TypeOK, SerialRight, SerialNext, NEW w \in Worker, jobs[w].pc = "decide",
           jobs[w].episode \in Episode,
           NEW writes \in Seq(PendingWrite), Apart(writes),
           \A x \in WritesIn(writes) : x.repository # "episodes",
           NEW after \in StoredEpisode, NEW number,
           NEW response \in Response \ {"none"}, NEW runtime,
           Owes(w, writes, after, number, response, runtime)
    PROVE  SerialRight' /\ Turned(w, WritesIn(writes), after, response, runtime)
<1> DEFINE e == jobs[w].episode
           last == Put("episodes", e, after)
           all == Append(writes, last)
<1>0. /\ jobs[w] \in Job /\ jobs \in [Worker -> Job]
      /\ JobRight(jobs[w], episodes, versions)
      /\ jobs[w].response = "none"
  BY DEF TypeOK, SerialRight, JobRight, Undecided
<1>1. /\ jobs'[w].pc = "write" /\ jobs'[w].writes = all
      /\ jobs'[w].response = response /\ jobs'[w].runtime = runtime
      /\ jobs'[w].episode = e
      /\ UNCHANGED stores
  BY <1>0 DEF Job, Owes
<1>2. last.repository = "episodes" /\ last.key = e /\ last.value = after
  BY DEF Put
<1>3. last \in PendingWrite
  BY WriteTypes
<1> HIDE DEF last
<1>4. /\ Len(all) = Len(writes) + 1 /\ all[Len(writes) + 1] = last
      /\ \A i \in 1..Len(writes) : all[i] = writes[i]
      /\ DOMAIN writes = 1..Len(writes) /\ DOMAIN all = 1..(Len(writes) + 1)
      /\ Len(writes) \in Nat
  BY <1>3, AppendParts
<1> HIDE DEF all
<1>5. WritesIn(all) = WritesIn(writes) \cup {last}
  <2>1. \A i \in DOMAIN all : i \in DOMAIN writes \/ i = Len(writes) + 1
    BY <1>4
  <2>2. Len(writes) + 1 \in DOMAIN all /\ \A i \in DOMAIN writes : i \in DOMAIN all
    BY <1>4
  <2> QED
    BY <1>4, <2>1, <2>2 DEF WritesIn
<1>6. Apart(all)
  <2>1. \A i \in DOMAIN writes : writes[i].repository # "episodes"
    BY DEF WritesIn
  <2>2. \A i \in DOMAIN all : i \in DOMAIN writes \/ i = Len(writes) + 1
    BY <1>4
  <2> QED
    BY <1>2, <1>4, <2>1, <2>2 DEF Apart
<1>7. turn' = [episode |-> e, response |-> response, runtime |-> runtime]
  BY <1>0, <1>1, TurnAnswered DEF Decides, Answered
<1>8. turn' # Started
  BY <1>7 DEF Started, Response
<1>9. SerialRight'
  <2>1. JobRight(jobs'[w], episodes', versions')
    BY <1>1, <1>6 DEF JobRight, Undecided
  <2> QED
    BY <1>1, <1>8, <2>1, NothingOwedYet, RightAgain DEF stores
<1>10. Owed' = WritesIn(writes) \cup {last}
  BY <1>1, <1>5, OwedByOne
<1>11. \A repository :
           repository # "episodes" =>
               OwedTo(repository, Owed') = OwedTo(repository, WritesIn(writes))
  BY <1>2, <1>10 DEF OwedTo
<1>12. OwedTo("episodes", Owed') = {last}
  BY <1>2, <1>10 DEF OwedTo
<1>13. SerialEpisodes' = [episodes EXCEPT ![e] = after]
  <2>1. TheWrite("episodes", Owed') = last
    BY <1>12 DEF TheWrite
  <2> QED
    BY <1>1, <1>2, <1>12, <2>1 DEF SerialEpisodes, Settled, stores
<1>14. /\ SerialCandidates' = Settled(rule_candidates, "rule_candidates", WritesIn(writes))
       /\ SerialUnderstandings' = Settled(understandings, "understandings", WritesIn(writes))
       /\ SerialDeferred' = Settled(deferred, "deferred", WritesIn(writes))
       /\ SerialUtterances' = SettledLog(unknown_utterances, WritesIn(writes))
       /\ SerialVersions' = SettledVersions(versions, WritesIn(writes))
  <2> DEFINE owed == Owed'
             W == WritesIn(writes)
  <2>0. \A repository \in {"rule_candidates", "understandings", "deferred",
                           "unknown_utterances", "versions"} :
            OwedTo(repository, owed) = OwedTo(repository, W)
    BY <1>11
  <2>1. /\ SerialCandidates' = Settled(rule_candidates, "rule_candidates", owed)
        /\ SerialUnderstandings' = Settled(understandings, "understandings", owed)
        /\ SerialDeferred' = Settled(deferred, "deferred", owed)
        /\ SerialUtterances' = SettledLog(unknown_utterances, owed)
        /\ SerialVersions' = SettledVersions(versions, owed)
    BY <1>1, <1>8 DEF SerialCandidates, SerialUnderstandings, SerialDeferred,
       SerialUtterances, SerialVersions, stores
  <2> HIDE DEF owed, W
  <2>2. /\ Settled(rule_candidates, "rule_candidates", owed)
              = Settled(rule_candidates, "rule_candidates", W)
        /\ Settled(understandings, "understandings", owed)
              = Settled(understandings, "understandings", W)
        /\ Settled(deferred, "deferred", owed) = Settled(deferred, "deferred", W)
        /\ SettledLog(unknown_utterances, owed) = SettledLog(unknown_utterances, W)
        /\ SettledVersions(versions, owed) = SettledVersions(versions, W)
    BY <2>0, SameOwed
  <2> QED
    BY <2>1, <2>2 DEF W
<1>15. /\ SerialState' = [SerialState EXCEPT ![e] = after.state]
       /\ SerialCount' = [SerialCount EXCEPT ![e] = after.fallback_count]
  <2>1. after # None /\ episodes \in [Episode -> StoredEpisode \cup {None}]
    BY NoneIsNoEpisode DEF TypeOK
  <2>2. SerialEpisodes = episodes
    BY NothingOwedYet
  <2> QED
    BY <1>13, <2>1, <2>2 DEF SerialState, SerialCount, StateOf, CountOf
<1> QED
  BY <1>7, <1>9, <1>14, <1>15 DEF Turned

\* A job that answers at once owes nothing.
LEMMA AnsweringTurns ==
    ASSUME TypeOK, SerialRight, SerialNext, NEW w \in Worker, jobs[w].pc = "decide",
           NEW response \in Response \ {"none"}, Only(w, None, response)
    PROVE  /\ SerialRight'
           /\ turn' = [episode |-> jobs[w].episode, response |-> response,
                        runtime |-> None]
           /\ SerialVersions' = versions
           /\ UNCHANGED <<SerialState, SerialCount, SerialCandidates,
                           SerialUnderstandings, SerialDeferred, SerialUtterances>>
<1>0. /\ jobs[w] \in Job /\ jobs \in [Worker -> Job]
      /\ jobs[w].response = "none" /\ jobs[w].runtime = None
      /\ jobs[w].writes = << >>
  BY OwesWriting DEF TypeOK, SerialRight, JobRight, Undecided
<1>1. /\ jobs'[w].pc = "respond" /\ jobs'[w].writes = << >>
      /\ jobs'[w].response = response /\ jobs'[w].runtime = None
      /\ jobs'[w].episode = jobs[w].episode
      /\ UNCHANGED stores
  BY <1>0 DEF Job, Only
<1>2. turn' = [episode |-> jobs[w].episode, response |-> response, runtime |-> None]
  BY <1>0, <1>1, TurnAnswered DEF Decides, Answered
<1>3. turn' # Started
  BY <1>2 DEF Started, Response
<1>4. SerialRight'
  <2>1. JobRight(jobs'[w], episodes', versions')
    BY <1>1, PlansApart DEF JobRight, Undecided
  <2> QED
    BY <1>1, <1>3, <2>1, NothingOwedYet, RightAgain DEF stores
<1>5. Owed' = {} /\ Owed = {}
  BY <1>1, OwedByOne, PlansApart, NothingOwedYet
<1>6. /\ SerialEpisodes' = SerialEpisodes
      /\ SerialCandidates' = SerialCandidates
      /\ SerialUnderstandings' = SerialUnderstandings
      /\ SerialDeferred' = SerialDeferred
      /\ SerialUtterances' = SerialUtterances
      /\ SerialVersions' = versions
  BY <1>1, <1>3, <1>5, SettledByNone DEF SerialEpisodes, SerialCandidates,
     SerialUnderstandings, SerialDeferred, SerialUtterances, SerialVersions, stores
<1>7. SerialState' = SerialState /\ SerialCount' = SerialCount
  BY <1>6 DEF SerialState, SerialCount
<1> QED
  BY <1>2, <1>4, <1>6, <1>7

(***************************************************************************)
(* The decisions both specifications share: what Orchestrator takes from   *)
(* Routing, AgentProgram and TaskRuntime is what TurnServer takes.         *)
(***************************************************************************)

\* A command means the same.
LEMMA SameCommand ==
    ASSUME NEW command, NEW state
    PROVE  Serial!Preprocess(command, state) = Preprocess(command, state)
BY DEF Serial!Preprocess, Preprocess, Serial!PendingConfirmationStates,
   PendingConfirmationStates, Serial!ReviewStates, ReviewStates

\* An intake takes the same branch, and names the same items.
LEMMA SameRoute ==
    ASSUME NEW state, NEW intake
    PROVE  /\ Serial!SemanticRoute(state, intake) = SemanticRoute(state, intake)
           /\ Serial!Reason(intake) = Reason(intake)
           /\ \A type : Serial!FirstOfType(intake.items, type)
                            = FirstOfType(intake.items, type)
<1>1. \A type : /\ Serial!HasItem(intake, type) = HasItem(intake, type)
                /\ Serial!HasValidItem(intake, type) = HasValidItem(intake, type)
  BY DEF Serial!HasItem, HasItem, Serial!HasValidItem, HasValidItem, Serial!IsValid,
     IsValid, Serial!RequiresText, RequiresText
<1>2. Serial!ComputeUnderstandingSufficiency(intake)
          = ComputeUnderstandingSufficiency(intake)
  BY <1>1 DEF Serial!ComputeUnderstandingSufficiency, ComputeUnderstandingSufficiency,
     Serial!MandatoryItem, MandatoryItem
<1>3. Serial!NeedsClarification(intake) = NeedsClarification(intake)
  BY <1>1, <1>2 DEF Serial!NeedsClarification, NeedsClarification
<1>4. Serial!RequiresUserReview(intake) = RequiresUserReview(intake)
  BY <1>1, <1>3 DEF Serial!RequiresUserReview, RequiresUserReview
<1>5. Serial!ShouldRequestSwitch(state, intake) = ShouldRequestSwitch(state, intake)
  BY DEF Serial!ShouldRequestSwitch, ShouldRequestSwitch, Serial!ReviewStates, ReviewStates
<1>6. Serial!SemanticRoute(state, intake) = SemanticRoute(state, intake)
  BY <1>1, <1>3, <1>4, <1>5 DEF Serial!SemanticRoute, SemanticRoute
<1>7. Serial!Reason(intake) = Reason(intake)
  BY <1>1 DEF Serial!Reason, Reason
<1>8. \A type : Serial!FirstOfType(intake.items, type) = FirstOfType(intake.items, type)
  BY DEF Serial!FirstOfType, FirstOfType
<1> QED
  BY <1>6, <1>7, <1>8

\* A candidate becomes the same rule, and a version is saved the same way.
LEMMA SameProgram ==
    /\ \A saved : Serial!CurrentProgram(saved) = CurrentProgram(saved)
    /\ \A saved : Serial!CreateInitialVersion(saved) = CreateInitialVersion(saved)
    /\ \A saved : Serial!NextVersionNumber(saved) = NextVersionNumber(saved)
    /\ \A saved, number, program :
          Serial!SaveVersion(saved, number, program) = SaveVersion(saved, number, program)
    /\ \A program, candidate :
          Serial!ConfirmRuleCandidate(program, candidate)
              = ConfirmRuleCandidate(program, candidate)
    /\ \A e, item : Serial!CreateRuleCandidate(e, item) = CreateRuleCandidate(e, item)
<1>1. \A saved, number, program :
          Serial!SaveVersion(saved, number, program) = SaveVersion(saved, number, program)
  BY DEF Serial!SaveVersion, SaveVersion
<1>2. \A saved : Serial!CreateInitialVersion(saved) = CreateInitialVersion(saved)
  BY <1>1 DEF Serial!CreateInitialVersion, CreateInitialVersion, Serial!DefaultProgram,
     DefaultProgram
<1>3. \A candidate : Serial!RuleOf(candidate) = RuleOf(candidate)
  BY DEF Serial!RuleOf, RuleOf
<1>4. \A program, candidate :
          Serial!ConfirmRuleCandidate(program, candidate)
              = ConfirmRuleCandidate(program, candidate)
  BY <1>3 DEF Serial!ConfirmRuleCandidate, ConfirmRuleCandidate
<1>5. \A e, item : Serial!CreateRuleCandidate(e, item) = CreateRuleCandidate(e, item)
  BY DEF Serial!CreateRuleCandidate, CreateRuleCandidate,
     Serial!DeriveRuleApplicationMode, DeriveRuleApplicationMode, Serial!KnownRuleKeys,
     KnownRuleKeys
<1> QED
  BY <1>1, <1>2, <1>4, <1>5 DEF Serial!CurrentProgram, CurrentProgram,
     Serial!NextVersionNumber, NextVersionNumber

\* A goal runs the same way.
LEMMA SameRuntime ==
    /\ \A goal, program, include :
          Serial!Executions(goal, program, include) = Executions(goal, program, include)
    /\ \A goal : Serial!MayRaise(goal) = MayRaise(goal)
    /\ \A goal : Serial!RequiresClarification(goal) = RequiresClarification(goal)
<1>1. \A program, include :
          Serial!BuildRuntimePlan(program, include) = BuildRuntimePlan(program, include)
  BY DEF Serial!BuildRuntimePlan, BuildRuntimePlan, Serial!Step, Step
<1>2. \A goal, plan, mode, status :
          Serial!RuntimeResult(goal, plan, mode, status)
              = RuntimeResult(goal, plan, mode, status)
  BY DEF Serial!RuntimeResult, RuntimeResult, Serial!VerifyStatus, VerifyStatus
<1>3. Serial!ReviewVerdicts = ReviewVerdicts
  BY DEF Serial!ReviewVerdicts, ReviewVerdicts
<1>4. ASSUME NEW goal, NEW program, NEW include
      PROVE  Serial!Executions(goal, program, include) = Executions(goal, program, include)
  BY <1>1, <1>2, <1>3 DEF Serial!Executions, Executions
<1> QED
  BY <1>4 DEF Serial!MayRaise, MayRaise, Serial!RequiresClarification,
     RequiresClarification

(***************************************************************************)
(* Commands.                                                               *)
(***************************************************************************)

\* A turn that decides has read what the dialogue's stores hold.
LEMMA TurnKnows ==
    ASSUME TypeOK, SerialRight, NEW w \in Worker, NEW command, Commanded(w, command)
    PROVE  LET e == jobs[w].episode IN
           /\ e \in Episode /\ jobs[w].snapshot \in StoredEpisode
           /\ jobs[w].pc = "decide" /\ jobs[w].program \in AgentProgram
           /\ SerialState[e] = jobs[w].snapshot.state /\ SerialState[e] # None
           /\ SerialCount[e] = jobs[w].snapshot.fallback_count
           /\ SerialCandidates = rule_candidates
           /\ SerialUnderstandings = understandings
           /\ SerialDeferred = deferred
           /\ SerialUtterances = unknown_utterances
           /\ SerialVersions = versions
           /\ versions \in Seq(AgentProgram) /\ versions # << >>
           /\ jobs[w].program = Serial!Program /\ jobs[w].number = Len(versions)
           /\ Serial!Receives(e, command)
           /\ ConfirmsRule(command, SerialState[e]) => Len(versions) < MaxVersions
<1> DEFINE e == jobs[w].episode
<1>1. /\ e \in Episode /\ jobs[w].snapshot \in StoredEpisode
      /\ jobs[w].pc = "decide" /\ jobs[w].request = "turn"
      /\ jobs[w].program \in AgentProgram /\ jobs[w].command = command
  BY TurnReady DEF Commanded
<1>2. JobRight(jobs[w], episodes, versions)
  BY DEF SerialRight
<1>3. /\ episodes[e] # None /\ jobs[w].snapshot = episodes[e]
      /\ Preprocess(command, jobs[w].snapshot.state) = command
      /\ ConfirmsRule(command, jobs[w].snapshot.state) => Len(versions) < MaxVersions
      /\ versions # << >> /\ jobs[w].number = Len(versions)
      /\ jobs[w].program = versions[Len(versions)]
  BY <1>1, <1>2 DEF JobRight, Current, Undecided
<1>4. turn # Started
  BY <1>1, <1>3 DEF SerialRight, Begins
<1>5. SerialEpisodes = episodes
  BY <1>1, NothingOwedYet
<1>6. SerialState[e] = jobs[w].snapshot.state
  BY <1>1, <1>3, <1>5 DEF SerialState, StateOf
<1>7. SerialCount[e] = jobs[w].snapshot.fallback_count
  BY <1>1, <1>3, <1>5 DEF SerialCount, CountOf
<1>8. SerialState[e] # None
  BY <1>1, <1>6, NoneAssumption DEF StoredEpisode
<1>9. SerialVersions = versions /\ versions \in Seq(AgentProgram)
  BY <1>1, <1>4, NothingOwedYet DEF TypeOK
<1>10. jobs[w].program = Serial!Program
  BY <1>3, <1>9, SameProgram DEF Serial!Program, CurrentProgram
<1>11. Serial!Receives(e, command)
  BY <1>3, <1>6, <1>8, SameCommand DEF Serial!Receives
<1> QED
  BY <1>1, <1>3, <1>6, <1>7, <1>8, <1>9, <1>10, <1>11, NothingOwedYet

\* What a turn that decides on some writes makes of the dialogue's stores.
Steps(w, writes, state, count, response, runtime) ==
    LET e == jobs[w].episode IN
    /\ SerialRight'
    /\ turn' = [episode |-> e, response |-> response, runtime |-> runtime]
    /\ SerialState' = [SerialState EXCEPT ![e] = state]
    /\ SerialCount' = [SerialCount EXCEPT ![e] = count]
    /\ SerialCandidates' = Settled(SerialCandidates, "rule_candidates", writes)
    /\ SerialUnderstandings' = Settled(SerialUnderstandings, "understandings", writes)
    /\ SerialDeferred' = Settled(SerialDeferred, "deferred", writes)
    /\ SerialUtterances' = SettledLog(SerialUtterances, writes)
    /\ SerialVersions' = SettledVersions(SerialVersions, writes)

\* A state or a count that is set to what it is does not change.
LEMMA SameState ==
    ASSUME NEW e \in Episode
    PROVE  /\ [SerialState EXCEPT ![e] = SerialState[e]] = SerialState
           /\ [SerialCount EXCEPT ![e] = SerialCount[e]] = SerialCount
BY DEF SerialState, SerialCount, StateOf, CountOf

\* A turn that owes its writes takes such a step.
LEMMA TurnSteps ==
    ASSUME TypeOK, SerialRight, SerialNext, NEW w \in Worker,
           NEW command, Commanded(w, command),
           NEW writes \in Seq(PendingWrite), Apart(writes),
           \A x \in WritesIn(writes) : x.repository # "episodes",
           NEW after \in StoredEpisode, NEW number,
           NEW response \in Response \ {"none"}, NEW runtime,
           Owes(w, writes, after, number, response, runtime)
    PROVE  Steps(w, WritesIn(writes), after.state, after.fallback_count, response, runtime)
<1>1. /\ jobs[w].pc = "decide" /\ jobs[w].episode \in Episode
      /\ SerialCandidates = rule_candidates /\ SerialUnderstandings = understandings
      /\ SerialDeferred = deferred /\ SerialUtterances = unknown_utterances
      /\ SerialVersions = versions
  BY TurnKnows
<1>2. SerialRight' /\ Turned(w, WritesIn(writes), after, response, runtime)
  BY <1>1, OwingTurns
<1> QED
  BY <1>1, <1>2 DEF Turned, Steps

\* A command moves the episode to a state and leaves its count.
LEMMA CommandSteps ==
    ASSUME TypeOK, SerialRight, SerialNext, NEW w \in Worker,
           NEW command, Commanded(w, command),
           NEW writes \in Seq(PendingWrite), Apart(writes),
           \A x \in WritesIn(writes) : x.repository # "episodes",
           NEW state \in EpisodeState, NEW number,
           NEW response \in Response \ {"none"}, NEW runtime,
           Owes(w, writes, Becomes(w, state), number, response, runtime)
    PROVE  /\ Steps(w, WritesIn(writes), state, SerialCount[jobs[w].episode],
                    response, runtime)
           /\ SerialCount' = SerialCount
<1>1. /\ jobs[w].snapshot \in StoredEpisode /\ jobs[w].episode \in Episode
      /\ SerialCount[jobs[w].episode] = jobs[w].snapshot.fallback_count
  BY TurnKnows
<1>2. /\ Becomes(w, state) \in StoredEpisode /\ Becomes(w, state).state = state
      /\ Becomes(w, state).fallback_count = jobs[w].snapshot.fallback_count
  BY <1>1 DEF Becomes, StoredEpisode
<1>3. Steps(w, WritesIn(writes), state, SerialCount[jobs[w].episode], response, runtime)
  BY <1>1, <1>2, TurnSteps
<1> QED
  BY <1>1, <1>3, SameState DEF Steps

\* A deletion, alone.
LEMMA Deletion ==
    ASSUME NEW e \in Episode,
           NEW repository \in {"rule_candidates", "understandings", "deferred"}
    PROVE  /\ Delete(repository, e) \in PendingWrite
           /\ Delete(repository, e).repository = repository
           /\ <<Delete(repository, e)>> \in Seq(PendingWrite)
           /\ Apart(<<Delete(repository, e)>>)
           /\ WritesIn(<<Delete(repository, e)>>) = {Delete(repository, e)}
<1>1. Delete(repository, e) \in PendingWrite
  BY WriteTypes
<1>2. Delete(repository, e).repository = repository
  BY DEF Delete, Put
<1> QED
  BY <1>1, <1>2, PlansApart

\* All three of them.
LEMMA Deletions ==
    ASSUME NEW e \in Episode
    PROVE  LET all == <<Delete("rule_candidates", e), Delete("understandings", e),
                        Delete("deferred", e)>>
           IN  /\ all \in Seq(PendingWrite) /\ Apart(all)
               /\ WritesIn(all) = Discarded(e)
               /\ \A x \in Discarded(e) : x.repository # "episodes"
<1> DEFINE rule == Delete("rule_candidates", e)
           goal == Delete("understandings", e)
           message == Delete("deferred", e)
<1>1. /\ rule \in PendingWrite /\ rule.repository = "rule_candidates"
      /\ goal \in PendingWrite /\ goal.repository = "understandings"
      /\ message \in PendingWrite /\ message.repository = "deferred"
  BY Deletion
<1>2. Discarded(e) = {rule, goal, message}
  BY DEF Discarded
<1> HIDE DEF rule, goal, message
<1>3. /\ <<rule, goal, message>> \in Seq(PendingWrite)
      /\ Apart(<<rule, goal, message>>)
      /\ WritesIn(<<rule, goal, message>>) = Discarded(e)
  BY <1>1, <1>2, PlansApart
<1>4. \A x \in Discarded(e) : x.repository # "episodes"
  BY <1>1, <1>2
<1> QED
  BY <1>3, <1>4 DEF rule, goal, message

\* Cancelling, and confirming a switch, give up all that is pending.
LEMMA CancelSteps ==
    ASSUME TypeOK, SerialRight, SerialNext, NEW w \in Worker, Cancel(w) \/ ConfirmSwitch(w)
    PROVE  SerialRight' /\ \E e \in Episode : Serial!CommandTurn(e)
<1> DEFINE e == jobs[w].episode
           all == <<Delete("rule_candidates", e), Delete("understandings", e),
                    Delete("deferred", e)>>
<1>1. ASSUME NEW command, Commanded(w, command),
             NEW response \in Response \ {"none"},
             Owes(w, all, Becomes(w, "cancelled"), jobs[w].number, response, None)
      PROVE  /\ e \in Episode /\ SerialRight'
             /\ turn' = [episode |-> e, response |-> response, runtime |-> None]
             /\ SerialState' = [SerialState EXCEPT ![e] = "cancelled"]
             /\ SerialCandidates' = [SerialCandidates EXCEPT ![e] = None]
             /\ SerialUnderstandings' = [SerialUnderstandings EXCEPT ![e] = None]
             /\ SerialDeferred' = [SerialDeferred EXCEPT ![e] = None]
             /\ UNCHANGED <<SerialCount, SerialVersions, SerialUtterances>>
  <2>1. e \in Episode
    BY <1>1, TurnKnows
  <2>2. /\ all \in Seq(PendingWrite) /\ Apart(all) /\ WritesIn(all) = Discarded(e)
        /\ \A x \in Discarded(e) : x.repository # "episodes"
    BY <2>1, Deletions
  <2>3. /\ Steps(w, Discarded(e), "cancelled", SerialCount[e], response, None)
        /\ SerialCount' = SerialCount
    <3> HIDE DEF all
    <3>1. "cancelled" \in EpisodeState
      BY DEF EpisodeState
    <3> QED
      BY <1>1, <2>2, <3>1, CommandSteps
  <2> QED
    BY <2>1, <2>3, SettledByDiscarding DEF Steps
<1>2. CASE Cancel(w)
  <2>1. /\ Commanded(w, "cancel")
        /\ Owes(w, all, Becomes(w, "cancelled"), jobs[w].number, "cancelled", None)
    BY <1>2 DEF Cancel, Plan
  <2>2. Serial!Receives(e, "cancel")
    BY <2>1, TurnKnows
  <2>3. "cancelled" \in Response \ {"none"}
    BY DEF Response
  <2> HIDE DEF all, e
  <2>4. Serial!Cancel(e) /\ e \in Episode /\ SerialRight'
    BY <1>1, <2>1, <2>2, <2>3 DEF Serial!Cancel, Serial!Reply
  <2> QED
    BY <2>4 DEF Serial!CommandTurn
<1>3. CASE ConfirmSwitch(w)
  <2>1. /\ Commanded(w, "confirm") /\ In(w, "pending_switch_confirmation")
        /\ Owes(w, all, Becomes(w, "cancelled"), jobs[w].number, "switch_confirmed", None)
    BY <1>3 DEF ConfirmSwitch, Plan
  <2>2. Serial!Receives(e, "confirm") /\ SerialState[e] = "pending_switch_confirmation"
    BY <2>1, TurnKnows DEF In
  <2>3. "switch_confirmed" \in Response \ {"none"}
    BY DEF Response
  <2> HIDE DEF all, e
  <2>4. Serial!ConfirmSwitch(e) /\ e \in Episode /\ SerialRight'
    BY <1>1, <2>1, <2>2, <2>3 DEF Serial!ConfirmSwitch, Serial!Reply
  <2> QED
    BY <2>4 DEF Serial!CommandTurn
<1> QED
  BY <1>2, <1>3

\* A turn that answers only what there is nothing to confirm or reject.
LEMMA MissingSteps ==
    ASSUME TypeOK, SerialRight, SerialNext, NEW w \in Worker,
           MissingUnderstanding(w) \/ MissingRule(w)
    PROVE  SerialRight' /\ \E e \in Episode : Serial!CommandTurn(e)
<1> DEFINE e == jobs[w].episode
<1>1. ASSUME NEW command, Commanded(w, command),
             NEW response \in Response \ {"none"},
             Owes(w, << >>, Becomes(w, "open"), jobs[w].number, response, None)
      PROVE  /\ e \in Episode /\ SerialRight'
             /\ turn' = [episode |-> e, response |-> response, runtime |-> None]
             /\ SerialState' = [SerialState EXCEPT ![e] = "open"]
             /\ UNCHANGED <<SerialCount, SerialCandidates, SerialUnderstandings,
                            SerialDeferred, SerialVersions, SerialUtterances>>
  <2>1. "open" \in EpisodeState
    BY DEF EpisodeState
  <2>2. /\ << >> \in Seq(PendingWrite) /\ Apart(<< >>) /\ WritesIn(<< >>) = {}
        /\ \A x \in WritesIn(<< >>) : x.repository # "episodes"
    BY PlansApart
  <2>3. /\ Steps(w, {}, "open", SerialCount[e], response, None)
        /\ SerialCount' = SerialCount
    BY <1>1, <2>1, <2>2, CommandSteps
  <2>4. e \in Episode
    BY <1>1, TurnKnows
  <2> QED
    BY <2>3, <2>4, SettledByNone DEF Steps
<1>2. CASE MissingUnderstanding(w)
  <2>1. PICK command \in {"confirm", "reject"} : Commanded(w, command)
    BY <1>2 DEF MissingUnderstanding
  <2>2. /\ Owes(w, << >>, Becomes(w, "open"), jobs[w].number, "missing_understanding", None)
        /\ In(w, "pending_understanding_review") /\ understandings[e] = None
    BY <1>2 DEF MissingUnderstanding, Plan
  <2>3. /\ Serial!Receives(e, command)
        /\ SerialState[e] = "pending_understanding_review"
        /\ SerialUnderstandings = understandings
    BY <2>1, <2>2, TurnKnows DEF In
  <2>4. "missing_understanding" \in Response \ {"none"}
    BY DEF Response
  <2>5. [understandings EXCEPT ![e] = None] = understandings
    BY <2>2 DEF TypeOK
  <2> HIDE DEF e
  <2>6. CASE command = "confirm"
    <3>1. Serial!ConfirmUnderstanding(e) /\ e \in Episode /\ SerialRight'
      BY <1>1, <2>1, <2>2, <2>3, <2>4, <2>5, <2>6
         DEF Serial!ConfirmUnderstanding, Serial!Reply
    <3> QED
      BY <3>1 DEF Serial!CommandTurn
  <2>7. CASE command = "reject"
    <3>1. Serial!RejectUnderstanding(e) /\ e \in Episode /\ SerialRight'
      BY <1>1, <2>1, <2>2, <2>3, <2>4, <2>5, <2>7
         DEF Serial!RejectUnderstanding, Serial!Reply
    <3> QED
      BY <3>1 DEF Serial!CommandTurn
  <2> QED
    BY <2>6, <2>7
<1>3. CASE MissingRule(w)
  <2>1. PICK command \in {"confirm", "reject"} : Commanded(w, command)
    BY <1>3 DEF MissingRule
  <2>2. /\ Owes(w, << >>, Becomes(w, "open"), jobs[w].number, "missing_rule", None)
        /\ In(w, "pending_rule_review") /\ rule_candidates[e] = None
    BY <1>3 DEF MissingRule, Plan
  <2>3. /\ Serial!Receives(e, command) /\ SerialState[e] = "pending_rule_review"
        /\ SerialCandidates = rule_candidates
    BY <2>1, <2>2, TurnKnows DEF In
  <2>4. "missing_rule" \in Response \ {"none"}
    BY DEF Response
  <2>5. [rule_candidates EXCEPT ![e] = None] = rule_candidates
    BY <2>2 DEF TypeOK
  <2> HIDE DEF e
  <2>6. CASE command = "confirm"
    <3>1. Serial!ConfirmRule(e) /\ e \in Episode /\ SerialRight'
      BY <1>1, <2>1, <2>2, <2>3, <2>4, <2>5, <2>6 DEF Serial!ConfirmRule, Serial!Reply
    <3> QED
      BY <3>1 DEF Serial!CommandTurn
  <2>7. CASE command = "reject"
    <3>1. Serial!RejectRule(e) /\ e \in Episode /\ SerialRight'
      BY <1>1, <2>1, <2>2, <2>3, <2>4, <2>5, <2>7 DEF Serial!RejectRule, Serial!Reply
    <3> QED
      BY <3>1 DEF Serial!CommandTurn
  <2> QED
    BY <2>6, <2>7
<1> QED
  BY <1>2, <1>3

\* What a turn that saves one pending object makes of the dialogue's stores.
Saves(w, repository, value, state, count, response, runtime) ==
    LET e == jobs[w].episode IN
    /\ SerialRight'
    /\ turn' = [episode |-> e, response |-> response, runtime |-> runtime]
    /\ SerialState' = [SerialState EXCEPT ![e] = state]
    /\ SerialCount' = [SerialCount EXCEPT ![e] = count]
    /\ UNCHANGED <<SerialVersions, SerialUtterances>>
    /\ SerialCandidates' = IF repository = "rule_candidates"
                           THEN [SerialCandidates EXCEPT ![e] = value]
                           ELSE SerialCandidates
    /\ SerialUnderstandings' = IF repository = "understandings"
                               THEN [SerialUnderstandings EXCEPT ![e] = value]
                               ELSE SerialUnderstandings
    /\ SerialDeferred' = IF repository = "deferred"
                         THEN [SerialDeferred EXCEPT ![e] = value]
                         ELSE SerialDeferred

\* A turn that owes one such write does that.
LEMMA SaveSteps ==
    ASSUME TypeOK, SerialRight, SerialNext, NEW w \in Worker,
           NEW command, Commanded(w, command),
           NEW repository \in {"rule_candidates", "understandings", "deferred"}, NEW value,
           Put(repository, jobs[w].episode, value) \in PendingWrite,
           NEW after \in StoredEpisode, NEW number,
           NEW response \in Response \ {"none"}, NEW runtime,
           Owes(w, <<Put(repository, jobs[w].episode, value)>>, after, number,
                response, runtime)
    PROVE  Saves(w, repository, value, after.state, after.fallback_count, response, runtime)
<1> DEFINE e == jobs[w].episode
           save == Put(repository, e, value)
<1>1. e \in Episode
  BY TurnKnows
<1>2. /\ <<save>> \in Seq(PendingWrite) /\ Apart(<<save>>) /\ WritesIn(<<save>>) = {save}
      /\ save.repository = repository
  BY PlansApart DEF Put
<1>3. Steps(w, {save}, after.state, after.fallback_count, response, runtime)
  <2>1. Owes(w, <<save>>, after, number, response, runtime)
    OBVIOUS
  <2> HIDE DEF save
  <2>2. \A x \in WritesIn(<<save>>) : x.repository # "episodes"
    BY <1>2
  <2>3. Steps(w, WritesIn(<<save>>), after.state, after.fallback_count, response, runtime)
    BY <1>2, <2>1, <2>2, TurnSteps
  <2> QED
    BY <1>2, <2>3
<1> HIDE DEF save
<1>4. /\ \A store : Settled(store, repository, {save}) = [store EXCEPT ![e] = value]
      /\ \A other : other # repository =>
             \A store : Settled(store, other, {save}) = store
      /\ \A log : SettledLog(log, {save}) = log
      /\ \A store : SettledVersions(store, {save}) = store
  <2> HIDE DEF e
  <2>1. \A store : Settled(store, repository, {save}) = [store EXCEPT ![e] = value]
    BY PutSettles DEF save
  <2>2. \A other : other # repository =>
            \A store : Settled(store, other, {save}) = store
    BY PutLeaves DEF save
  <2>3. /\ \A log : SettledLog(log, {save}) = log
        /\ \A store : SettledVersions(store, {save}) = store
    BY PutElsewhere DEF save
  <2> QED
    BY <2>1, <2>2, <2>3
<1>5. /\ SerialCandidates' = Settled(SerialCandidates, "rule_candidates", {save})
      /\ SerialUnderstandings' = Settled(SerialUnderstandings, "understandings", {save})
      /\ SerialDeferred' = Settled(SerialDeferred, "deferred", {save})
  BY <1>3 DEF Steps
<1>6. /\ SerialRight' /\ UNCHANGED <<SerialVersions, SerialUtterances>>
      /\ turn' = [episode |-> e, response |-> response, runtime |-> runtime]
      /\ SerialState' = [SerialState EXCEPT ![e] = after.state]
      /\ SerialCount' = [SerialCount EXCEPT ![e] = after.fallback_count]
  BY <1>3, <1>4 DEF Steps
<1>7. SerialCandidates' = IF repository = "rule_candidates"
                          THEN [SerialCandidates EXCEPT ![e] = value]
                          ELSE SerialCandidates
  BY <1>4, <1>5
<1>8. SerialUnderstandings' = IF repository = "understandings"
                              THEN [SerialUnderstandings EXCEPT ![e] = value]
                              ELSE SerialUnderstandings
  BY <1>4, <1>5
<1>9. SerialDeferred' = IF repository = "deferred"
                        THEN [SerialDeferred EXCEPT ![e] = value]
                        ELSE SerialDeferred
  BY <1>4, <1>5
<1> QED
  BY <1>1, <1>6, <1>7, <1>8, <1>9 DEF Saves

\* A command that drops one pending object.
LEMMA DropSteps ==
    ASSUME TypeOK, SerialRight, SerialNext, NEW w \in Worker,
           NEW command, Commanded(w, command),
           NEW repository \in {"rule_candidates", "understandings", "deferred"},
           NEW state \in EpisodeState, NEW response \in Response \ {"none"}, NEW runtime,
           Owes(w, <<Delete(repository, jobs[w].episode)>>, Becomes(w, state),
                jobs[w].number, response, runtime)
    PROVE  /\ jobs[w].episode \in Episode
           /\ Saves(w, repository, None, state, SerialCount[jobs[w].episode],
                    response, runtime)
           /\ SerialCount' = SerialCount
<1> DEFINE e == jobs[w].episode
           after == Becomes(w, state)
<1>1. /\ jobs[w].snapshot \in StoredEpisode /\ e \in Episode
      /\ SerialCount[e] = jobs[w].snapshot.fallback_count
  BY TurnKnows
<1>2. /\ after \in StoredEpisode /\ after.state = state
      /\ after.fallback_count = SerialCount[e]
  BY <1>1 DEF Becomes, StoredEpisode
<1>3. Delete(repository, e) = Put(repository, e, None)
  BY DEF Delete
<1>4. Put(repository, e, None) \in PendingWrite
  BY <1>1, <1>3, Deletion
<1>5. Owes(w, <<Put(repository, e, None)>>, after, jobs[w].number, response, runtime)
  BY <1>3
<1> HIDE DEF after
<1>6. Saves(w, repository, None, state, SerialCount[e], response, runtime)
  BY <1>2, <1>4, <1>5, SaveSteps
<1> QED
  BY <1>1, <1>6, SameState DEF Saves

\* Rejecting what is under review gives it up.
LEMMA RejectSteps ==
    ASSUME TypeOK, SerialRight, SerialNext, NEW w \in Worker,
           RejectUnderstanding(w) \/ RejectRule(w) \/ RejectSwitch(w)
    PROVE  SerialRight' /\ \E e \in Episode : Serial!CommandTurn(e)
<1> DEFINE e == jobs[w].episode
<1>1. CASE RejectUnderstanding(w)
  <2>1. /\ Commanded(w, "reject") /\ In(w, "pending_understanding_review")
        /\ understandings[e] # None
        /\ Owes(w, <<Delete("understandings", e)>>, Becomes(w, "open"), jobs[w].number,
                "understanding_rejected", None)
    BY <1>1 DEF RejectUnderstanding, Plan
  <2>2. /\ Serial!Receives(e, "reject")
        /\ SerialState[e] = "pending_understanding_review"
        /\ SerialUnderstandings = understandings
    BY <2>1, TurnKnows DEF In
  <2>3. "open" \in EpisodeState /\ "understanding_rejected" \in Response \ {"none"}
    BY DEF EpisodeState, Response
  <2>4. /\ e \in Episode /\ SerialCount' = SerialCount
        /\ Saves(w, "understandings", None, "open", SerialCount[e],
                 "understanding_rejected", None)
    BY <2>1, <2>3, DropSteps
  <2>5. Serial!RejectUnderstanding(e) /\ SerialRight'
    BY <2>1, <2>2, <2>4 DEF Saves, Serial!RejectUnderstanding, Serial!Reply
  <2> QED
    BY <2>4, <2>5 DEF Serial!CommandTurn
<1>2. CASE RejectRule(w)
  <2>1. /\ Commanded(w, "reject") /\ In(w, "pending_rule_review")
        /\ rule_candidates[e] # None
        /\ Owes(w, <<Delete("rule_candidates", e)>>, Becomes(w, "open"), jobs[w].number,
                "rule_rejected", None)
    BY <1>2 DEF RejectRule, Plan
  <2>2. /\ Serial!Receives(e, "reject") /\ SerialState[e] = "pending_rule_review"
        /\ SerialCandidates = rule_candidates
    BY <2>1, TurnKnows DEF In
  <2>3. "open" \in EpisodeState /\ "rule_rejected" \in Response \ {"none"}
    BY DEF EpisodeState, Response
  <2>4. /\ e \in Episode /\ SerialCount' = SerialCount
        /\ Saves(w, "rule_candidates", None, "open", SerialCount[e], "rule_rejected", None)
    BY <2>1, <2>3, DropSteps
  <2>5. Serial!RejectRule(e) /\ SerialRight'
    BY <2>1, <2>2, <2>4 DEF Saves, Serial!RejectRule, Serial!Reply
  <2> QED
    BY <2>4, <2>5 DEF Serial!CommandTurn
<1>3. CASE RejectSwitch(w)
  <2> DEFINE state == IF deferred[e] = None THEN "pending_rule_review" ELSE deferred[e]
  <2>1. /\ Commanded(w, "reject") /\ In(w, "pending_switch_confirmation")
        /\ Owes(w, <<Delete("deferred", e)>>, Becomes(w, state), jobs[w].number,
                "switch_rejected", None)
    BY <1>3 DEF RejectSwitch, Plan
  <2>2. /\ Serial!Receives(e, "reject") /\ e \in Episode
        /\ SerialState[e] = "pending_switch_confirmation"
        /\ SerialDeferred = deferred
    BY <2>1, TurnKnows DEF In
  <2>3. state \in EpisodeState /\ "switch_rejected" \in Response \ {"none"}
    BY <2>2 DEF TypeOK, ReviewStates, EpisodeState, Response
  <2> HIDE DEF state
  <2>4. /\ SerialCount' = SerialCount
        /\ Saves(w, "deferred", None, state, SerialCount[e], "switch_rejected", None)
    BY <2>1, <2>3, DropSteps
  <2>5. Serial!RejectSwitch(e) /\ SerialRight'
    BY <2>2, <2>4 DEF state, Saves, Serial!RejectSwitch, Serial!Reply
  <2> QED
    BY <2>2, <2>5 DEF Serial!CommandTurn
<1> QED
  BY <1>1, <1>2, <1>3

\* A confirmed understanding runs, or raises and changes nothing.
LEMMA ConfirmUnderstandingSteps ==
    ASSUME TypeOK, SerialRight, SerialNext, NEW w \in Worker, ConfirmUnderstanding(w)
    PROVE  SerialRight' /\ \E e \in Episode : Serial!CommandTurn(e)
<1> DEFINE e == jobs[w].episode
<1>1. /\ Commanded(w, "confirm") /\ In(w, "pending_understanding_review")
      /\ understandings[e] # None
  BY DEF ConfirmUnderstanding
<1>2. /\ Serial!Receives(e, "confirm") /\ e \in Episode
      /\ SerialState[e] = "pending_understanding_review"
      /\ SerialUnderstandings = understandings /\ SerialVersions = versions
      /\ jobs[w].program = Serial!Program /\ jobs[w].pc = "decide"
  BY <1>1, TurnKnows DEF In
<1>3. CASE MayRaise(understandings[e]) /\ Raise(w)
  <2>1. "server_error" \in Response \ {"none"}
    BY DEF Response
  <2>2. /\ SerialRight'
        /\ turn' = [episode |-> e, response |-> "server_error", runtime |-> None]
        /\ UNCHANGED <<SerialVersions, SerialState, SerialCount, SerialCandidates,
                       SerialUnderstandings, SerialDeferred, SerialUtterances>>
    BY <1>2, <1>3, <2>1, AnsweringTurns DEF Raise
  <2>3. Serial!ConfirmUnderstandingRaises(e)
    BY <1>1, <1>2, <1>3, <2>2, SameRuntime
       DEF Serial!ConfirmUnderstandingRaises, Serial!Reply, Serial!episodes
  <2> QED
    BY <1>2, <2>2, <2>3 DEF Serial!CommandTurn
<1>4. CASE \E result \in Executions(understandings[e], jobs[w].program, FALSE) :
              Plan(w, <<Delete("understandings", e)>>, Becomes(w, "open"),
                   "understanding_confirmed", result)
  <2>1. PICK result \in Executions(understandings[e], jobs[w].program, FALSE) :
            Plan(w, <<Delete("understandings", e)>>, Becomes(w, "open"),
                 "understanding_confirmed", result)
    BY <1>4
  <2>2. "open" \in EpisodeState /\ "understanding_confirmed" \in Response \ {"none"}
    BY DEF EpisodeState, Response
  <2>3. /\ SerialCount' = SerialCount
        /\ Saves(w, "understandings", None, "open", SerialCount[e],
                 "understanding_confirmed", result)
    BY <1>1, <2>1, <2>2, DropSteps DEF Plan
  <2>4. result \in Serial!Executions(understandings[e], Serial!Program, FALSE)
    BY <1>2, <2>1, SameRuntime
  <2>5. Serial!ConfirmUnderstanding(e) /\ SerialRight'
    BY <1>1, <1>2, <2>3, <2>4 DEF Saves, Serial!ConfirmUnderstanding, Serial!Reply
  <2> QED
    BY <1>2, <2>5 DEF Serial!CommandTurn
<1> QED
  BY <1>3, <1>4 DEF ConfirmUnderstanding

\* A confirmed rule becomes the version after the newest.
LEMMA ConfirmRuleSteps ==
    ASSUME TypeOK, SerialRight, SerialNext, NEW w \in Worker, ConfirmRule(w)
    PROVE  SerialRight' /\ \E e \in Episode : Serial!CommandTurn(e)
<1> DEFINE e == jobs[w].episode
           number == jobs[w].number + 1
           program == ConfirmRuleCandidate(jobs[w].program, rule_candidates[e])
           save == Put("versions", number, program)
           drop == Delete("rule_candidates", e)
<1>1. /\ Commanded(w, "confirm") /\ In(w, "pending_rule_review")
      /\ rule_candidates[e] # None
      /\ Owes(w, <<save, drop>>, Becomes(w, "open"), number, "rule_confirmed", None)
  BY DEF ConfirmRule
<1>2. /\ Serial!Receives(e, "confirm") /\ e \in Episode
      /\ SerialState[e] = "pending_rule_review"
      /\ SerialCandidates = rule_candidates /\ SerialVersions = versions
      /\ jobs[w].program = Serial!Program /\ jobs[w].program \in AgentProgram
      /\ jobs[w].number = Len(versions) /\ versions \in Seq(AgentProgram)
      /\ Len(versions) < MaxVersions
  BY <1>1, TurnKnows DEF In, ConfirmsRule
<1>3. /\ save \in PendingWrite /\ save.repository = "versions"
      /\ save.key = number /\ save.value = program
  <2>1. rule_candidates[e] \in RuleCandidate
    BY <1>1, <1>2 DEF TypeOK
  <2>2. program \in AgentProgram
    BY <1>2, <2>1, ConfirmedProgramType
  <2>3. number \in Nat \ {0}
    BY <1>2
  <2> QED
    BY <2>2, <2>3, WriteTypes DEF Put
<1>4. /\ drop \in PendingWrite /\ drop.repository = "rule_candidates"
      /\ drop.key = e /\ drop.value = None
  BY <1>2, Deletion DEF Delete, Put
<1>5. "open" \in EpisodeState /\ "rule_confirmed" \in Response \ {"none"}
  BY DEF EpisodeState, Response
<1> HIDE DEF save, drop
<1>6. /\ <<save, drop>> \in Seq(PendingWrite) /\ Apart(<<save, drop>>)
      /\ WritesIn(<<save, drop>>) = {save, drop}
  BY <1>3, <1>4, PlansApart
<1>7. \A x \in WritesIn(<<save, drop>>) : x.repository # "episodes"
  BY <1>3, <1>4, <1>6
<1>8. /\ Steps(w, {save, drop}, "open", SerialCount[e], "rule_confirmed", None)
      /\ SerialCount' = SerialCount
  <2>1. /\ Steps(w, WritesIn(<<save, drop>>), "open", SerialCount[e], "rule_confirmed",
                 None)
        /\ SerialCount' = SerialCount
    BY <1>1, <1>5, <1>6, <1>7, CommandSteps
  <2> QED
    BY <1>6, <2>1
<1> HIDE DEF program
<1>9. /\ SettledVersions(SerialVersions, {save, drop})
            = SaveVersion(SerialVersions, number, program)
      /\ Settled(SerialCandidates, "rule_candidates", {save, drop})
            = [SerialCandidates EXCEPT ![e] = None]
      /\ Settled(SerialUnderstandings, "understandings", {save, drop})
            = SerialUnderstandings
      /\ Settled(SerialDeferred, "deferred", {save, drop}) = SerialDeferred
      /\ SettledLog(SerialUtterances, {save, drop}) = SerialUtterances
  <2>1. Settled(SerialCandidates, "rule_candidates", {save, drop})
            = [SerialCandidates EXCEPT ![drop.key] = drop.value]
    BY <1>3, <1>4, DroppedByConfirming
  <2>2. Settled(SerialCandidates, "rule_candidates", {save, drop})
            = [SerialCandidates EXCEPT ![e] = None]
    BY <1>4, <2>1
  <2> QED
    BY <1>3, <1>4, <2>2, SettledByConfirming
<1>10. /\ SerialRight'
       /\ turn' = [episode |-> e, response |-> "rule_confirmed", runtime |-> None]
       /\ SerialState' = [SerialState EXCEPT ![e] = "open"]
       /\ SerialVersions' = SaveVersion(SerialVersions, number, program)
       /\ SerialCandidates' = [SerialCandidates EXCEPT ![e] = None]
       /\ UNCHANGED <<SerialCount, SerialUnderstandings, SerialDeferred, SerialUtterances>>
  BY <1>8, <1>9 DEF Steps
<1>11. /\ number = Serial!NextVersionNumber(SerialVersions)
       /\ program = Serial!ConfirmRuleCandidate(Serial!Program, SerialCandidates[e])
       /\ SaveVersion(SerialVersions, number, program)
             = Serial!SaveVersion(SerialVersions, number, program)
  <2>1. number = Serial!NextVersionNumber(SerialVersions)
    BY <1>2, SameProgram DEF NextVersionNumber
  <2>2. program = Serial!ConfirmRuleCandidate(Serial!Program, SerialCandidates[e])
    <3>1. program = ConfirmRuleCandidate(Serial!Program, SerialCandidates[e])
      BY <1>2 DEF program
    <3> QED
      BY <3>1, SameProgram
  <2>3. SaveVersion(SerialVersions, number, program)
            = Serial!SaveVersion(SerialVersions, number, program)
    BY SameProgram
  <2> QED
    BY <2>1, <2>2, <2>3
<1>12. Serial!ConfirmRule(e)
  BY <1>1, <1>2, <1>10, <1>11 DEF Serial!ConfirmRule, Serial!Reply
<1> QED
  BY <1>2, <1>10, <1>12 DEF Serial!CommandTurn

(***************************************************************************)
(* Semantic turns.                                                         *)
(***************************************************************************)

\* A turn is routed alike.
LEMMA RoutedAlike ==
    ASSUME TypeOK, SerialRight, NEW w \in Worker, NEW intake, NEW route,
           Routed(w, intake, route)
    PROVE  /\ Commanded(w, "none") /\ jobs[w].episode \in Episode
           /\ Serial!Routed(jobs[w].episode, intake, route)
<1>1. Commanded(w, "none") /\ SemanticRoute(jobs[w].snapshot.state, intake) = route
  BY DEF Routed
<1>2. /\ jobs[w].episode \in Episode
      /\ SerialState[jobs[w].episode] = jobs[w].snapshot.state
      /\ SerialState[jobs[w].episode] # None
  BY <1>1, TurnKnows
<1> QED
  BY <1>1, <1>2, SameRoute DEF Serial!Routed

\* A task turn has the same goal.
LEMMA GoalAlike ==
    ASSUME TypeOK, SerialRight, NEW w \in Worker, NEW intake, NEW goal,
           TaskGoal(w, intake, goal)
    PROVE  /\ Commanded(w, "none") /\ jobs[w].episode \in Episode
           /\ Serial!TaskGoal(jobs[w].episode, intake, goal)
<1>1. /\ Routed(w, intake, "task")
      /\ \E i \in FirstOfType(intake.items, "task") : goal = intake.items[i].text
  BY DEF TaskGoal
<1>2. \E i \in Serial!FirstOfType(intake.items, "task") : goal = intake.items[i].text
  BY <1>1, SameRoute
<1> QED
  BY <1>1, <1>2, RoutedAlike DEF Serial!TaskGoal

\* The episodes understood turns store.
LEMMA UnderstoodEpisode ==
    ASSUME TypeOK, SerialRight, NEW w \in Worker, Commanded(w, "none")
    PROVE  /\ \A state \in EpisodeState :
                 /\ Understood(w, state) \in StoredEpisode
                 /\ Understood(w, state).state = state
                 /\ Understood(w, state).fallback_count = 0
           /\ Unmoved(w) = Understood(w, SerialState[jobs[w].episode])
           /\ SerialState[jobs[w].episode] \in EpisodeState
<1>1. /\ jobs[w].snapshot \in StoredEpisode
      /\ SerialState[jobs[w].episode] = jobs[w].snapshot.state
  BY TurnKnows
<1> QED
  BY <1>1, MovedState DEF Understood, Unmoved, Snapshot, StoredEpisode

\* A turn that leaves the episode's state and is only answered.
LEMMA OnlyAnswered ==
    ASSUME TypeOK, SerialRight, SerialNext, NEW w \in Worker, Commanded(w, "none"),
           NEW response \in Response \ {"none"}, NEW runtime,
           Plan(w, << >>, Unmoved(w), response, runtime)
    PROVE  LET e == jobs[w].episode IN
           /\ SerialRight' /\ Serial!Reply(e, response, runtime)
           /\ Serial!ResetFallbackCount(e)
           /\ UNCHANGED <<SerialState, SerialCandidates, SerialUnderstandings,
                          SerialDeferred, SerialVersions, SerialUtterances>>
<1> DEFINE e == jobs[w].episode
           after == Unmoved(w)
<1>1. e \in Episode
  BY TurnKnows
<1>2. /\ after \in StoredEpisode /\ after.state = SerialState[e]
      /\ after.fallback_count = 0
  BY UnderstoodEpisode
<1>3. Owes(w, << >>, after, jobs[w].number, response, runtime)
  BY DEF Plan
<1> HIDE DEF after
<1>4. /\ << >> \in Seq(PendingWrite) /\ Apart(<< >>) /\ WritesIn(<< >>) = {}
      /\ \A x \in WritesIn(<< >>) : x.repository # "episodes"
  BY PlansApart
<1>5. Steps(w, {}, after.state, after.fallback_count, response, runtime)
  BY <1>2, <1>3, <1>4, TurnSteps
<1>6. /\ SerialRight' /\ Serial!Reply(e, response, runtime)
      /\ SerialState' = [SerialState EXCEPT ![e] = SerialState[e]]
      /\ SerialCount' = [SerialCount EXCEPT ![e] = 0]
  BY <1>2, <1>5 DEF Steps, Serial!Reply
<1>7. UNCHANGED <<SerialCandidates, SerialUnderstandings, SerialDeferred, SerialVersions,
                  SerialUtterances>>
  BY <1>5, SettledByNone DEF Steps
<1> QED
  BY <1>1, <1>6, <1>7, SameState DEF Serial!ResetFallbackCount

\* Queries, chat, feedback and corrections.
LEMMA AnswerSteps ==
    ASSUME TypeOK, SerialRight, SerialNext, NEW w \in Worker, NEW intake, Answer(w, intake)
    PROVE  /\ jobs[w].episode \in Episode /\ SerialRight'
           /\ Serial!Answer(jobs[w].episode, intake)
<1>1. /\ Routed(w, intake, intake.primary_intent)
      /\ intake.primary_intent \in {"query", "chat", "feedback", "correction"}
      /\ Plan(w, << >>, Unmoved(w), intake.primary_intent, None)
  BY DEF Answer
<1>2. /\ Commanded(w, "none") /\ jobs[w].episode \in Episode
      /\ Serial!Routed(jobs[w].episode, intake, intake.primary_intent)
  BY <1>1, RoutedAlike
<1>3. intake.primary_intent \in Response \ {"none"}
  BY <1>1 DEF Response
<1> QED
  BY <1>1, <1>2, <1>3, OnlyAnswered DEF Serial!Answer

\* A task that is unclear, or that is run at once.
LEMMA TaskSteps ==
    ASSUME TypeOK, SerialRight, SerialNext, NEW w \in Worker, NEW intake, NEW goal,
           ClarifyTask(w, intake, goal) \/ ExecuteTask(w, intake, goal)
    PROVE  /\ jobs[w].episode \in Episode /\ SerialRight'
           /\ Serial!TaskTurn(jobs[w].episode, intake, goal)
<1> DEFINE e == jobs[w].episode
<1>1. TaskGoal(w, intake, goal)
  BY DEF ClarifyTask, ExecuteTask
<1>2. Commanded(w, "none") /\ e \in Episode /\ Serial!TaskGoal(e, intake, goal)
  BY <1>1, GoalAlike
<1>3. jobs[w].program = Serial!Program /\ jobs[w].pc = "decide" /\ SerialVersions = versions
  BY <1>2, TurnKnows
<1>4. CASE ClarifyTask(w, intake, goal)
  <2>1. RequiresClarification(goal) /\ Plan(w, << >>, Unmoved(w), "task_unclear", None)
    BY <1>4 DEF ClarifyTask
  <2>2. "task_unclear" \in Response \ {"none"}
    BY DEF Response
  <2>3. Serial!ClarifyTask(e, intake, goal) /\ SerialRight'
    BY <1>2, <2>1, <2>2, OnlyAnswered, SameRuntime DEF Serial!ClarifyTask
  <2> QED
    BY <1>2, <2>3 DEF Serial!TaskTurn
<1>5. CASE ExecuteTask(w, intake, goal)
  <2>1. /\ ~Serial!RequiresClarification(goal)
        /\ ~Serial!Program.show_understanding_before_execution
    BY <1>3, <1>5, SameRuntime DEF ExecuteTask
  <2>2. CASE \E result \in Executions(goal, jobs[w].program, TRUE) :
                 Plan(w, << >>, Unmoved(w), "executed", result)
    <3>1. PICK result \in Executions(goal, jobs[w].program, TRUE) :
              Plan(w, << >>, Unmoved(w), "executed", result)
      BY <2>2
    <3>2. "executed" \in Response \ {"none"}
      BY DEF Response
    <3>3. result \in Serial!Executions(goal, Serial!Program, TRUE)
      BY <1>3, <3>1, SameRuntime
    <3>4. /\ SerialRight' /\ Serial!Reply(e, "executed", result)
          /\ Serial!ResetFallbackCount(e)
          /\ UNCHANGED <<SerialState, SerialCandidates, SerialUnderstandings,
                         SerialDeferred, SerialVersions, SerialUtterances>>
      BY <1>2, <3>1, <3>2, OnlyAnswered
    <3>5. Serial!ExecuteTask(e, intake, goal)
      BY <1>2, <2>1, <3>3, <3>4 DEF Serial!ExecuteTask
    <3> QED
      BY <1>2, <3>4, <3>5 DEF Serial!TaskTurn
  <2>3. CASE MayRaise(goal) /\ Raise(w)
    <3>1. "server_error" \in Response \ {"none"}
      BY DEF Response
    <3>2. /\ SerialRight'
          /\ turn' = [episode |-> e, response |-> "server_error", runtime |-> None]
          /\ UNCHANGED <<SerialVersions, SerialState, SerialCount, SerialCandidates,
                         SerialUnderstandings, SerialDeferred, SerialUtterances>>
      BY <1>3, <2>3, <3>1, AnsweringTurns DEF Raise
    <3>3. Serial!ExecuteTaskRaises(e, intake, goal)
      BY <1>2, <2>1, <2>3, <3>2, SameRuntime
         DEF Serial!ExecuteTaskRaises, Serial!Reply, Serial!episodes
    <3> QED
      BY <1>2, <3>2, <3>3 DEF Serial!TaskTurn
  <2> QED
    BY <1>5, <2>2, <2>3 DEF ExecuteTask
<1> QED
  BY <1>4, <1>5

\* A task whose understanding is shown first.
LEMMA ProposeUnderstandingSteps ==
    ASSUME TypeOK, SerialRight, SerialNext, NEW w \in Worker, NEW intake,
           NEW goal \in Text, ProposeUnderstanding(w, intake, goal)
    PROVE  /\ jobs[w].episode \in Episode /\ SerialRight'
           /\ Serial!TaskTurn(jobs[w].episode, intake, goal)
<1> DEFINE e == jobs[w].episode
           after == Understood(w, "pending_understanding_review")
<1>1. /\ TaskGoal(w, intake, goal) /\ ~RequiresClarification(goal)
      /\ jobs[w].program.show_understanding_before_execution
      /\ Owes(w, <<Put("understandings", e, goal)>>, after, jobs[w].number,
              "understanding_proposed", None)
  BY DEF ProposeUnderstanding, Plan
<1>2. Commanded(w, "none") /\ e \in Episode /\ Serial!TaskGoal(e, intake, goal)
  BY <1>1, GoalAlike
<1>3. jobs[w].program = Serial!Program
  BY <1>2, TurnKnows
<1>4. /\ after \in StoredEpisode /\ after.state = "pending_understanding_review"
      /\ after.fallback_count = 0
  BY <1>2, UnderstoodEpisode DEF EpisodeState
<1> HIDE DEF after
<1>5. /\ Put("understandings", e, goal) \in PendingWrite
      /\ "understanding_proposed" \in Response \ {"none"}
  BY <1>2, WriteTypes DEF Response
<1>6. Saves(w, "understandings", goal, "pending_understanding_review", 0,
            "understanding_proposed", None)
  <2>1. Saves(w, "understandings", goal, after.state, after.fallback_count,
              "understanding_proposed", None)
    BY <1>1, <1>2, <1>4, <1>5, SaveSteps
  <2> QED
    BY <1>4, <2>1
<1>7. /\ ~Serial!RequiresClarification(goal)
      /\ Serial!Program.show_understanding_before_execution
  BY <1>1, <1>3, SameRuntime
<1>8. Serial!ProposeUnderstanding(e, intake, goal) /\ SerialRight'
  BY <1>2, <1>6, <1>7
     DEF Saves, Serial!ProposeUnderstanding, Serial!Reply, Serial!ResetFallbackCount
<1> QED
  BY <1>2, <1>8 DEF Serial!TaskTurn

\* A new request while something is under review.
LEMMA RequestSwitchSteps ==
    ASSUME TypeOK, SerialRight, SerialNext, NEW w \in Worker, NEW intake,
           RequestSwitch(w, intake)
    PROVE  /\ jobs[w].episode \in Episode /\ SerialRight'
           /\ Serial!RequestSwitch(jobs[w].episode, intake)
<1> DEFINE e == jobs[w].episode
           after == Understood(w, "pending_switch_confirmation")
<1>1. /\ Routed(w, intake, "request_switch")
      /\ Owes(w, <<Put("deferred", e, jobs[w].snapshot.state)>>, after, jobs[w].number,
              "switch_requested", None)
  BY DEF RequestSwitch, Plan
<1>2. Commanded(w, "none") /\ e \in Episode /\ Serial!Routed(e, intake, "request_switch")
  BY <1>1, RoutedAlike
<1>3. SerialState[e] = jobs[w].snapshot.state
  BY <1>2, TurnKnows
<1>4. /\ after \in StoredEpisode /\ after.state = "pending_switch_confirmation"
      /\ after.fallback_count = 0
  BY <1>2, UnderstoodEpisode DEF EpisodeState
<1> HIDE DEF after
<1>5. jobs[w].snapshot.state \in ReviewStates
  BY <1>1 DEF Routed, SemanticRoute, ShouldRequestSwitch
<1>6. /\ Put("deferred", e, jobs[w].snapshot.state) \in PendingWrite
      /\ "switch_requested" \in Response \ {"none"}
  BY <1>2, <1>5, WriteTypes DEF Response
<1>7. Saves(w, "deferred", SerialState[e], "pending_switch_confirmation", 0,
            "switch_requested", None)
  <2>1. Saves(w, "deferred", jobs[w].snapshot.state, after.state, after.fallback_count,
              "switch_requested", None)
    BY <1>1, <1>2, <1>4, <1>6, SaveSteps
  <2> QED
    BY <1>3, <1>4, <2>1
<1>8. Serial!RequestSwitch(e, intake) /\ SerialRight'
  BY <1>2, <1>7
     DEF Saves, Serial!RequestSwitch, Serial!Reply, Serial!ResetFallbackCount
<1> QED
  BY <1>2, <1>8

\* A rule that is proposed.
LEMMA ProposeRuleSteps ==
    ASSUME TypeOK, SerialRight, SerialNext, NEW w \in Worker, NEW intake \in Intakes,
           ProposeRule(w, intake)
    PROVE  /\ jobs[w].episode \in Episode /\ SerialRight'
           /\ Serial!ProposeRule(jobs[w].episode, intake)
<1> DEFINE e == jobs[w].episode
           after == Understood(w, "pending_rule_review")
<1>1. Routed(w, intake, "propose_rule")
  BY DEF ProposeRule
<1>2. PICK i \in FirstOfType(intake.items, "rule_candidate") :
          Owes(w, <<Put("rule_candidates", e, CreateRuleCandidate(e, intake.items[i]))>>,
               after, jobs[w].number, "rule_proposed", None)
  BY DEF ProposeRule, Plan
<1> DEFINE candidate == CreateRuleCandidate(e, intake.items[i])
<1>3. Commanded(w, "none") /\ e \in Episode /\ Serial!Routed(e, intake, "propose_rule")
  BY <1>1, RoutedAlike
<1>4. /\ after \in StoredEpisode /\ after.state = "pending_rule_review"
      /\ after.fallback_count = 0
  BY <1>3, UnderstoodEpisode DEF EpisodeState
<1> HIDE DEF after
<1>5. intake.items[i] \in MessageItem
  BY IntakesAssumption DEF IntakeResult, FirstOfType
<1>6. /\ Put("rule_candidates", e, candidate) \in PendingWrite
      /\ "rule_proposed" \in Response \ {"none"}
  <2>1. candidate \in RuleCandidate
    BY <1>3, <1>5, CandidateType
  <2> HIDE DEF candidate
  <2> QED
    BY <1>3, <2>1, WriteTypes DEF Response
<1>7. Owes(w, <<Put("rule_candidates", e, candidate)>>, after, jobs[w].number,
           "rule_proposed", None)
  BY <1>2
<1>8. /\ i \in Serial!FirstOfType(intake.items, "rule_candidate")
      /\ candidate = Serial!CreateRuleCandidate(e, intake.items[i])
  <2>1. candidate = Serial!CreateRuleCandidate(e, intake.items[i])
    BY SameProgram
  <2> QED
    BY <1>2, <2>1, SameRoute
<1> HIDE DEF candidate
<1>9. Saves(w, "rule_candidates", candidate, "pending_rule_review", 0, "rule_proposed", None)
  <2>1. Saves(w, "rule_candidates", candidate, after.state, after.fallback_count,
              "rule_proposed", None)
    BY <1>3, <1>4, <1>6, <1>7, SaveSteps
  <2> QED
    BY <1>4, <2>1
<1>10. Serial!ProposeRule(e, intake) /\ SerialRight'
  BY <1>3, <1>8, <1>9
     DEF Saves, Serial!ProposeRule, Serial!Reply, Serial!ResetFallbackCount
<1> QED
  BY <1>3, <1>10

\* A turn that was not understood.
LEMMA FallbackSteps ==
    ASSUME TypeOK, SerialRight, SerialNext, NEW w \in Worker, NEW intake,
           Fallback(w, intake)
    PROVE  /\ jobs[w].episode \in Episode /\ SerialRight'
           /\ Serial!Fallback(jobs[w].episode, intake)
<1> DEFINE e == jobs[w].episode
           count == jobs[w].snapshot.fallback_count + 1
           utterance == [reason |-> Reason(intake), fallback_count |-> count]
           log == Put("unknown_utterances", e, utterance)
           after == Snapshot(jobs[w].snapshot.state, count)
<1>1. /\ Routed(w, intake, "fallback") /\ Len(unknown_utterances[e]) < MaxUnknown
      /\ Owes(w, <<log>>, after, jobs[w].number, FallbackResponse(count), None)
  BY DEF Fallback, Plan
<1>2. Commanded(w, "none") /\ e \in Episode /\ Serial!Routed(e, intake, "fallback")
  BY <1>1, RoutedAlike
<1>3. /\ jobs[w].snapshot \in StoredEpisode
      /\ SerialState[e] = jobs[w].snapshot.state
      /\ SerialCount[e] = jobs[w].snapshot.fallback_count
      /\ SerialUtterances = unknown_utterances
  BY <1>2, TurnKnows
<1>4. /\ count \in Nat /\ count = SerialCount[e] + 1
      /\ after \in StoredEpisode /\ after.state = SerialState[e]
      /\ after.fallback_count = count
  BY <1>3 DEF StoredEpisode, Snapshot
<1>5. log \in PendingWrite /\ log.repository = "unknown_utterances"
  <2>1. utterance \in Utterance
    BY <1>4 DEF Utterance, Reason
  <2> HIDE DEF utterance
  <2> QED
    BY <1>2, <2>1, WriteTypes DEF Put
<1>6. FallbackResponse(count) \in Response \ {"none"}
  BY DEF FallbackResponse, Response
<1> HIDE DEF after, count, log, utterance
<1>7. /\ <<log>> \in Seq(PendingWrite) /\ Apart(<<log>>) /\ WritesIn(<<log>>) = {log}
  BY <1>5, PlansApart
<1>8. Steps(w, {log}, SerialState[e], count, FallbackResponse(count), None)
  <2>1. \A x \in WritesIn(<<log>>) : x.repository # "episodes"
    BY <1>5, <1>7
  <2>2. Steps(w, WritesIn(<<log>>), after.state, after.fallback_count,
              FallbackResponse(count), None)
    BY <1>1, <1>2, <1>4, <1>6, <1>7, <2>1, TurnSteps
  <2> QED
    BY <1>4, <1>7, <2>2
<1>9. /\ SettledLog(SerialUtterances, {log})
            = [SerialUtterances EXCEPT ![e] = Append(@, utterance)]
      /\ \A other : other # "unknown_utterances" =>
             \A store : Settled(store, other, {log}) = store
      /\ \A store : SettledVersions(store, {log}) = store
  <2> HIDE DEF e
  <2>1. SettledLog(SerialUtterances, {log})
            = [SerialUtterances EXCEPT ![e] = Append(@, utterance)]
    BY PutLogs DEF log
  <2>2. \A other : other # "unknown_utterances" =>
            \A store : Settled(store, other, {log}) = store
    BY PutLeaves DEF log
  <2>3. \A store : SettledVersions(store, {log}) = store
    BY PutElsewhere DEF log
  <2> QED
    BY <2>1, <2>2, <2>3
<1>10. /\ SerialRight'
       /\ turn' = [episode |-> e, response |-> FallbackResponse(count), runtime |-> None]
       /\ SerialState' = [SerialState EXCEPT ![e] = SerialState[e]]
       /\ SerialCount' = [SerialCount EXCEPT ![e] = count]
       /\ SerialUtterances' = [SerialUtterances EXCEPT ![e] = Append(@, utterance)]
       /\ UNCHANGED <<SerialCandidates, SerialUnderstandings, SerialDeferred,
                      SerialVersions>>
  BY <1>8, <1>9 DEF Steps
<1>11. e \in DOMAIN SerialCount
  BY <1>2 DEF SerialCount, CountOf
<1>12. SerialCount'[e] = count
  BY <1>10, <1>11
<1>13. SerialState' = SerialState
  BY <1>2, <1>10, SameState
<1>14. Serial!FallbackResponse(count) = FallbackResponse(count)
  BY DEF Serial!FallbackResponse, FallbackResponse
<1>15. utterance = [reason |-> Serial!Reason(intake), fallback_count |-> SerialCount'[e]]
  BY <1>12, SameRoute DEF utterance
<1>16. Serial!Fallback(e, intake)
  <2>1. SerialCount' = [SerialCount EXCEPT ![e] = SerialCount[e] + 1]
    BY <1>4, <1>10
  <2>2. Len(SerialUtterances[e]) < MaxUnknown
    BY <1>1, <1>3
  <2>3. Serial!Reply(e, Serial!FallbackResponse(SerialCount'[e]), None)
    BY <1>10, <1>12, <1>14 DEF Serial!Reply
  <2> QED
    BY <1>2, <1>10, <1>13, <1>15, <2>1, <2>2, <2>3 DEF Serial!Fallback
<1> QED
  BY <1>2, <1>10, <1>16

(***************************************************************************)
(* Requests that are not turns, and every decision.                        *)
(***************************************************************************)

\* The first of them makes the first version the dialogue counts.
LEMMA FirstVersion ==
    ASSUME TypeOK, SerialRight, NEW w \in Worker, jobs[w].pc = "decide"
    PROVE  versions = Serial!CreateInitialVersion(SerialVersions)
<1>1. Serial!CreateInitialVersion(SerialVersions) = CreateInitialVersion(SerialVersions)
  BY SameProgram
<1>2. CASE turn = Started
  <2>1. SerialVersions = << >> /\ versions = <<DefaultProgram>>
    BY <1>2, NothingOwedYet
  <2>2. CreateInitialVersion(<< >>) = <<DefaultProgram>>
    BY DEF CreateInitialVersion, SaveVersion
  <2> QED
    BY <1>1, <2>1, <2>2
<1>3. CASE turn # Started
  <2>1. SerialVersions = versions /\ versions # << >>
    BY <1>3, NothingOwedYet
  <2> QED
    BY <1>1, <2>1 DEF CreateInitialVersion
<1> QED
  BY <1>2, <1>3

\* An episode is stored under an identifier nothing is stored under.
LEMMA CreateEpisodeSteps ==
    ASSUME TypeOK, SerialRight, SerialNext, NEW w \in Worker, CreateEpisode(w)
    PROVE  SerialRight' /\ \E e \in Episode : Serial!CreateEpisode(e)
<1> DEFINE e == jobs[w].episode
           after == jobs[w].snapshot
<1>1. /\ jobs[w].pc = "decide" /\ jobs[w].request = "create_episode"
      /\ Owes(w, << >>, after, jobs[w].number, "episode_created", None)
  BY DEF CreateEpisode, Deciding, Plan
<1>2. episodes[e] = None /\ after = Snapshot("open", 0)
  BY <1>1 DEF SerialRight, JobRight, Current, Undecided
<1>3. e \in Episode
  BY <1>1 DEF TypeOK, JobReady
<1>4. /\ after \in StoredEpisode /\ after.state = "open" /\ after.fallback_count = 0
  BY <1>2 DEF Snapshot, StoredEpisode, EpisodeState
<1> HIDE DEF after
<1>5. "episode_created" \in Response \ {"none"}
  BY DEF Response
<1>6. /\ << >> \in Seq(PendingWrite) /\ Apart(<< >>) /\ WritesIn(<< >>) = {}
      /\ \A x \in WritesIn(<< >>) : x.repository # "episodes"
  BY PlansApart
<1>7. SerialRight' /\ Turned(w, {}, after, "episode_created", None)
  BY <1>1, <1>3, <1>4, <1>5, <1>6, OwingTurns
<1>8. /\ turn' = [episode |-> e, response |-> "episode_created", runtime |-> None]
      /\ SerialState' = [SerialState EXCEPT ![e] = "open"]
      /\ SerialCount' = [SerialCount EXCEPT ![e] = 0]
      /\ SerialVersions' = versions
      /\ UNCHANGED <<SerialCandidates, SerialUnderstandings, SerialDeferred,
                     SerialUtterances>>
  BY <1>1, <1>4, <1>7, SettledByNone, NothingOwedYet DEF Turned
<1>9. SerialState[e] = None /\ SerialCount[e] = 0
  <2>1. SerialEpisodes = episodes
    BY <1>1, NothingOwedYet
  <2> QED
    BY <1>2, <1>3, <2>1 DEF SerialState, SerialCount, StateOf, CountOf
<1>10. SerialCount' = SerialCount
  BY <1>3, <1>8, <1>9, SameState
<1>11. Serial!CreateEpisode(e)
  BY <1>1, <1>8, <1>9, <1>10, FirstVersion DEF Serial!CreateEpisode, Serial!Reply
<1> QED
  BY <1>3, <1>7, <1>11

\* A query of the program is answered.
LEMMA GetCurrentProgramSteps ==
    ASSUME TypeOK, SerialRight, SerialNext, NEW w \in Worker, GetCurrentProgram(w)
    PROVE  SerialRight' /\ Serial!GetCurrentProgram
<1>1. /\ jobs[w].pc = "decide" /\ jobs[w].request = "program"
      /\ Only(w, None, "program_current")
  BY DEF GetCurrentProgram, Deciding
<1>2. jobs[w].episode = None
  BY <1>1 DEF SerialRight, JobRight, Current, Undecided
<1>3. "program_current" \in Response \ {"none"}
  BY DEF Response
<1>4. /\ SerialRight'
      /\ turn' = [episode |-> None, response |-> "program_current", runtime |-> None]
      /\ SerialVersions' = versions
      /\ UNCHANGED <<SerialState, SerialCount, SerialCandidates, SerialUnderstandings,
                     SerialDeferred, SerialUtterances>>
  BY <1>1, <1>2, <1>3, AnsweringTurns
<1>5. versions = Serial!CreateInitialVersion(SerialVersions)
  BY <1>1, FirstVersion
<1> QED
  BY <1>4, <1>5 DEF Serial!GetCurrentProgram, Serial!Reply, Serial!episodes

\* Every decision is a step of the dialogue.
LEMMA DecideSteps ==
    ASSUME TypeOK, SerialRight, SerialNext, NEW w \in Worker, Decide(w)
    PROVE  SerialRight' /\ Serial!Next
<1>1. CASE CreateEpisode(w)
  BY <1>1, CreateEpisodeSteps DEF Serial!Next
<1>2. CASE GetCurrentProgram(w)
  BY <1>2, GetCurrentProgramSteps DEF Serial!Next
<1>3. CASE CommandTurn(w)
  <2>1. SerialRight' /\ \E e \in Episode : Serial!CommandTurn(e)
    BY <1>3, CancelSteps, MissingSteps, RejectSteps, ConfirmUnderstandingSteps,
       ConfirmRuleSteps DEF CommandTurn
  <2> QED
    BY <2>1 DEF Serial!Next
<1>4. ASSUME NEW intake \in Intakes, SemanticTurn(w, intake)
      PROVE  SerialRight' /\ \E e \in Episode : Serial!SemanticTurn(e, intake)
  <2> DEFINE e == jobs[w].episode
  <2>1. CASE Fallback(w, intake)
    BY <2>1, FallbackSteps DEF Serial!SemanticTurn
  <2>2. CASE RequestSwitch(w, intake)
    BY <2>2, RequestSwitchSteps DEF Serial!SemanticTurn
  <2>3. CASE ProposeRule(w, intake)
    BY <2>3, ProposeRuleSteps DEF Serial!SemanticTurn
  <2>4. CASE Answer(w, intake)
    BY <2>4, AnswerSteps DEF Serial!SemanticTurn
  <2>5. ASSUME NEW goal \in Text,
               \/ ClarifyTask(w, intake, goal) \/ ExecuteTask(w, intake, goal)
               \/ ProposeUnderstanding(w, intake, goal)
        PROVE  e \in Episode /\ SerialRight' /\ Serial!TaskTurn(e, intake, goal)
    BY <2>5, TaskSteps, ProposeUnderstandingSteps
  <2>6. CASE \E goal \in Text : \/ ClarifyTask(w, intake, goal)
                                \/ ProposeUnderstanding(w, intake, goal)
                                \/ ExecuteTask(w, intake, goal)
    BY <2>5, <2>6 DEF Serial!SemanticTurn
  <2> QED
    BY <1>4, <2>1, <2>2, <2>3, <2>4, <2>6 DEF SemanticTurn
<1>5. CASE \E intake \in Intakes : SemanticTurn(w, intake)
  BY <1>4, <1>5 DEF Serial!Next
<1> QED
  BY <1>1, <1>2, <1>3, <1>5 DEF Decide

(***************************************************************************)
(* The theorem.                                                            *)
(***************************************************************************)

\* At the start nothing is owed, and the dialogue has not begun.
LEMMA SerialBegins == SerialInit => Serial!Init /\ SerialRight
<1> SUFFICES ASSUME SerialInit PROVE Serial!Init /\ SerialRight
  OBVIOUS
<1>1. /\ turn = Started /\ versions = << >>
      /\ episodes = [e \in Episode |-> None]
      /\ rule_candidates = [e \in Episode |-> None]
      /\ understandings = [e \in Episode |-> None]
      /\ deferred = [e \in Episode |-> None]
      /\ unknown_utterances = [e \in Episode |-> << >>]
  BY DEF SerialInit, Init
<1>2. \A w \in Worker : /\ jobs[w].pc = "idle" /\ jobs[w].response = "none"
                        /\ jobs[w].writes = << >>
  BY DEF SerialInit, Init, Idle
<1>3. SerialRight
  BY <1>1, <1>2, PlansApart DEF SerialRight, Begins, JobRight, Undecided
<1>4. Owed = {}
  BY <1>2 DEF Owed
<1>5. SerialEpisodes = episodes
  BY <1>4, SettledByNone DEF SerialEpisodes
<1>6. /\ SerialCandidates = rule_candidates /\ SerialUnderstandings = understandings
      /\ SerialDeferred = deferred /\ SerialUtterances = unknown_utterances
      /\ SerialVersions = << >>
  BY <1>1, <1>4, SettledByNone DEF SerialCandidates, SerialUnderstandings,
     SerialDeferred, SerialUtterances, SerialVersions
<1>7. SerialState = [e \in Episode |-> None] /\ SerialCount = [e \in Episode |-> 0]
  BY <1>1, <1>5 DEF SerialState, SerialCount, StateOf, CountOf
<1> QED
  BY <1>1, <1>3, <1>6, <1>7 DEF Serial!Init, Started

\* Every step of the worker is a turn of the dialogue or none of its steps.
LEMMA SerialSteps ==
    ASSUME TypeOK, SerialRight, [SerialNext]_<<vars, turn>>
    PROVE  TypeOK' /\ SerialRight' /\ [Serial!Next]_Serial!vars
<1>1. CASE SerialNext
  <2>1. TypeOK'
    BY <1>1, TypeStep DEF SerialNext
  <2>2. PICK w \in Worker :
            \/ ReceiveProgramQuery(w)
            \/ \E e \in Episode : \/ ReceiveEpisode(w, e)
                                  \/ \E command \in Command : ReceiveTurn(w, e, command)
            \/ Serve(w)
    BY <1>1 DEF SerialNext, Next
  <2>3. CASE \/ ReceiveProgramQuery(w)
             \/ \E e \in Episode : \/ ReceiveEpisode(w, e)
                                   \/ \E command \in Command : ReceiveTurn(w, e, command)
    BY <1>1, <2>1, <2>3, ArrivesQuietly
  <2>4. CASE ReadVersions(w)
    BY <1>1, <2>1, <2>4, ReadQuietly
  <2>5. CASE Initialise(w)
    BY <1>1, <2>1, <2>5, InitialisedQuietly
  <2>6. CASE FetchProgram(w)
    BY <1>1, <2>1, <2>6, FetchedQuietly
  <2>7. CASE Decide(w)
    BY <1>1, <2>1, <2>7, DecideSteps
  <2>8. CASE Write(w)
    BY <1>1, <2>1, <2>8, WrittenQuietly
  <2>9. CASE Respond(w)
    BY <1>1, <2>1, <2>9, AnsweredQuietly
  <2> QED
    BY <2>2, <2>3, <2>4, <2>5, <2>6, <2>7, <2>8, <2>9 DEF Serve
<1>2. CASE UNCHANGED <<vars, turn>>
  <2>1. TypeOK'
    BY <1>2, TypeStep
  <2>2. /\ UNCHANGED <<jobs, turn, episodes, rule_candidates, understandings, deferred,
                       versions, unknown_utterances>>
    BY <1>2 DEF vars, stores
  <2>3. SerialRight'
    BY <2>2 DEF SerialRight, Begins, JobRight, Current
  <2>4. Owed' = Owed
    BY <2>2 DEF Owed
  <2>5. SerialEpisodes' = SerialEpisodes
    BY <2>2, <2>4 DEF SerialEpisodes
  <2>6. UNCHANGED Serial!vars
    BY <2>2, <2>4, <2>5 DEF Serial!vars, SerialState, SerialCount, SerialCandidates,
       SerialUnderstandings, SerialDeferred, SerialUtterances, SerialVersions
  <2> QED
    BY <2>1, <2>3, <2>6
<1> QED
  BY <1>1, <1>2

\* One worker's handlers, every read and write of which is a step, implement the
\* atomic turns of the dialogue controller, whatever intakes the classifier
\* returns: a turn decides from what is stored when it decides, and takes effect
\* at once in every repository its branch writes.
THEOREM OneWorkerIsSerial == SerialSpec => ImplementsOrchestrator
<1>1. SerialInit => Serial!Init /\ TypeOK /\ SerialRight
  BY SerialBegins, TypeInit DEF SerialInit
<1>2. /\ TypeOK /\ SerialRight /\ [SerialNext]_<<vars, turn>>
      => TypeOK' /\ SerialRight' /\ [Serial!Next]_Serial!vars
  BY SerialSteps
<1> QED
  BY <1>1, <1>2, PTL DEF SerialSpec, ImplementsOrchestrator, Serial!Spec

=============================================================================
