---------------------------- MODULE WebPageProofs ---------------------------
(***************************************************************************)
(* Theorems about WebPage, for any number of pages and server threads.     *)
(***************************************************************************)
EXTENDS WebPage, TurnServerProofs, SequenceTheorems

Line == [state : EpisodeState, fallback_count : Nat, version : Nat]

PageTypeOK ==
    /\ shown \in [Episode -> Line \cup {None}]
    /\ answers \in [Episode -> Seq(Line \cup {None})]
    /\ pace \in [Episode -> {"calm", "hurried", "repairing", "repaired"}]

(***************************************************************************)
(* A page takes only steps of the server, and keeps it well typed.         *)
(***************************************************************************)

\* To the server a step of the page is a step of its own, or none.
LEMMA PageSteps ==
    ASSUME [PageNext]_pageVars
    PROVE  [Next]_vars
<1>1. CASE UNCHANGED pageVars
  BY <1>1 DEF pageVars
<1>2. CASE PageNext
  BY <1>2 DEF PageNext, Open, SubmitTurn, InspectProgram, Handle, SendProgram, Send, Show,
     Shows, Next, Serve
<1> QED
  BY <1>1, <1>2

\* What the theorems of TurnServer establish holds under the page too.
LEMMA ServerUnderPage == PageSpec => [](TypeOK /\ CountingServer)
<1>1. PageInit => TypeOK /\ CountingServer
  BY TypeInit, CountInit DEF PageInit
<1>2. TypeOK /\ CountingServer /\ [PageNext]_pageVars => (TypeOK /\ CountingServer)'
  BY PageSteps, TypeStep, CountStep
<1> QED
  BY <1>1, <1>2, PTL DEF PageSpec

\* Taking an answer out leaves the others.
LEMMA RemovedParts ==
    ASSUME NEW S, NEW s \in Seq(S), NEW i \in DOMAIN s
    PROVE  /\ RemoveAt(s, i) \in Seq(S)
           /\ Len(RemoveAt(s, i)) = Len(s) - 1
           /\ \A j \in DOMAIN RemoveAt(s, i) :
                 \E k \in DOMAIN s : RemoveAt(s, i)[j] = s[k]
<1> DEFINE before == SubSeq(s, 1, i - 1)
           after == SubSeq(s, i + 1, Len(s))
<1>1. Len(s) \in Nat /\ DOMAIN s = 1..Len(s) /\ i \in 1..Len(s)
  OBVIOUS
<1>2. /\ before \in Seq(S) /\ Len(before) = i - 1
      /\ \A j \in 1..(i - 1) : before[j] = s[j]
  BY <1>1
<1>3. /\ after \in Seq(S) /\ Len(after) = Len(s) - i
      /\ \A j \in 1..(Len(s) - i) : after[j] = s[i + j]
  BY <1>1
<1>4. RemoveAt(s, i) = before \o after
  BY DEF RemoveAt
<1> HIDE DEF before, after
<1>5. /\ before \o after \in Seq(S)
      /\ Len(before \o after) = Len(before) + Len(after)
      /\ \A j \in 1..Len(before) + Len(after) :
            (before \o after)[j]
               = IF j <= Len(before) THEN before[j] ELSE after[j - Len(before)]
  BY <1>2, <1>3, ConcatProperties
<1>a. /\ Len(before) + Len(after) = Len(s) - 1
      /\ Len(before \o after) = Len(s) - 1
  BY <1>1, <1>2, <1>3, <1>5
<1>6. DOMAIN (before \o after) = 1..(Len(s) - 1)
  BY <1>5, <1>a
<1>7. ASSUME NEW j \in 1..(Len(s) - 1)
      PROVE  \E k \in DOMAIN s : (before \o after)[j] = s[k]
  <2>1. CASE j <= i - 1
    <3>1. (before \o after)[j] = s[j] /\ j \in DOMAIN s
      BY <1>1, <1>2, <1>5, <1>a, <2>1
    <3> QED
      BY <3>1
  <2>2. CASE j > i - 1
    <3>1. (before \o after)[j] = after[j - (i - 1)] /\ j - (i - 1) \in 1..(Len(s) - i)
      BY <1>1, <1>2, <1>5, <1>a, <2>2
    <3>2. after[j - (i - 1)] = s[i + (j - (i - 1))] /\ i + (j - (i - 1)) \in DOMAIN s
      BY <1>1, <1>3, <3>1
    <3> QED
      BY <3>1, <3>2
  <2>3. j <= i - 1 \/ j > i - 1
    BY <1>1
  <2> QED
    BY <2>1, <2>2, <2>3
<1> QED
  BY <1>4, <1>5, <1>a, <1>6, <1>7

\* A status line is made of a saved episode and a version number.
LEMMA LineType ==
    ASSUME NEW job \in Job
    PROVE  /\ StatusLine(job) \in Line \cup {None}
           /\ job.snapshot = None => StatusLine(job) = None
           /\ job.snapshot # None =>
                  /\ StatusLine(job) # None /\ StatusLine(job) \in Line
                  /\ StatusLine(job).state = job.snapshot.state
                  /\ StatusLine(job).fallback_count = job.snapshot.fallback_count
                  /\ StatusLine(job).version = job.number
<1>1. CASE job.snapshot = None
  BY <1>1 DEF StatusLine
<1>2. CASE job.snapshot # None
  <2>1. job.snapshot \in StoredEpisode /\ job.number \in Nat
    BY <1>2 DEF Job
  <2>2. StatusLine(job) = [state |-> job.snapshot.state,
                           fallback_count |-> job.snapshot.fallback_count,
                           version |-> job.number]
    BY <1>2 DEF StatusLine
  <2>3. StatusLine(job) \in Line
    BY <2>1, <2>2 DEF StoredEpisode, Line
  <2> QED
    BY <1>2, <2>2, <2>3, NoneIsNoLine DEF Line
<1> QED
  BY <1>1, <1>2

\* The page goes on holding lines and answers.
LEMMA PageTypeStep ==
    ASSUME TypeOK, PageTypeOK, [PageNext]_pageVars
    PROVE  PageTypeOK'
<1>1. CASE UNCHANGED page
  BY <1>1 DEF page, PageTypeOK
<1>2. ASSUME NEW w \in Worker, NEW e \in Episode, NEW command \in Command,
             SubmitTurn(w, e, command)
      PROVE  PageTypeOK'
  BY <1>2 DEF SubmitTurn, PageTypeOK
<1>3. ASSUME NEW w \in Worker, Send(w) PROVE PageTypeOK'
  <2>1. jobs[w] \in Job
    BY DEF TypeOK
  <2> DEFINE e == jobs[w].episode
             line == StatusLine(jobs[w])
  <2>2. line \in Line \cup {None}
    BY <2>1, LineType
  <2>3. /\ answers' = [answers EXCEPT ![e] = Append(answers[e], line)]
        /\ shown' = shown /\ pace' = pace
    BY <1>3 DEF Send
  <2> HIDE DEF line
  <2>4. CASE e \in Episode
    <3>1. Append(answers[e], line) \in Seq(Line \cup {None})
      BY <2>2, <2>4 DEF PageTypeOK
    <3> QED
      BY <2>3, <3>1 DEF PageTypeOK
  <2>5. CASE e \notin Episode
    BY <2>3, <2>5 DEF PageTypeOK
  <2> QED
    BY <2>4, <2>5
<1>4. ASSUME NEW e \in Episode, NEW i \in DOMAIN answers[e], Show(e, i)
      PROVE  PageTypeOK'
  <2> DEFINE line == IF answers[e][i] = None THEN shown[e] ELSE answers[e][i]
             left == RemoveAt(answers[e], i)
  <2>1. answers[e] \in Seq(Line \cup {None})
    BY DEF PageTypeOK
  <2>2. left \in Seq(Line \cup {None})
    BY <2>1, RemovedParts
  <2>3. line \in Line \cup {None}
    BY <2>1 DEF PageTypeOK
  <2>4. /\ answers' = [answers EXCEPT ![e] = left]
        /\ shown' = [shown EXCEPT ![e] = line]
    BY <1>4 DEF Show, Shows
  <2>5. pace' \in [Episode -> {"calm", "hurried", "repairing", "repaired"}]
    BY <1>4 DEF Show, Shows, PageTypeOK
  <2> HIDE DEF line, left
  <2> QED
    BY <2>2, <2>3, <2>4, <2>5 DEF PageTypeOK
<1> QED
  BY <1>1, <1>2, <1>3, <1>4
  DEF PageNext, Open, InspectProgram, Handle, SendProgram, pageVars

\* Every page is well typed.
THEOREM PageTypeInvariant == PageSpec => []PageTypeOK
<1>1. PageInit => PageTypeOK
  BY DEF PageInit, PageTypeOK
<1>2. TypeOK /\ PageTypeOK /\ [PageNext]_pageVars => PageTypeOK'
  BY PageTypeStep
<1> QED
  BY <1>1, <1>2, ServerUnderPage, PTL DEF PageSpec

(***************************************************************************)
(* What the jobs of a page's requests are like.                            *)
(***************************************************************************)

\* A request is about an episode, or about the program alone.  The episode is saved
\* last, as it will be answered, and the version answered with is saved by then.
JobRight(job, stored) ==
    /\ job.pc # "idle" => \/ job.request \in {"create_episode", "turn"}
                          \/ job.request = "program" /\ job.episode = None
    /\ \A i \in DOMAIN job.writes :
          job.writes[i].repository = "episodes" => i = Len(job.writes)
    /\ job.pc = "write" =>
          job.writes[Len(job.writes)] = Put("episodes", job.episode, job.snapshot)
    /\ job.pc \in {"fetch", "decide"} => job.number <= stored
    /\ job.pc \in {"write", "respond"} =>
          \/ job.number <= stored
          \/ \E i \in DOMAIN job.writes :
                job.writes[i].repository = "versions" /\ job.writes[i].key = job.number

JobsRight == \A w \in Worker : JobRight(jobs[w], Len(versions))

\* Once a version is saved the store reaches its number.
LEMMA SavedReaches ==
    ASSUME NEW store \in Seq(AgentProgram), NEW number \in Nat \ {0},
           NEW program \in AgentProgram, number <= Len(store) + 1
    PROVE  Len(SaveVersion(store, number, program)) >= number
<1>1. CASE number \in DOMAIN store
  <2>1. SaveVersion(store, number, program) = [store EXCEPT ![number] = program]
    BY <1>1 DEF SaveVersion
  <2> QED
    BY <1>1, <2>1
<1>2. CASE number \notin DOMAIN store
  <2>1. SaveVersion(store, number, program) = Append(store, program)
    BY <1>2 DEF SaveVersion
  <2> QED
    BY <2>1
<1> QED
  BY <1>1, <1>2

\* A job nobody touches stays right: the versions never get fewer.
LEMMA UntouchedRight ==
    ASSUME NEW job \in Job, NEW less \in Nat, NEW more \in Nat, less <= more,
           JobRight(job, less)
    PROVE  JobRight(job, more)
BY DEF JobRight, Job

\* A job that carries out a write stays right.
LEMMA WrittenRight ==
    ASSUME TypeOK, CountingServer, JobsRight, NEW w \in Worker, Write(w),
           Len(versions') >= Len(versions), Len(versions') \in Nat
    PROVE  JobRight(jobs'[w], Len(versions'))
<1> DEFINE writes == jobs[w].writes
           number == jobs[w].number
<1>1. /\ SameRequest(w) /\ jobs[w].pc = "write"
      /\ jobs'[w].pc = IF Len(writes) = 1 THEN "respond" ELSE "write"
      /\ jobs'[w].snapshot = jobs[w].snapshot /\ jobs'[w].number = number
      /\ jobs'[w].writes = Tail(writes)
      /\ versions' = StoredVersion(versions, Head(writes))
  BY WrittenJob
<1>2. /\ writes \in Seq(PendingWrite) /\ writes # << >> /\ number \in Nat
      /\ versions \in Seq(AgentProgram) /\ Len(versions) \in Nat
  BY <1>1 DEF TypeOK, Job, JobReady
<1>3. /\ Head(writes) = writes[1] /\ Len(writes) \in Nat \ {0}
      /\ DOMAIN writes = 1..Len(writes)
      /\ Len(Tail(writes)) = Len(writes) - 1 /\ DOMAIN Tail(writes) = 1..(Len(writes) - 1)
      /\ \A i \in 1..(Len(writes) - 1) : Tail(writes)[i] = writes[i + 1]
  BY <1>2
<1>4. JobRight(jobs[w], Len(versions)) /\ JobCounts(jobs[w], Len(versions))
  BY DEF JobsRight, CountingServer
<1>5. jobs'[w].pc # "idle" => \/ jobs'[w].request \in {"create_episode", "turn"}
                              \/ jobs'[w].request = "program" /\ jobs'[w].episode = None
  BY <1>1, <1>4 DEF JobRight, SameRequest
<1>6. \A i \in DOMAIN Tail(writes) :
          Tail(writes)[i].repository = "episodes" => i = Len(Tail(writes))
  <2> SUFFICES ASSUME NEW i \in 1..(Len(writes) - 1),
                      Tail(writes)[i].repository = "episodes"
               PROVE  i = Len(writes) - 1
    BY <1>3
  <2>1. i + 1 \in DOMAIN writes /\ writes[i + 1].repository = "episodes"
    BY <1>3
  <2>2. i + 1 = Len(writes)
    BY <1>4, <2>1 DEF JobRight
  <2> QED
    BY <1>3, <2>2
<1>7. jobs'[w].pc = "write" =>
          Tail(writes)[Len(Tail(writes))] = Put("episodes", jobs[w].episode, jobs[w].snapshot)
  <2>1. CASE Len(writes) = 1
    BY <1>1, <2>1
  <2>2. CASE Len(writes) # 1
    <3>a. Len(writes) \in Nat /\ Len(writes) # 0
      BY <1>3
    <3>b. \A n \in Nat : n # 0 /\ n # 1 => n - 1 \in 1..(n - 1) /\ n - 1 + 1 = n
      OBVIOUS
    <3>0. Len(writes) - 1 \in 1..(Len(writes) - 1) /\ Len(writes) - 1 + 1 = Len(writes)
      BY <2>2, <3>a, <3>b, Zenon
    <3>1. Tail(writes)[Len(writes) - 1] = writes[Len(writes) - 1 + 1]
      BY <1>3, <3>0
    <3>2. Tail(writes)[Len(Tail(writes))] = writes[Len(writes)]
      BY <1>3, <3>0, <3>1
    <3> QED
      BY <1>1, <1>4, <3>2 DEF JobRight
  <2> QED
    BY <2>1, <2>2
<1>8. \/ number <= Len(versions')
      \/ \E i \in DOMAIN Tail(writes) :
            Tail(writes)[i].repository = "versions" /\ Tail(writes)[i].key = number
  <2>1. CASE number <= Len(versions)
    BY <1>2, <2>1
  <2>2. ASSUME NEW i \in DOMAIN writes,
               writes[i].repository = "versions", writes[i].key = number
        PROVE  <1>8!:
    <3>1. CASE i = 1
      <4>1. /\ number \in Nat \ {0} /\ writes[1].value \in AgentProgram
            /\ number <= Len(versions) + 1
        BY <1>2, <1>4, <2>2, <3>1, WriteParts DEF JobCounts
      <4>2. versions' = SaveVersion(versions, number, writes[1].value)
        BY <1>1, <1>3, <2>2, <3>1 DEF StoredVersion
      <4> QED
        BY <1>2, <4>1, <4>2, SavedReaches
    <3>2. CASE i # 1
      <4>1. i - 1 \in DOMAIN Tail(writes) /\ Tail(writes)[i - 1] = writes[i]
        BY <1>3, <3>2
      <4> QED
        BY <2>2, <4>1
    <3> QED
      BY <3>1, <3>2
  <2> QED
    BY <1>1, <1>4, <2>1, <2>2 DEF JobRight
<1> QED
  BY <1>1, <1>5, <1>6, <1>7, <1>8 DEF JobRight, SameRequest

\* Every step of a page keeps every job right.
LEMMA JobsRightStep ==
    ASSUME TypeOK, CountingServer, JobsRight, [PageNext]_pageVars
    PROVE  JobsRight' /\ Len(versions') >= Len(versions)
<1>0. Len(versions') >= Len(versions)
  BY PageSteps, CountedVersions
<1>1. /\ TypeOK' /\ Len(versions) \in Nat /\ Len(versions') \in Nat
      /\ Len(versions) <= Len(versions')
  BY <1>0, PageSteps, TypeStep DEF TypeOK
<1>2. \A v \in Worker : jobs'[v] = jobs[v] => JobRight(jobs'[v], Len(versions'))
  BY <1>1, UntouchedRight DEF TypeOK, JobsRight
<1>3. ASSUME NEW w \in Worker, Alone(w), JobRight(jobs'[w], Len(versions'))
      PROVE  JobsRight'
  BY <1>2, <1>3 DEF Alone, JobsRight
<1>4. ASSUME UNCHANGED jobs PROVE JobsRight'
  <2>1. \A v \in Worker : JobRight(jobs'[v], Len(versions'))
    BY <1>2, <1>4
  <2> QED
    BY <2>1 DEF JobsRight
<1>5. ASSUME NEW w \in Worker, NEW request \in {"create_episode", "turn", "program"},
             NEW e, NEW command, NEW snapshot, request = "program" => e = None,
             Receive(w, request, e, command, snapshot)
      PROVE  JobsRight'
  <2>1. JobRight(jobs'[w], Len(versions')) /\ Alone(w)
    BY <1>5, ReceivedJob DEF JobRight
  <2> QED
    BY <1>3, <2>1
<1>6. ASSUME NEW w \in Worker, ReadVersions(w) PROVE JobsRight'
  <2>1. /\ Alone(w) /\ SameRequest(w) /\ jobs[w].pc = "read"
        /\ jobs'[w].pc \in {"initialise", "fetch"}
        /\ jobs'[w].pc = "fetch" =>
               /\ versions # << >>
               /\ jobs'[w].number = IF jobs[w].request = "create_episode"
                                    THEN 1 ELSE Len(versions)
        /\ jobs'[w].writes = jobs[w].writes
    BY <1>6, ReadJob
  <2>2. versions # << >> => Len(versions) >= 1
    <3>1. versions \in Seq(AgentProgram)
      BY DEF TypeOK
    <3> QED
      BY <3>1
  <2>3. jobs'[w].pc = "fetch" => jobs'[w].number <= Len(versions')
    BY <1>1, <2>1, <2>2
  <2>4. JobRight(jobs[w], Len(versions))
    BY DEF JobsRight
  <2>5. JobRight(jobs'[w], Len(versions'))
    BY <2>1, <2>3, <2>4 DEF JobRight, SameRequest
  <2> QED
    BY <1>3, <2>1, <2>5
<1>7. ASSUME NEW w \in Worker, Initialise(w) PROVE JobsRight'
  <2>1. /\ Alone(w) /\ SameRequest(w) /\ jobs[w].pc = "initialise"
        /\ jobs'[w].pc = "read" /\ jobs'[w].writes = jobs[w].writes
    BY <1>7, InitialisedJob
  <2>2. JobRight(jobs[w], Len(versions))
    BY DEF JobsRight
  <2>3. JobRight(jobs'[w], Len(versions'))
    BY <2>1, <2>2 DEF JobRight, SameRequest
  <2> QED
    BY <1>3, <2>1, <2>3
<1>8. ASSUME NEW w \in Worker, Decide(w) PROVE JobsRight'
  <2>1. /\ Alone(w) /\ SameRequest(w) /\ jobs[w].pc = "decide"
        /\ AnswersAtOnce(w) \/ PlansWrites(w)
        /\ versions' = versions
    BY <1>8, DecidedJob DEF stores
  <2>2. JobRight(jobs[w], Len(versions))
    BY DEF JobsRight
  <2>3. JobRight(jobs'[w], Len(versions'))
    <3>1. CASE AnswersAtOnce(w)
      BY <2>1, <2>2, <3>1 DEF JobRight, SameRequest, AnswersAtOnce
    <3>2. CASE PlansWrites(w)
      BY <2>1, <2>2, <3>2 DEF JobRight, SameRequest, PlansWrites
    <3> QED
      BY <2>1, <3>1, <3>2
  <2> QED
    BY <1>3, <2>1, <2>3
<1>9. ASSUME NEW w \in Worker, Write(w) PROVE JobsRight'
  <2>1. Alone(w) /\ JobRight(jobs'[w], Len(versions'))
    BY <1>0, <1>1, <1>9, WrittenJob, WrittenRight
  <2> QED
    BY <1>3, <2>1
<1>10. ASSUME NEW w \in Worker, Respond(w) PROVE JobsRight'
  <2>1. Alone(w) /\ jobs'[w].pc = "idle" /\ jobs'[w] = Idle
    BY <1>10, AnsweredJob DEF TypeOK, Respond
  <2>2. JobRight(jobs'[w], Len(versions'))
    BY <2>1 DEF JobRight, Idle
  <2> QED
    BY <1>3, <2>1, <2>2
<1>11. ASSUME NEW w \in Worker, FetchProgram(w) PROVE JobsRight'
  <2>1. /\ Alone(w) /\ SameRequest(w) /\ jobs[w].pc = "fetch"
        /\ jobs'[w].pc = "decide" /\ jobs'[w].number = jobs[w].number
        /\ jobs'[w].writes = jobs[w].writes /\ versions' = versions
    BY <1>11, FetchedJob DEF stores
  <2>2. JobRight(jobs[w], Len(versions))
    BY DEF JobsRight
  <2>3. JobRight(jobs'[w], Len(versions'))
    BY <2>1, <2>2 DEF JobRight, SameRequest
  <2> QED
    BY <1>3, <2>1, <2>3
<1>12. ASSUME NEW w \in Worker, NEW e \in Episode, Open(w, e) PROVE JobsRight'
  <2>1. Receive(w, "create_episode", e, "none", Snapshot("open", 0))
    BY <1>12 DEF Open, ReceiveEpisode
  <2> QED
    BY <1>5, <2>1
<1>13. ASSUME NEW w \in Worker, NEW e \in Episode, NEW command \in Command,
              SubmitTurn(w, e, command)
       PROVE  JobsRight'
  <2>1. Receive(w, "turn", e, command, episodes[e])
    BY <1>13 DEF SubmitTurn, ReceiveTurn
  <2> QED
    BY <1>5, <2>1
<1>14. ASSUME NEW w \in Worker, InspectProgram(w) PROVE JobsRight'
  <2>1. Receive(w, "program", None, "none", None)
    BY <1>14 DEF InspectProgram, ReceiveProgramQuery
  <2> QED
    BY <1>5, <2>1
<1>15. ASSUME NEW w \in Worker, Handle(w) \/ SendProgram(w) \/ Send(w) PROVE JobsRight'
  BY <1>6, <1>7, <1>8, <1>9, <1>10, <1>11, <1>15 DEF Handle, SendProgram, Send
<1>16. ASSUME NEW e \in Episode, NEW i \in DOMAIN answers[e], Show(e, i) PROVE JobsRight'
  BY <1>4, <1>16 DEF Show, Shows, vars
<1>17. ASSUME UNCHANGED pageVars PROVE JobsRight'
  BY <1>4, <1>17 DEF pageVars, vars
<1> QED
  BY <1>0, <1>12, <1>13, <1>14, <1>15, <1>16, <1>17 DEF PageNext

\* What is written is written for an episode.
LEMMA WritingEpisode ==
    ASSUME TypeOK, JobsRight, NEW w \in Worker, jobs[w].pc = "write"
    PROVE  jobs[w].episode \in Episode
<1> DEFINE writes == jobs[w].writes
           last == writes[Len(writes)]
<1>1. writes \in Seq(PendingWrite) /\ writes # << >>
  BY DEF TypeOK, Job, JobReady
<1>2. last \in PendingWrite
  <2>1. Len(writes) \in DOMAIN writes
    BY <1>1
  <2> QED
    BY <1>1, <2>1
<1>3. last = Put("episodes", jobs[w].episode, jobs[w].snapshot)
  BY DEF JobsRight, JobRight
<1> HIDE DEF last
<1>4. last.repository = "episodes" /\ last.key = jobs[w].episode
  BY <1>3 DEF Put
<1>5. last.key \in Episode
  BY <1>2, <1>4 DEF PendingWrite
<1> QED
  BY <1>4, <1>5

(***************************************************************************)
(* What a page is told.                                                    *)
(***************************************************************************)

\* No line tells of a version that is not saved yet.
LineSaved(line, saved) == line # None => line.version <= saved

LinesSaved ==
    \A e \in Episode :
        /\ LineSaved(shown[e], Len(versions))
        /\ \A i \in DOMAIN answers[e] : LineSaved(answers[e][i], Len(versions))

\* Every step of a page keeps it so.
LEMMA LinesSavedStep ==
    ASSUME TypeOK, CountingServer, JobsRight, PageTypeOK, LinesSaved,
           [PageNext]_pageVars
    PROVE  LinesSaved'
<1>0. /\ Len(versions') >= Len(versions) /\ Len(versions) \in Nat /\ Len(versions') \in Nat
      /\ PageTypeOK'
  BY JobsRightStep, PageSteps, TypeStep, PageTypeStep DEF TypeOK
<1>1. \A line \in Line \cup {None} : 
          LineSaved(line, Len(versions)) => LineSaved(line, Len(versions'))
  BY <1>0 DEF LineSaved, Line
<1>2. CASE shown' = shown /\ answers' = answers
  BY <1>1, <1>2 DEF LinesSaved, PageTypeOK
<1>3. ASSUME NEW w \in Worker, Send(w) PROVE LinesSaved'
  <2> DEFINE e == jobs[w].episode
             line == StatusLine(jobs[w])
  <2>1. /\ jobs[w] \in Job /\ jobs[w].pc = "respond" /\ JobRight(jobs[w], Len(versions))
        /\ jobs[w].writes = << >> /\ e \in Episode
    BY <1>3, AnsweredJob DEF Send, TypeOK, JobReady, JobsRight
  <2>2. line \in Line \cup {None} /\ LineSaved(line, Len(versions))
    BY <2>1, LineType DEF LineSaved, JobRight
  <2>3. answers' = [answers EXCEPT ![e] = Append(answers[e], line)] /\ shown' = shown
    BY <1>3 DEF Send
  <2> HIDE DEF line, e
  <2>4. answers[e] \in Seq(Line \cup {None})
    BY <2>1 DEF PageTypeOK
  <2>5. \A i \in DOMAIN Append(answers[e], line) :
            Append(answers[e], line)[i] \in {line} \cup {answers[e][j] : j \in DOMAIN answers[e]}
    BY <2>2, <2>4
  <2>6. ASSUME NEW i \in DOMAIN answers'[e] PROVE LineSaved(answers'[e][i], Len(versions))
    <3>1. answers'[e] = Append(answers[e], line)
      BY <2>1, <2>3 DEF PageTypeOK
    <3>2. \A j \in DOMAIN answers[e] : LineSaved(answers[e][j], Len(versions))
      BY <2>1 DEF LinesSaved
    <3>3. answers'[e][i] \in {line} \cup {answers[e][j] : j \in DOMAIN answers[e]}
      BY <2>5, <2>6, <3>1
    <3> QED
      BY <2>2, <3>2, <3>3
  <2>7. \A i \in DOMAIN answers'[e] : answers'[e][i] \in Line \cup {None}
    BY <1>0, <2>1 DEF PageTypeOK
  <2>8. \A i \in DOMAIN answers'[e] : LineSaved(answers'[e][i], Len(versions'))
    BY <1>1, <2>6, <2>7
  <2>9. \A d \in Episode \ {e} : answers'[d] = answers[d]
    BY <2>3 DEF PageTypeOK
  <2> QED
    BY <1>1, <2>3, <2>8, <2>9 DEF LinesSaved, PageTypeOK
<1>4. ASSUME NEW e \in Episode, NEW i \in DOMAIN answers[e], Show(e, i)
      PROVE  LinesSaved'
  <2> DEFINE line == IF answers[e][i] = None THEN shown[e] ELSE answers[e][i]
             left == RemoveAt(answers[e], i)
  <2>1. answers[e] \in Seq(Line \cup {None})
    BY DEF PageTypeOK
  <2>2. \A j \in DOMAIN left : \E k \in DOMAIN answers[e] : left[j] = answers[e][k]
    BY <2>1, RemovedParts
  <2>3. line \in Line \cup {None} /\ LineSaved(line, Len(versions))
    BY <2>1 DEF PageTypeOK, LinesSaved
  <2>4. /\ answers' = [answers EXCEPT ![e] = left]
        /\ shown' = [shown EXCEPT ![e] = line]
    BY <1>4 DEF Show, Shows
  <2> HIDE DEF line, left
  <2>5. /\ answers'[e] = left /\ shown'[e] = line
        /\ \A d \in Episode \ {e} : answers'[d] = answers[d] /\ shown'[d] = shown[d]
    BY <2>4 DEF PageTypeOK
  <2>6. \A j \in DOMAIN answers'[e] :
            answers'[e][j] \in Line \cup {None} /\ LineSaved(answers'[e][j], Len(versions))
    BY <1>0, <2>2, <2>5 DEF PageTypeOK, LinesSaved
  <2> QED
    BY <1>1, <2>3, <2>5, <2>6 DEF LinesSaved, PageTypeOK
<1> QED
  BY <1>2, <1>3, <1>4
  DEF PageNext, Open, SubmitTurn, InspectProgram, Handle, SendProgram, page, pageVars

\* A worker has a request of the page of e under way.
On(w, e) == jobs[w].pc # "idle" /\ jobs[w].episode = e

\* The status line tells what is saved of the episode, if its user has waited.
Matches(line, episode) ==
    line.state = episode.state /\ line.fallback_count = episode.fallback_count

Trusted(line, episode, p) ==
    line # None /\ p \in {"calm", "repaired"} => Matches(line, episode)

\* What a request under way will make of it: nothing before its episode is saved,
\* and what it answers after that.
JobTells(job, line, episode, p) ==
    /\ job.pc \in {"read", "initialise", "fetch", "decide", "write"} \/ job.snapshot = None =>
           Trusted(line, episode, p)
    /\ job.pc = "respond" /\ job.snapshot # None => Matches(job.snapshot, episode)
    /\ job.pc \in {"fetch", "decide", "write", "respond"} /\ line # None =>
           line.version <= job.number

\* What an answer under way will make of it.
AnswerTells(answer, line, episode, p) ==
    /\ answer = None => Trusted(line, episode, p)
    /\ answer # None => Matches(answer, episode)
    /\ answer # None /\ line # None => line.version <= answer.version

\* Unless its user hurried, a page has one request or one answer under way.
Waits(e) ==
    /\ \A v, w \in Worker : On(v, e) /\ On(w, e) => v = w
    /\ Busy(e) => answers[e] = << >>
    /\ Len(answers[e]) <= 1

EpisodeTold(e) ==
    /\ shown[e] = None => pace[e] = "calm"
    /\ \A w \in Worker :
          On(w, e) /\ jobs[w].request = "create_episode" => shown[e] = None
    /\ pace[e] # "hurried" =>
          /\ Waits(e)
          /\ \A w \in Worker :
                On(w, e) => JobTells(jobs[w], shown[e], episodes[e], pace[e])
          /\ \A i \in DOMAIN answers[e] :
                AnswerTells(answers[e][i], shown[e], episodes[e], pace[e])
          /\ ~Outstanding(e) => Trusted(shown[e], episodes[e], pace[e])

Told == \A e \in Episode : EpisodeTold(e)

\* What happens to other episodes does not reach this one.
LEMMA QuietTold ==
    ASSUME NEW e \in Episode, EpisodeTold(e),
           \A w \in Worker : On(w, e) \/ On(w, e)' => jobs'[w] = jobs[w],
           shown'[e] = shown[e], answers'[e] = answers[e], pace'[e] = pace[e],
           episodes'[e] = episodes[e]
    PROVE  EpisodeTold(e)'
<1>1. \A w \in Worker : /\ On(w, e)' <=> On(w, e)
                        /\ On(w, e) => jobs'[w] = jobs[w]
  BY DEF On
<1>2. (Busy(e)' <=> Busy(e)) /\ (Outstanding(e)' <=> Outstanding(e))
  BY <1>1 DEF Busy, On, Outstanding
<1>3. (shown[e] = None => pace[e] = "calm")'
  BY DEF EpisodeTold
<1>4. \A w \in Worker :
          On(w, e)' /\ jobs'[w].request = "create_episode" => shown'[e] = None
  BY <1>1 DEF EpisodeTold
<1>5. ASSUME pace'[e] # "hurried"
      PROVE  /\ Waits(e)'
             /\ \A w \in Worker :
                   On(w, e)' => JobTells(jobs'[w], shown'[e], episodes'[e], pace'[e])
             /\ \A i \in DOMAIN answers'[e] :
                   AnswerTells(answers'[e][i], shown'[e], episodes'[e], pace'[e])
             /\ ~Outstanding(e)' => Trusted(shown'[e], episodes'[e], pace'[e])
  <2>1. /\ Waits(e)
        /\ \A w \in Worker :
              On(w, e) => JobTells(jobs[w], shown[e], episodes[e], pace[e])
        /\ \A i \in DOMAIN answers[e] :
              AnswerTells(answers[e][i], shown[e], episodes[e], pace[e])
        /\ ~Outstanding(e) => Trusted(shown[e], episodes[e], pace[e])
    BY <1>5 DEF EpisodeTold
  <2>2. Waits(e)'
    BY <1>1, <1>2, <2>1 DEF Waits
  <2>3. \A w \in Worker :
            On(w, e)' => JobTells(jobs'[w], shown'[e], episodes'[e], pace'[e])
    BY <1>1, <2>1
  <2> QED
    BY <1>2, <2>1, <2>2, <2>3
<1> QED
  BY <1>3, <1>4, <1>5 DEF EpisodeTold

\* A handler at work on an episode the page of which does not move.
LEMMA HandledTold ==
    ASSUME NEW e \in Episode, EpisodeTold(e), NEW w \in Worker, On(w, e),
           Alone(w), SameRequest(w), jobs'[w].pc # "idle",
           shown'[e] = shown[e], answers'[e] = answers[e], pace'[e] = pace[e],
           JobTells(jobs[w], shown[e], episodes[e], pace[e]) =>
               JobTells(jobs'[w], shown[e], episodes'[e], pace[e])
    PROVE  EpisodeTold(e)'
<1>1. \A v \in Worker : (On(v, e)' <=> On(v, e))
                         /\ jobs'[v].request = jobs[v].request
  BY DEF On, Alone, SameRequest
<1>2. Busy(e) /\ Busy(e)' /\ Outstanding(e)'
  BY <1>1 DEF Busy, On, Outstanding
<1>3. (shown[e] = None => pace[e] = "calm")'
  BY DEF EpisodeTold
<1>4. \A v \in Worker :
          On(v, e)' /\ jobs'[v].request = "create_episode" => shown'[e] = None
  BY <1>1 DEF EpisodeTold
<1>5. ASSUME pace'[e] # "hurried"
      PROVE  /\ Waits(e)'
             /\ \A v \in Worker :
                   On(v, e)' => JobTells(jobs'[v], shown'[e], episodes'[e], pace'[e])
             /\ \A i \in DOMAIN answers'[e] :
                   AnswerTells(answers'[e][i], shown'[e], episodes'[e], pace'[e])
  <2>1. /\ Waits(e)
        /\ \A v \in Worker :
              On(v, e) => JobTells(jobs[v], shown[e], episodes[e], pace[e])
    BY <1>5 DEF EpisodeTold
  <2>2. Waits(e)' /\ answers'[e] = << >>
    BY <1>1, <1>2, <2>1 DEF Waits
  <2>3. \A v \in Worker : On(v, e)' => v = w
    BY <1>1, <2>1 DEF Waits
  <2>4. JobTells(jobs'[w], shown'[e], episodes'[e], pace'[e])
    BY <2>1
  <2> QED
    BY <2>2, <2>3, <2>4
<1> QED
  BY <1>2, <1>3, <1>4, <1>5 DEF EpisodeTold

\* Inspecting the program is nothing to any page.
LEMMA ProgramIsNoPage ==
    ASSUME TypeOK, JobsRight, NEW w \in Worker, jobs[w].pc # "idle",
           jobs[w].request = "program"
    PROVE  jobs[w].episode = None /\ jobs[w].pc # "write" /\ None \notin Episode
BY WritingEpisode, NoneAssumption DEF JobsRight, JobRight

\* The episode of a request about one.
LEMMA RequestEpisode ==
    ASSUME TypeOK, JobsRight, NEW w \in Worker, jobs[w].pc # "idle",
           jobs[w].request # "program"
    PROVE  /\ jobs[w] \in Job /\ jobs[w].episode \in Episode /\ On(w, jobs[w].episode)
           /\ jobs[w].request \in {"create_episode", "turn"}
           /\ JobRight(jobs[w], Len(versions))
BY DEF TypeOK, JobReady, JobsRight, JobRight, On

\* A handler takes a step on its own episode.
LEMMA EpisodeHandled ==
    ASSUME TypeOK, JobsRight, PageTypeOK, LinesSaved, Told, NEW w \in Worker, Handle(w),
           jobs[w].request # "program"
    PROVE  /\ \A e \in Episode : e = jobs[w].episode => EpisodeTold(e)'
           /\ Alone(w) /\ jobs[w].pc # "idle" /\ SameRequest(w)
           /\ \A e \in Episode : e # jobs[w].episode => episodes'[e] = episodes[e]
<1>0. ReadVersions(w) \/ Initialise(w) \/ FetchProgram(w) \/ Decide(w) \/ Write(w)
  BY DEF Handle
<1>1. /\ jobs[w].pc # "idle" /\ jobs'[w].pc # "idle"
      /\ Alone(w) /\ SameRequest(w)
  BY <1>0, ReadJob, InitialisedJob, FetchedJob, DecidedJob, WrittenJob DEF AnswersAtOnce, PlansWrites
<1>2. /\ jobs[w] \in Job /\ jobs[w].episode \in Episode /\ On(w, jobs[w].episode)
      /\ jobs[w].request \in {"create_episode", "turn"}
      /\ JobRight(jobs[w], Len(versions))
  BY <1>1, RequestEpisode
<1>3. PICK e \in Episode : e = jobs[w].episode
  BY <1>2
<1>4. /\ shown' = shown /\ answers' = answers /\ pace' = pace
  BY DEF Handle, page
<1>5. /\ On(w, e) /\ EpisodeTold(e)
      /\ jobs[w].request = "create_episode" => shown[e] = None
      /\ shown[e] # None => shown[e].version \in Nat /\ shown[e].version <= Len(versions)
  BY <1>2, <1>3 DEF Told, EpisodeTold, PageTypeOK, Line, LinesSaved, LineSaved
<1>6. /\ JobTells(jobs[w], shown[e], episodes[e], pace[e]) =>
            JobTells(jobs'[w], shown[e], episodes'[e], pace[e])
      /\ \A d \in Episode : d # e => episodes'[d] = episodes[d]
  <2>1. CASE ReadVersions(w)
    <3>1. /\ jobs[w].pc = "read" /\ jobs'[w].pc \in {"initialise", "fetch"}
          /\ jobs'[w].pc = "fetch" =>
                 jobs'[w].number = IF jobs[w].request = "create_episode"
                                   THEN 1 ELSE Len(versions)
          /\ episodes' = episodes
      BY <2>1, ReadJob DEF stores
    <3> QED
      BY <1>5, <3>1 DEF JobTells
  <2>2. CASE Initialise(w)
    <3>1. /\ jobs[w].pc = "initialise" /\ jobs'[w].pc = "read" /\ episodes' = episodes
      BY <2>2, InitialisedJob
    <3> QED
      BY <3>1 DEF JobTells
  <2>3. CASE Decide(w)
    <3>1. /\ jobs[w].pc = "decide"
          /\ AnswersAtOnce(w) \/ PlansWrites(w)
          /\ episodes' = episodes /\ jobs[w].number \in Nat
      BY <1>2, <2>3, DecidedJob DEF stores, Job
    <3>2. CASE AnswersAtOnce(w)
      BY <3>1, <3>2 DEF JobTells, AnswersAtOnce
    <3>3. CASE PlansWrites(w)
      <4>1. /\ jobs'[w].pc = "write" /\ jobs'[w].number >= jobs[w].number
            /\ jobs'[w].number \in Nat
        BY <3>3 DEF PlansWrites
      <4> QED
        BY <1>5, <3>1, <4>1 DEF JobTells
    <3> QED
      BY <3>1, <3>2, <3>3
  <2>4. CASE Write(w)
    <3> DEFINE write == Head(jobs[w].writes)
    <3>1. /\ jobs[w].pc = "write"
          /\ jobs'[w].pc = IF Len(jobs[w].writes) = 1 THEN "respond" ELSE "write"
          /\ jobs'[w].snapshot = jobs[w].snapshot /\ jobs'[w].number = jobs[w].number
          /\ episodes' = Stored(episodes, "episodes", write)
      BY <2>4, WrittenJob
    <3>2. write = jobs[w].writes[1] /\ 1 \in DOMAIN jobs[w].writes
      BY <3>1, NextWrite
    <3>3. write.repository = "episodes" => Len(jobs[w].writes) = 1
      BY <1>2, <3>2 DEF JobRight
    <3> HIDE DEF write
    <3>4. CASE Len(jobs[w].writes) = 1
      <4>0. jobs[w].writes[Len(jobs[w].writes)]
               = Put("episodes", jobs[w].episode, jobs[w].snapshot)
        BY <1>2, <3>1 DEF JobRight
      <4>a. jobs[w].writes[1] = Put("episodes", jobs[w].episode, jobs[w].snapshot)
        BY <3>4, <4>0, Zenon
      <4>1. write = Put("episodes", e, jobs[w].snapshot)
        BY <1>3, <3>2, <4>a
      <4>b. /\ write.repository = "episodes" /\ write.key = e
            /\ write.value = jobs[w].snapshot
        BY <4>1 DEF Put
      <4>2. episodes' = [episodes EXCEPT ![e] = jobs[w].snapshot]
        BY <3>1, <4>b DEF Stored
      <4>3. /\ episodes'[e] = jobs[w].snapshot
            /\ \A d \in Episode : d # e => episodes'[d] = episodes[d]
        BY <4>2 DEF TypeOK
      <4>4. jobs[w].snapshot # None
        BY <3>1, <4>b, NextWrite, WriteParts, NoneIsNoLine DEF StoredEpisode, write
      <4> QED
        BY <3>1, <3>4, <4>3, <4>4 DEF JobTells, Matches
    <3>5. CASE Len(jobs[w].writes) # 1
      <4>1. episodes' = episodes /\ jobs'[w].pc = "write"
        BY <3>1, <3>3, <3>5 DEF Stored
      <4> QED
        BY <3>1, <4>1 DEF JobTells
    <3> QED
      BY <3>4, <3>5
  <2>5. CASE FetchProgram(w)
    <3>1. /\ jobs[w].pc = "fetch" /\ jobs'[w].pc = "decide"
          /\ jobs'[w].number = jobs[w].number /\ jobs'[w].snapshot = jobs[w].snapshot
          /\ episodes' = episodes
      BY <2>5, FetchedJob DEF stores
    <3> QED
      BY <3>1 DEF JobTells
  <2> QED
    BY <1>0, <2>1, <2>2, <2>3, <2>4, <2>5
<1>7. EpisodeTold(e)'
  BY <1>1, <1>4, <1>5, <1>6, HandledTold
<1> QED
  BY <1>1, <1>3, <1>6, <1>7

\* A handler takes a step: one of an inspection changes no episode.
LEMMA HandleTold ==
    ASSUME TypeOK, JobsRight, PageTypeOK, LinesSaved, Told, NEW w \in Worker, Handle(w)
    PROVE  /\ \A e \in Episode : e = jobs[w].episode => EpisodeTold(e)'
           /\ Alone(w) /\ jobs[w].pc # "idle" /\ SameRequest(w)
           /\ \A e \in Episode : e # jobs[w].episode => episodes'[e] = episodes[e]
<1>1. CASE jobs[w].request # "program"
  BY <1>1, EpisodeHandled
<1>2. CASE jobs[w].request = "program"
  <2>1. Alone(w) /\ jobs[w].pc # "idle" /\ SameRequest(w)
    BY ReadJob, InitialisedJob, FetchedJob, DecidedJob, WrittenJob DEF Handle
  <2>2. jobs[w].pc # "write" /\ \A e \in Episode : e # jobs[w].episode
    BY <1>2, <2>1, ProgramIsNoPage
  <2>3. episodes' = episodes
    BY <2>2, ReadJob, InitialisedJob, FetchedJob, DecidedJob, WrittenJob DEF Handle, stores
  <2> QED
    BY <2>1, <2>2, <2>3
<1> QED
  BY <1>1, <1>2

\* The page is opened.
LEMMA OpenTold ==
    ASSUME TypeOK, Told, NEW w \in Worker, NEW e \in Episode, Open(w, e)
    PROVE  EpisodeTold(e)'
<1>1. /\ shown[e] = None /\ answers[e] = << >> /\ ~Busy(e)
      /\ shown' = shown /\ answers' = answers /\ pace' = pace
  BY DEF Open, ReceiveEpisode, page
<1>2. /\ Alone(w) /\ jobs'[w].pc = "read" /\ jobs'[w].episode = e
      /\ jobs'[w].request = "create_episode"
  BY ReceivedJob DEF Open, ReceiveEpisode
<1>3. \A v \in Worker : On(v, e)' <=> v = w
  BY <1>1, <1>2 DEF On, Busy, Alone
<1>4. Busy(e)' /\ Outstanding(e)'
  BY <1>2 DEF Busy, Outstanding
<1>5. Waits(e)'
  BY <1>1, <1>3 DEF Waits
<1>6. JobTells(jobs'[w], shown'[e], episodes'[e], pace'[e])
  BY <1>1, <1>2 DEF JobTells, Trusted
<1>7. pace[e] = "calm"
  BY <1>1 DEF Told, EpisodeTold
<1> QED
  BY <1>1, <1>3, <1>4, <1>5, <1>6, <1>7 DEF EpisodeTold

\* The user sends a message.
LEMMA SubmitTold ==
    ASSUME TypeOK, PageTypeOK, Told, NEW w \in Worker, NEW e \in Episode,
           NEW command \in Command, SubmitTurn(w, e, command)
    PROVE  EpisodeTold(e)'
<1>1. /\ shown[e] # None /\ shown' = shown /\ answers' = answers
      /\ pace'[e] = IF Outstanding(e) THEN "hurried"
                    ELSE IF pace[e] = "hurried" THEN "repairing" ELSE pace[e]
  BY DEF SubmitTurn, PageTypeOK
<1>2. /\ Alone(w) /\ jobs[w].pc = "idle" /\ jobs'[w].pc = "read"
      /\ jobs'[w].episode = e /\ jobs'[w].request = "turn" /\ episodes' = episodes
  BY ReceivedJob DEF SubmitTurn, ReceiveTurn, stores
<1>3. \A v \in Worker : v # w => /\ On(v, e)' <=> On(v, e)
                                 /\ jobs'[v] = jobs[v]
  BY <1>2 DEF On, Alone
<1>4. Busy(e)' /\ Outstanding(e)'
  BY <1>2 DEF Busy, Outstanding
<1>5. \A v \in Worker : ~(On(v, e)' /\ jobs'[v].request = "create_episode")
  <2>1. \A v \in Worker : ~(On(v, e) /\ jobs[v].request = "create_episode")
    BY <1>1 DEF Told, EpisodeTold
  <2> QED
    BY <1>2, <1>3, <2>1
<1>6. CASE Outstanding(e)
  BY <1>1, <1>5, <1>6 DEF EpisodeTold
<1>7. CASE ~Outstanding(e)
  <2>1. ~Busy(e) /\ answers[e] = << >>
    BY <1>7 DEF Outstanding
  <2>2. \A v \in Worker : On(v, e)' <=> v = w
    BY <1>2, <1>3, <2>1 DEF Busy, On
  <2>3. Waits(e)'
    BY <1>1, <2>1, <2>2 DEF Waits
  <2>4. pace'[e] \in {"calm", "repaired"} =>
            Matches(shown[e], episodes[e])
    BY <1>1, <1>7 DEF Told, EpisodeTold, Trusted
  <2>5. JobTells(jobs'[w], shown'[e], episodes'[e], pace'[e])
    BY <1>1, <1>2, <2>4 DEF JobTells, Trusted
  <2> QED
    BY <1>1, <1>4, <1>5, <2>1, <2>2, <2>3, <2>5 DEF EpisodeTold
<1> QED
  BY <1>6, <1>7

\* A request is answered.
LEMMA SendTold ==
    ASSUME TypeOK, JobsRight, PageTypeOK, Told, NEW w \in Worker, NEW e \in Episode,
           Send(w), e = jobs[w].episode
    PROVE  EpisodeTold(e)'
<1> DEFINE line == StatusLine(jobs[w])
<1>1. /\ Alone(w) /\ jobs[w].pc = "respond" /\ jobs'[w].pc = "idle"
      /\ jobs[w] \in Job /\ episodes' = episodes /\ On(w, e)
  BY AnsweredJob, RequestEpisode DEF Send, stores
<1>2. /\ shown' = shown /\ pace' = pace /\ answers'[e] = Append(answers[e], line)
  BY DEF Send, PageTypeOK
<1>3. \A v \in Worker : /\ On(v, e)' => v # w /\ On(v, e)
                        /\ v # w => jobs'[v] = jobs[v]
  BY <1>1 DEF On, Alone
<1>4. (shown[e] = None => pace[e] = "calm")'
  BY <1>2 DEF Told, EpisodeTold
<1>5. \A v \in Worker :
          On(v, e)' /\ jobs'[v].request = "create_episode" => shown'[e] = None
  BY <1>2, <1>3 DEF Told, EpisodeTold
<1>6. ASSUME pace'[e] # "hurried"
      PROVE  /\ Waits(e)' /\ Outstanding(e)'
             /\ \A v \in Worker : ~On(v, e)'
             /\ \A i \in DOMAIN answers'[e] :
                   AnswerTells(answers'[e][i], shown'[e], episodes'[e], pace'[e])
  <2>1. Waits(e) /\ JobTells(jobs[w], shown[e], episodes[e], pace[e])
    BY <1>1, <1>2, <1>6 DEF Told, EpisodeTold
  <2>2. Busy(e)
    BY <1>1 DEF Busy, On
  <2>3. \A v \in Worker : ~On(v, e)'
    BY <1>1, <1>3, <2>1 DEF Waits
  <2>a. answers[e] = << >>
    BY <2>1, <2>2 DEF Waits
  <2>b. \A x : Append(<< >>, x) = <<x>>
    OBVIOUS
  <2>4. answers'[e] = <<line>>
    BY <1>2, <2>a, <2>b, Zenon
  <2>5. Waits(e)' /\ Outstanding(e)'
    BY <2>3, <2>4 DEF Waits, Busy, On, Outstanding
  <2>6. AnswerTells(line, shown[e], episodes[e], pace[e])
    <3>1. CASE jobs[w].snapshot = None
      BY <1>1, <2>1, <3>1, LineType DEF JobTells, AnswerTells
    <3>2. CASE jobs[w].snapshot # None
      BY <1>1, <2>1, <3>2, LineType DEF JobTells, AnswerTells, Matches
    <3> QED
      BY <3>1, <3>2
  <2> QED
    BY <1>1, <1>2, <2>3, <2>4, <2>5, <2>6
<1> QED
  BY <1>4, <1>5, <1>6 DEF EpisodeTold

\* An answer is shown.
LEMMA ShowTold ==
    ASSUME TypeOK, PageTypeOK, Told, NEW e \in Episode, NEW i \in DOMAIN answers[e],
           Show(e, i)
    PROVE  EpisodeTold(e)'
<1> DEFINE answer == answers[e][i]
<1>1. /\ jobs' = jobs /\ episodes' = episodes
      /\ answers'[e] = RemoveAt(answers[e], i)
      /\ shown'[e] = IF answer = None THEN shown[e] ELSE answer
      /\ pace'[e] = IF pace[e] # "repairing" THEN pace[e]
                    ELSE IF answer = None THEN "hurried" ELSE "repaired"
  BY DEF Show, Shows, PageTypeOK, vars, stores
<1>2. \A w \in Worker : On(w, e)' <=> On(w, e)
  BY <1>1 DEF On
<1>3. answers[e] \in Seq(Line \cup {None}) /\ answers[e] # << >> /\ Len(answers[e]) \in Nat
  BY DEF PageTypeOK
<1>4. (shown[e] = None => pace[e] = "calm")'
  BY <1>1 DEF Told, EpisodeTold
<1>5. pace[e] # "hurried" =>
          /\ Len(answers[e]) = 1 /\ i = 1 /\ ~Busy(e)
          /\ AnswerTells(answer, shown[e], episodes[e], pace[e])
  <2> SUFFICES ASSUME pace[e] # "hurried"
               PROVE  /\ Len(answers[e]) = 1 /\ i = 1 /\ ~Busy(e)
                      /\ AnswerTells(answer, shown[e], episodes[e], pace[e])
    OBVIOUS
  <2>1. Waits(e) /\ AnswerTells(answer, shown[e], episodes[e], pace[e])
    BY DEF Told, EpisodeTold
  <2>2. Len(answers[e]) # 0 /\ DOMAIN answers[e] = 1..Len(answers[e])
    BY <1>3
  <2>3. ~Busy(e)
    BY <1>3, <2>1 DEF Waits
  <2>4. Len(answers[e]) <= 1
    BY <2>1 DEF Waits
  <2>5. \A n \in Nat : n # 0 /\ n <= 1 => n = 1
    OBVIOUS
  <2>6. Len(answers[e]) = 1
    BY <1>3, <2>2, <2>4, <2>5, Zenon
  <2>7. i \in 1..1
    BY <2>2, <2>6, Zenon
  <2> QED
    BY <2>1, <2>3, <2>6, <2>7
<1>6. \A w \in Worker :
          On(w, e)' /\ jobs'[w].request = "create_episode" => shown'[e] = None
  <2>1. ASSUME NEW w \in Worker, On(w, e), jobs[w].request = "create_episode"
        PROVE  FALSE
    <3>1. pace[e] = "calm"
      BY <2>1 DEF Told, EpisodeTold
    <3>2. Busy(e)
      BY <2>1 DEF Busy, On
    <3> QED
      BY <1>5, <3>1, <3>2
  <2> QED
    BY <1>1, <1>2, <2>1
<1>7. ASSUME pace'[e] # "hurried"
      PROVE  /\ Waits(e)' /\ answers'[e] = << >>
             /\ \A w \in Worker : ~On(w, e)'
             /\ Trusted(shown'[e], episodes'[e], pace'[e])
  <2>1. /\ Len(answers[e]) = 1 /\ ~Busy(e)
        /\ AnswerTells(answer, shown[e], episodes[e], pace[e])
    BY <1>1, <1>5, <1>7
  <2>2. answers'[e] = << >>
    <3>1. /\ RemoveAt(answers[e], i) \in Seq(Line \cup {None})
          /\ Len(RemoveAt(answers[e], i)) = 0
      BY <1>3, <2>1, RemovedParts
    <3> QED
      BY <1>1, <3>1
  <2>3. \A w \in Worker : ~On(w, e)'
    BY <1>2, <2>1 DEF Busy, On
  <2>4. Waits(e)'
    BY <2>2, <2>3 DEF Waits
  <2>5. Trusted(shown'[e], episodes'[e], pace'[e])
    BY <1>1, <2>1 DEF AnswerTells, Trusted
  <2> QED
    BY <2>2, <2>3, <2>4, <2>5
<1> QED
  BY <1>4, <1>6, <1>7 DEF EpisodeTold

\* An action of a worker reaches only the episode it is on.
LEMMA OthersTold ==
    ASSUME Told, NEW w \in Worker, NEW e \in Episode, Alone(w),
           ~On(w, e), ~On(w, e)',
           shown'[e] = shown[e], answers'[e] = answers[e], pace'[e] = pace[e],
           episodes'[e] = episodes[e]
    PROVE  EpisodeTold(e)'
<1>1. \A v \in Worker : On(v, e) \/ On(v, e)' => jobs'[v] = jobs[v]
  BY DEF On, Alone
<1> QED
  BY <1>1, QuietTold DEF Told

\* Every step keeps every page told.
LEMMA ToldStep ==
    ASSUME TypeOK, CountingServer, JobsRight, PageTypeOK, LinesSaved, Told,
           [PageNext]_pageVars
    PROVE  Told'
<1>1. ASSUME UNCHANGED pageVars PROVE Told'
  BY <1>1, QuietTold DEF pageVars, page, vars, stores, Told
<1>2. ASSUME NEW w \in Worker, NEW e \in Episode, Open(w, e) PROVE Told'
  <2>1. /\ Alone(w) /\ jobs[w].pc = "idle" /\ jobs'[w].episode = e
        /\ episodes' = episodes /\ shown' = shown /\ answers' = answers /\ pace' = pace
    BY <1>2, ReceivedJob DEF Open, ReceiveEpisode, stores, page
  <2>2. \A d \in Episode : d # e => EpisodeTold(d)'
    BY <2>1, OthersTold DEF On
  <2> QED
    BY <1>2, <2>2, OpenTold DEF Told
<1>3. ASSUME NEW w \in Worker, NEW e \in Episode, NEW command \in Command,
             SubmitTurn(w, e, command)
      PROVE  Told'
  <2>1. /\ Alone(w) /\ jobs[w].pc = "idle" /\ jobs'[w].episode = e
        /\ episodes' = episodes /\ shown' = shown /\ answers' = answers
        /\ \A d \in Episode : d # e => pace'[d] = pace[d]
    BY <1>3, ReceivedJob DEF SubmitTurn, ReceiveTurn, stores, PageTypeOK
  <2>2. \A d \in Episode : d # e => EpisodeTold(d)'
    BY <2>1, OthersTold DEF On
  <2> QED
    BY <1>3, <2>2, SubmitTold DEF Told
<1>4. ASSUME NEW w \in Worker, Handle(w) PROVE Told'
  <2>1. /\ \A e \in Episode : e = jobs[w].episode => EpisodeTold(e)'
        /\ Alone(w) /\ SameRequest(w)
        /\ \A e \in Episode : e # jobs[w].episode => episodes'[e] = episodes[e]
    BY <1>4, HandleTold
  <2>2. shown' = shown /\ answers' = answers /\ pace' = pace
    BY <1>4 DEF Handle, page
  <2>3. \A d \in Episode : d # jobs[w].episode => EpisodeTold(d)'
    BY <2>1, <2>2, OthersTold DEF On, SameRequest
  <2> QED
    BY <2>1, <2>3 DEF Told
<1>5. ASSUME NEW w \in Worker, Send(w) PROVE Told'
  <2>1. /\ Alone(w) /\ jobs[w].pc = "respond" /\ jobs'[w].pc = "idle"
        /\ episodes' = episodes /\ shown' = shown /\ pace' = pace
        /\ \A d \in Episode : d # jobs[w].episode => answers'[d] = answers[d]
    BY <1>5, AnsweredJob DEF Send, stores, PageTypeOK
  <2>2. \A d \in Episode : d # jobs[w].episode => EpisodeTold(d)'
    BY <2>1, OthersTold DEF On
  <2>3. \A d \in Episode : d = jobs[w].episode => EpisodeTold(d)'
    BY <1>5, SendTold
  <2> QED
    BY <2>2, <2>3 DEF Told
<1>6. ASSUME NEW e \in Episode, NEW i \in DOMAIN answers[e], Show(e, i) PROVE Told'
  <2>1. /\ jobs' = jobs /\ episodes' = episodes
        /\ \A d \in Episode : d # e => /\ shown'[d] = shown[d] /\ pace'[d] = pace[d]
                                       /\ answers'[d] = answers[d]
    BY <1>6 DEF Show, Shows, vars, stores, PageTypeOK
  <2>2. \A d \in Episode : d # e => EpisodeTold(d)'
    BY <2>1, QuietTold DEF Told
  <2> QED
    BY <1>6, <2>2, ShowTold DEF Told
<1>7. ASSUME NEW w \in Worker, InspectProgram(w) \/ SendProgram(w) PROVE Told'
  <2>1. /\ Alone(w) /\ episodes' = episodes
        /\ shown' = shown /\ answers' = answers /\ pace' = pace
        /\ \A d \in Episode : ~On(w, d) /\ ~On(w, d)'
    <3>1. CASE InspectProgram(w)
      BY <3>1, ReceivedJob, NoneAssumption
         DEF InspectProgram, ReceiveProgramQuery, stores, page, On
    <3>2. CASE SendProgram(w)
      BY <3>2, AnsweredJob, ProgramIsNoPage DEF SendProgram, stores, page, On
    <3> QED
      BY <1>7, <3>1, <3>2
  <2> QED
    BY <2>1, OthersTold DEF Told
<1> QED
  BY <1>1, <1>2, <1>3, <1>4, <1>5, <1>6, <1>7 DEF PageNext

(***************************************************************************)
(* The theorems.                                                           *)
(***************************************************************************)

\* Before anything is sent all of it holds.
LEMMA ToldInit == PageInit => JobsRight /\ LinesSaved /\ Told
<1> SUFFICES ASSUME PageInit PROVE JobsRight /\ LinesSaved /\ Told
  OBVIOUS
<1>1. /\ \A w \in Worker : jobs[w] = Idle
      /\ \A e \in Episode : shown[e] = None /\ answers[e] = << >> /\ pace[e] = "calm"
  BY DEF PageInit, Init
<1>2. Idle.pc = "idle" /\ Idle.writes = << >>
  BY DEF Idle
<1>3. JobsRight
  BY <1>1, <1>2 DEF JobsRight, JobRight
<1>4. LinesSaved
  BY <1>1 DEF LinesSaved, LineSaved
<1>5. \A e \in Episode : EpisodeTold(e)
  <2> SUFFICES ASSUME NEW e \in Episode PROVE EpisodeTold(e)
    OBVIOUS
  <2>1. \A w \in Worker : ~On(w, e)
    BY <1>1, <1>2 DEF On
  <2>2. ~Busy(e) /\ Waits(e)
    BY <1>1, <1>2, <2>1 DEF Busy, Waits
  <2> QED
    BY <1>1, <2>1, <2>2 DEF EpisodeTold, Trusted
<1> QED
  BY <1>3, <1>4, <1>5 DEF Told

\* The strengthening, for every page.
LEMMA PageInvariant ==
    PageSpec => []/\ TypeOK /\ CountingServer /\ PageTypeOK
                  /\ JobsRight /\ LinesSaved /\ Told
<1>1. /\ TypeOK /\ CountingServer /\ PageTypeOK /\ JobsRight /\ LinesSaved /\ Told
      /\ [PageNext]_pageVars
      => (JobsRight /\ LinesSaved /\ Told)'
  BY JobsRightStep, LinesSavedStep, ToldStep
<1> QED
  BY <1>1, ToldInit, ServerUnderPage, PageTypeInvariant, PTL DEF PageSpec

\* Whatever answers a page shows in whatever order, and whatever other pages do: a
\* page whose user waits, or has waited once since, shows what is saved.
THEOREM CalmPagesTellTruth == PageSpec => []CalmPageTellsTruth
<1>1. Told => CalmPageTellsTruth
  <2> SUFFICES ASSUME Told, NEW e \in Episode, shown[e] # None, ~Outstanding(e),
                      pace[e] \in {"calm", "repaired"}
               PROVE  Matches(shown[e], episodes[e])
    BY DEF CalmPageTellsTruth, Matches
  <2> QED
    BY DEF Told, EpisodeTold, Trusted
<1> QED
  BY <1>1, PageInvariant, PTL

\* The version a waiting user is shown never goes back, whoever else confirms rules.
THEOREM CalmVersionsGrow == PageSpec => CalmVersionGrows
<1>1. ASSUME PageTypeOK, Told, [PageNext]_pageVars
      PROVE  [\A e \in Episode :
                 shown[e] # None /\ {pace[e], pace'[e]} = {"calm"} =>
                     shown'[e].version >= shown[e].version]_pageVars
  <2> SUFFICES ASSUME NEW e \in Episode, shown[e] # None, pace[e] = "calm"
               PROVE  shown'[e].version >= shown[e].version
    OBVIOUS
  <2>1. shown[e].version \in Nat
    BY <1>1 DEF PageTypeOK, Line
  <2>2. CASE shown'[e] = shown[e]
    BY <2>1, <2>2
  <2>3. ASSUME NEW d \in Episode, NEW i \in DOMAIN answers[d], Show(d, i),
               shown'[e] # shown[e]
        PROVE  shown'[e].version >= shown[e].version
    <3>1. d = e /\ answers[e][i] # None /\ shown'[e] = answers[e][i]
      BY <1>1, <2>3 DEF Show, Shows, PageTypeOK
    <3>2. AnswerTells(answers[e][i], shown[e], episodes[e], pace[e])
      BY <1>1, <2>3, <3>1 DEF Told, EpisodeTold
    <3>3. answers[e][i].version \in Nat
      BY <1>1, <2>3, <3>1 DEF PageTypeOK, Line
    <3> QED
      BY <2>1, <3>1, <3>2, <3>3 DEF AnswerTells
  <2> QED
    BY <1>1, <2>2, <2>3
    DEF PageNext, Open, SubmitTurn, InspectProgram, Handle, SendProgram, Send, page, pageVars
<1>2. PageTypeOK /\ Told /\ [PageNext]_pageVars =>
          [\A e \in Episode :
              shown[e] # None /\ {pace[e], pace'[e]} = {"calm"} =>
                  shown'[e].version >= shown[e].version]_pageVars
  BY <1>1
<1> QED
  BY <1>2, PageInvariant, PTL DEF PageSpec, CalmVersionGrows

=============================================================================
