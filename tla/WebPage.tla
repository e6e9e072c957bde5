------------------------------ MODULE WebPage -------------------------------
(***************************************************************************)
(* The inline page of api.py (ROOT_HTML) before the handlers of            *)
(* TurnServer.  Each time it is opened the page creates an episode, then   *)
(* posts a turn per message.  It never waits for an answer before it sends *)
(* the next message, and shows answers as they arrive, in any order.       *)
(* Beside the pages the current program may be inspected.                  *)
(***************************************************************************)
EXTENDS TurnServer, SequencesExt

CONSTANT MaxAnswers   \* bound: the answers of one page under way

ASSUME MaxAnswersAssumption == MaxAnswers \in Nat
ASSUME NoneIsNoLine ==
    None \notin [state : EpisodeState, fallback_count : Nat]
               \cup [state : EpisodeState, fallback_count : Nat, version : Nat]

VARIABLES
    shown,     \* by episode: the status line of its page, once it has its id
    answers,   \* by episode: the responses on their way to its page
    pace       \* history: did the user wait for the answers shown

page == <<shown, answers, pace>>
pageVars == <<vars, page>>

PageInit ==
    /\ Init
    /\ shown = [e \in Episode |-> None]
    /\ answers = [e \in Episode |-> << >>]
    /\ pace = [e \in Episode |-> "calm"]

Outstanding(e) == Busy(e) \/ answers[e] # << >>

-----------------------------------------------------------------------------

Open(w, e) ==
    /\ shown[e] = None /\ answers[e] = << >>
    /\ ReceiveEpisode(w, e)
    /\ UNCHANGED page

\* The form submits nothing before the page has an id; a message counts from its
\* arrival.  One that arrives alone may repair what hurried ones have left.
SubmitTurn(w, e, command) ==
    /\ shown[e] # None
    /\ Len(answers[e]) < MaxAnswers
    /\ ReceiveTurn(w, e, command)
    /\ pace' = [pace EXCEPT ![e] = IF Outstanding(e) THEN "hurried"
                                   ELSE IF @ = "hurried" THEN "repairing" ELSE @]
    /\ UNCHANGED <<shown, answers>>

Handle(w) ==
    /\ ReadVersions(w) \/ Initialise(w) \/ FetchProgram(w) \/ Decide(w) \/ Write(w)
    /\ UNCHANGED page

\* The program is inspected by hand beside the pages, whenever somebody likes.
InspectProgram(w) == ReceiveProgramQuery(w) /\ UNCHANGED page

SendProgram(w) ==
    /\ jobs[w].request = "program"
    /\ Respond(w)
    /\ UNCHANGED page

\* What updateMeta reads of a response; of an error there is nothing to read.
StatusLine(job) ==
    IF job.snapshot = None THEN None
    ELSE [state |-> job.snapshot.state, fallback_count |-> job.snapshot.fallback_count,
          version |-> job.number]

Send(w) ==
    /\ jobs[w].request # "program"
    /\ Respond(w)
    /\ answers' = [answers EXCEPT ![jobs[w].episode] = Append(@, StatusLine(jobs[w]))]
    /\ UNCHANGED <<shown, pace>>

Shows(e, i, line) ==
    /\ i \in DOMAIN answers[e]
    /\ answers' = [answers EXCEPT ![e] = RemoveAt(@, i)]
    /\ shown' = [shown EXCEPT ![e] = line]
    /\ pace' = [pace EXCEPT ![e] =
                   IF @ # "repairing" THEN @
                   ELSE IF answers[e][i] = None THEN "hurried" ELSE "repaired"]
    /\ UNCHANGED vars

\* Mutant: zero counts as missing.
ShowWithoutZero(e, i) ==
    LET line == answers[e][i] IN
    Shows(e, i, IF line = None THEN shown[e]
                ELSE IF shown[e] # None /\ line.fallback_count = 0
                THEN [line EXCEPT !.fallback_count = shown[e].fallback_count]
                ELSE line)

\* An error has no fields, and reading it as JSON fails before anything is shown.
Show(e, i) ==
    LET line == answers[e][i] IN
    Shows(e, i, IF line = None THEN shown[e] ELSE line)

PageNext ==
    \/ \E w \in Worker, e \in Episode :
          Open(w, e) \/ \E command \in Command : SubmitTurn(w, e, command)
    \/ \E w \in Worker : InspectProgram(w) \/ Handle(w) \/ SendProgram(w) \/ Send(w)
    \/ \E e \in Episode : \E i \in DOMAIN answers[e] : Show(e, i)

PageSpec == PageInit /\ [][PageNext]_pageVars

-----------------------------------------------------------------------------
(* Properties. *)

\* The status line of a user who waits is the stored episode; and one message
\* sent with nothing under way brings back the truth, whatever order the answers
\* of hurried messages were saved and shown in.
CalmPageTellsTruth ==
    \A e \in Episode :
        shown[e] # None /\ ~Outstanding(e) /\ pace[e] \in {"calm", "repaired"} =>
            /\ shown[e].state = episodes[e].state
            /\ shown[e].fallback_count = episodes[e].fallback_count

\* The object a review state is about.
Backed(e, reviewState) ==
    /\ reviewState = "pending_rule_review" => rule_candidates[e] # None
    /\ reviewState = "pending_understanding_review" => understandings[e] # None

\* Stored state and pending repositories of an episode tell one story.
Whole(e) ==
    /\ Backed(e, episodes[e].state)
    /\ episodes[e].state = "pending_switch_confirmation" =>
           deferred[e] # None /\ Backed(e, deferred[e])
    /\ episodes[e].state = "cancelled" =>
           rule_candidates[e] = None /\ understandings[e] = None /\ deferred[e] = None

\* As long as its user never hurried, an episode between two of its turns has what
\* its state is about, and nothing pending once cancelled, whatever a turn wrote
\* in however many steps.
CalmConversationsStayWhole ==
    \A e \in Episode :
        episodes[e] # None /\ ~Busy(e) /\ pace[e] = "calm" => Whole(e)

\* For a user who waits, the program version in the status line never goes back,
\* whoever else confirms rules.
CalmVersionGrows ==
    [][\A e \in Episode :
          shown[e] # None /\ {pace[e], pace'[e]} = {"calm"} =>
              shown'[e].version >= shown[e].version]_pageVars

=============================================================================
