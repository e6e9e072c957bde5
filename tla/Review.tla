------------------------------- MODULE Review -------------------------------
(***************************************************************************)
(* What the dialogue promises its user, without its repositories: a rule   *)
(* enters the program, and a task runs under a program that asks for       *)
(* review, only when the user accepts the very object last presented in    *)
(* the conversation.  An interruption pauses that review; declining the    *)
(* interruption brings back the same object.                               *)
(***************************************************************************)
EXTENDS Naturals, Sequences

CONSTANTS Episode,
          Rule,           \* the rules that may be presented
          Goal,           \* the goals that may be run
          ReviewRule,     \* those that make every later task wait for review
          NoObject        \* nothing under review, nothing run

VARIABLES review,    \* what each conversation has under review
          adopted,   \* the rules of the current program, in order
          answer,    \* the answer of the user the last request acted on
          ran        \* the goal the last request ran, if any

vars == <<review, adopted, answer, ran>>

Object == [kind : {"rule"}, content : Rule] \cup [kind : {"goal"}, content : Goal]

RuleObject(rule) == [kind |-> "rule", content |-> rule]
GoalObject(goal) == [kind |-> "goal", content |-> goal]

UnderReview(object) == [object |-> object, paused |-> FALSE]
Paused(object) == [object |-> object, paused |-> TRUE]

Put(e, entry) == review' = [review EXCEPT ![e] = entry]

\* What a request acted on and what it ran.
Acts(said, goal) == answer' = said /\ ran' = goal

Init == /\ review = [e \in Episode |-> NoObject]
        /\ adopted = << >>
        /\ answer = "nothing"
        /\ ran = NoObject

\* A new object may take the place of another one, also of a paused one.
Present(e) ==
    /\ \E object \in Object : Put(e, UnderReview(object))
    /\ Acts("nothing", NoObject)
    /\ UNCHANGED adopted

Pause(e) ==
    /\ \E object \in Object :
           review[e] = UnderReview(object) /\ Put(e, Paused(object))
    /\ Acts("nothing", NoObject)
    /\ UNCHANGED adopted

\* Declining the interruption.
Resume(e) ==
    /\ \E object \in Object :
           review[e] = Paused(object) /\ Put(e, UnderReview(object))
    /\ Acts("no", NoObject)
    /\ UNCHANGED adopted

\* Accepting the interruption gives the paused object up.
Abandon(e) ==
    /\ \E object \in Object : review[e] = Paused(object)
    /\ Put(e, NoObject)
    /\ Acts("yes", NoObject)
    /\ UNCHANGED adopted

AcceptRule(e) ==
    /\ \E rule \in Rule : /\ review[e] = UnderReview(RuleObject(rule))
                          /\ adopted' = Append(adopted, rule)
    /\ Put(e, NoObject)
    /\ Acts("yes", NoObject)

AcceptGoal(e) ==
    /\ \E goal \in Goal : /\ review[e] = UnderReview(GoalObject(goal))
                          /\ Acts("yes", goal)
    /\ Put(e, NoObject)
    /\ UNCHANGED adopted

Reject(e) ==
    /\ \E object \in Object : review[e] = UnderReview(object)
    /\ Put(e, NoObject)
    /\ Acts("no", NoObject)
    /\ UNCHANGED adopted

\* Stopping is possible at any time.
Stop(e) ==
    /\ Put(e, NoObject)
    /\ Acts("stop", NoObject)
    /\ UNCHANGED adopted

DemandsReview == \E i \in DOMAIN adopted : adopted[i] \in ReviewRule

RunUnreviewed ==
    /\ ~DemandsReview
    /\ \E goal \in Goal : Acts("nothing", goal)
    /\ UNCHANGED <<review, adopted>>

\* Every other request, those that fail included.
Converse ==
    /\ Acts("nothing", NoObject)
    /\ UNCHANGED <<review, adopted>>

Next ==
    \/ RunUnreviewed
    \/ Converse
    \/ \E e \in Episode :
          \/ Present(e)
          \/ Pause(e)
          \/ Resume(e)
          \/ Abandon(e)
          \/ AcceptRule(e)
          \/ AcceptGoal(e)
          \/ Reject(e)
          \/ Stop(e)

Spec == Init /\ [][Next]_vars

=============================================================================
