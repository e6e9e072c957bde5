----------------------------- MODULE LLMIntake ------------------------------
(***************************************************************************)
(* What a language model returns, and what the classifier makes of it:     *)
(* LLMIntakeClassifier of services/classification.py; and where validation *)
(* and dispatch fail on what it let through.                               *)
(*                                                                         *)
(* A payload is any JSON value, or an IntakeResult object.  Of a field the *)
(* model keeps what the code can tell apart: missing, of the kind the code *)
(* expects, or of another kind.  Only parsing is guarded by a try.         *)
(***************************************************************************)
EXTENDS Routing

CONSTANTS UserText,   \* the user's own message
          Absent,     \* the field is missing
          NonText     \* null, a number, a list: a text without strip()

ASSUME TextKindsAssumption ==
    /\ UserText \in Text
    /\ Absent \notin Text /\ NonText \notin Text /\ Absent # NonText

\* "absent" of a type: the item has none, or is no record at all.
RawItem ==
    [type : MessageItemType \cup {"unsupported", "absent"},
     text : Text \cup {Absent, NonText}, scope : BOOLEAN,
     key : RuleKey \cup {"unhashable"}]

\* "raised" is no payload: the router or the client raised.
Payload ==
    [shape : {"dict", "intake_result", "other", "raised"},
     primary_intent : PrimaryIntent \cup {"mixed", "unsupported", "absent"},
     is_list : BOOLEAN, items : Seq(RawItem)]

\* No attribute of an object is missing.
IsPayload(payload) ==
    /\ payload \in Payload
    /\ payload.shape = "intake_result" =>
           \A i \in DOMAIN payload.items : payload.items[i].text # Absent

-----------------------------------------------------------------------------
(* Parsing, inside the try. *)

SupportedIntent(intent) == intent # "mixed" /\ intent \in PrimaryIntent

ParsesItem(shape, item) ==
    item.type \in MessageItemType /\ (shape = "dict" => item.text # Absent)

Parses(payload) ==
    /\ payload.shape \in {"dict", "intake_result"}
    /\ SupportedIntent(payload.primary_intent)
    /\ payload.is_list
    /\ \A i \in DOMAIN payload.items : ParsesItem(payload.shape, payload.items[i])

AmbiguousRequest ==
    Intake("chat", <<Item("ambiguous_request", UserText, FALSE, "none")>>)

\* Mutants: items that do not parse are left out; the items of an object are
\* taken on trust.
ClassifySkipsBadItems(payload) ==
    LET Good(item) == ParsesItem(payload.shape, item) IN
    IF Parses([payload EXCEPT !.items = SelectSeq(@, Good)])
    THEN Intake(payload.primary_intent, SelectSeq(payload.items, Good))
    ELSE AmbiguousRequest

ClassifyTrustsObjects(payload) ==
    IF Parses(payload) \/ (/\ payload.shape = "intake_result"
                           /\ SupportedIntent(payload.primary_intent))
    THEN Intake(payload.primary_intent, payload.items) ELSE AmbiguousRequest

Classify(payload) ==
    IF Parses(payload) THEN Intake(payload.primary_intent, payload.items)
    ELSE AmbiguousRequest

-----------------------------------------------------------------------------
(* Validation and dispatch, outside of it. *)

\* Mutant: only tasks are checked for a text.
ItemRaisesForTasks(item) == item.type = "task" /\ item.text \notin Text

\* text.strip() of no text; a key that cannot be looked up in a set.
ItemRaises(item) ==
    \/ item.type \in RequiresText /\ item.text \notin Text
    \/ /\ item.type = "rule_candidate"
       /\ item.text \notin Blank
       /\ item.scope
       /\ item.key = "unhashable"

ValidationRaises(intake) ==
    \E i \in DOMAIN intake.items : ItemRaises(intake.items[i])

\* A rule without a scope reaches its key only when it is proposed.
ProposalRaises(intake) ==
    \E i \in FirstOfType(intake.items, "rule_candidate") :
        intake.items[i].key = "unhashable"

=============================================================================
