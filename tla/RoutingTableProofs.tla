------------------------ MODULE RoutingTableProofs --------------------------
(***************************************************************************)
(* Theorems about RoutingTable: for texts and payloads of any length.  The *)
(* lemmas about texts are in CommandTextProofs.                            *)
(***************************************************************************)
EXTENDS RoutingTable, CommandTextProofs

(***************************************************************************)
(* Parsing.                                                                *)
(***************************************************************************)

\* What the classifier may return: a text may be of the wrong kind, a key too.
ParsedItem ==
    [type : MessageItemType, text : Text \cup {NonText}, scope : BOOLEAN,
     key : RuleKey \cup {"unhashable"}]

ParsedIntake == [primary_intent : PrimaryIntent, items : Seq(ParsedItem)]

\* The question asked back is an intake.
LEMMA AmbiguousParsed ==
    /\ AmbiguousRequest \in ParsedIntake
    /\ AmbiguousRequest.items[1].type = "ambiguous_request"
    /\ DOMAIN AmbiguousRequest.items = {1}
<1>1. Item("ambiguous_request", UserText, FALSE, "none") \in ParsedItem
  BY TextKindsAssumption DEF Item, ParsedItem, MessageItemType, RuleKey
<1> QED
  BY <1>1 DEF AmbiguousRequest, Intake, ParsedIntake, PrimaryIntent, Item

\* Whatever the client returned, the classifier returns an intake of known
\* vocabulary.
LEMMA ClassifiedParsed ==
    ASSUME NEW payload, IsPayload(payload)
    PROVE  Classify(payload) \in ParsedIntake
<1>1. CASE ~Parses(payload)
  BY <1>1, AmbiguousParsed DEF Classify
<1>2. CASE Parses(payload)
  <2>1. /\ Classify(payload).items = payload.items
        /\ Classify(payload) = Intake(payload.primary_intent, payload.items)
    BY <1>2 DEF Classify, Intake
  <2>2. payload.primary_intent \in PrimaryIntent
    BY <1>2 DEF Parses, SupportedIntent
  <2>3. payload.items \in Seq(RawItem)
    BY DEF IsPayload, Payload
  <2>4. ASSUME NEW i \in DOMAIN payload.items PROVE payload.items[i] \in ParsedItem
    <3>1. payload.items[i] \in RawItem
      BY <2>3
    <3>2. payload.items[i].type \in MessageItemType /\ payload.items[i].text # Absent
      BY <1>2 DEF Parses, ParsesItem, IsPayload
    <3> QED
      BY <3>1, <3>2 DEF RawItem, ParsedItem
  <2>5. payload.items \in Seq(ParsedItem)
    BY <2>3, <2>4
  <2> QED
    BY <2>1, <2>2, <2>5 DEF ParsedIntake, Intake
<1> QED
  BY <1>1, <1>2

\* Only a payload that follows the schema is parsed.
LEMMA ParsedInShape ==
    ASSUME NEW payload, IsPayload(payload), Parses(payload)
    PROVE  InShape(payload)
<1>1. /\ payload.shape \in {"dict", "intake_result"}
      /\ payload.primary_intent # "mixed" /\ payload.primary_intent \in PrimaryIntent
      /\ payload.is_list
      /\ \A i \in DOMAIN payload.items :
            /\ payload.items[i].type \in MessageItemType
            /\ payload.items[i].text # Absent
  BY DEF Parses, SupportedIntent, ParsesItem, IsPayload
<1>2. {payload.items[i].type : i \in DOMAIN payload.items} \cap {"unsupported", "absent"} = {}
  BY <1>1 DEF MessageItemType
<1> QED
  BY <1>1, <1>2 DEF InShape, PrimaryIntent

(***************************************************************************)
(* The first item of a type.                                               *)
(***************************************************************************)

\* If a type occurs, one item of that type is the first.
LEMMA FirstExists ==
    ASSUME NEW S, NEW items \in Seq(S), NEW type,
           \E i \in DOMAIN items : items[i].type = type
    PROVE  FirstOfType(items, type) # {}
<1> DEFINE found == {i \in DOMAIN items : items[i].type = type}
<1>1. found \in SUBSET Nat /\ found # {} /\ DOMAIN items = 1 .. Len(items)
  OBVIOUS
<1>2. PICK m \in found : \A k \in found : m <= k
  BY <1>1, LeastOf
<1>3. ASSUME NEW j \in 1 .. (m - 1) PROVE items[j].type # type
  BY <1>1, <1>2, <1>3
<1> QED
  BY <1>1, <1>2, <1>3 DEF FirstOfType

(***************************************************************************)
(* The way of a message.                                                   *)
(***************************************************************************)

\* The strengthening: what was decided follows from the message and the state.
Failed ==
    /\ route = "server_error"
    /\ \/ ValidationRaises(intake)
       \/ ProposalRaises(intake) /\ SemanticRoute(state, intake) = "propose_rule"

Dispatched ==
    /\ ~ValidationRaises(intake)
    /\ ~(route = "propose_rule" /\ ProposalRaises(intake))
    /\ route = SemanticRoute(state, intake)

Decided ==
    /\ state \in EpisodeState /\ message \in Messages
    /\ pc \in {"preprocess", "validate", "dispatch", "done"}
    /\ pc = "preprocess" => intake = Intake("chat", << >>)
    /\ pc \in {"validate", "dispatch"} => intake = Classify(message.payload)
    /\ pc = "dispatch" => ~ValidationRaises(intake)
    /\ pc # "done" => route = "undecided"
    /\ pc = "done" =>
          \/ route \in Command \ {"none"} /\ intake = Intake("chat", << >>)
          \/ intake = Classify(message.payload) /\ (Failed \/ Dispatched)

\* A branch is one of those of handle_message.
LEMMA RouteType ==
    ASSUME NEW s, NEW result
    PROVE  SemanticRoute(s, result) \in Branches
BY DEF SemanticRoute, Branches

\* Every step decides so.
LEMMA DecidedInvariant == Spec => []Decided
<1>1. Init => Decided
  BY DEF Init, Decided
<1>2. ASSUME Decided, [Next]_vars PROVE Decided'
  <2>1. CASE UNCHANGED vars
    BY <1>2, <2>1 DEF vars, Decided, Failed, Dispatched
  <2>2. CASE Control
    <3>1. Action \in Command
      BY DEF Action, Preprocess, CommandOf, Command
    <3> QED
      BY <1>2, <2>2, <3>1 DEF Control, Decided
  <2>3. CASE ClassifyMessage
    BY <1>2, <2>3 DEF ClassifyMessage, Decided
  <2>4. CASE Validate
    BY <1>2, <2>4 DEF Validate, Decided
  <2>5. CASE ValidateRaises
    BY <1>2, <2>5 DEF ValidateRaises, Decided, Failed
  <2>6. CASE Dispatch
    BY <1>2, <2>6 DEF Dispatch, Decided, Dispatched
  <2>7. CASE DispatchRaises
    BY <1>2, <2>7 DEF DispatchRaises, Decided, Failed
  <2> QED
    BY <1>2, <2>1, <2>2, <2>3, <2>4, <2>5, <2>6, <2>7 DEF Next
<1> QED
  BY <1>1, <1>2, PTL DEF Spec

\* The intake of a message is parsed, or empty for a command.
LEMMA IntakeParsed ==
    ASSUME Decided
    PROVE  intake \in ParsedIntake
<1>1. Intake("chat", << >>) \in ParsedIntake
  BY DEF Intake, ParsedIntake, PrimaryIntent
<1>2. message \in Messages => Classify(message.payload) \in ParsedIntake
  BY MessagesAssumption, ClassifiedParsed
<1> QED
  BY <1>1, <1>2 DEF Decided

\* Whatever the client returned, the intake is in the vocabulary and the decision is
\* a branch of handle_message.
THEOREM RoutesTyped == Spec => []TypeOK
<1>1. ASSUME Decided PROVE TypeOK
  <2>1. intake \in ParsedIntake
    BY <1>1, IntakeParsed
  <2>2. /\ intake.primary_intent \in PrimaryIntent
        /\ \A i \in DOMAIN intake.items : intake.items[i] \in ParsedItem
    BY <2>1 DEF ParsedIntake
  <2>3. route \in Branches \cup {"undecided", "server_error"} \cup (Command \ {"none"})
    BY <1>1, RouteType DEF Decided, Failed, Dispatched
  <2> QED
    BY <1>1, <2>2, <2>3 DEF Decided, TypeOK, ParsedItem
<1> QED
  BY <1>1, DecidedInvariant, PTL

\* Wherever the defect of a payload is, nothing of it is acted on: the user is asked
\* again.
THEOREM DefectsFailClosed == Spec => []FailsClosed
<1>1. ASSUME Decided, Semantic, ~InShape(message.payload) PROVE route = "fallback"
  <2>1. intake = Classify(message.payload) /\ (Failed \/ Dispatched)
    BY <1>1 DEF Decided, Semantic
  <2>2. intake = AmbiguousRequest
    BY <1>1, <2>1, MessagesAssumption, ParsedInShape DEF Decided, Classify
  <2>3. ~ValidationRaises(intake)
    BY <2>2, AmbiguousParsed DEF ValidationRaises, ItemRaises, RequiresText
  <2>4. SemanticRoute(state, intake) = "fallback"
    BY <2>2, AmbiguousParsed DEF SemanticRoute, NeedsClarification, HasItem
  <2> QED
    BY <2>1, <2>3, <2>4 DEF Failed, Dispatched
<1>2. Decided => FailsClosed
  BY <1>1 DEF FailsClosed
<1> QED
  BY <1>2, DecidedInvariant, PTL

\* The task branch is reached only with a task item.
THEOREM TaskTurnsHaveGoals == Spec => []TaskBranchHasGoal
<1>1. ASSUME Decided, route = "task" PROVE FirstOfType(intake.items, "task") # {}
  <2>1. SemanticRoute(state, intake) = "task" /\ intake \in ParsedIntake
    BY <1>1, IntakeParsed DEF Decided, Failed, Dispatched, Command
  <2>2. intake.primary_intent = "task" /\ ~NeedsClarification(intake)
    BY <2>1 DEF SemanticRoute
  <2>3. HasValidItem(intake, "task")
    BY <2>2 DEF NeedsClarification, ComputeUnderstandingSufficiency, MandatoryItem
  <2>4. intake.items \in Seq(ParsedItem)
    BY <2>1 DEF ParsedIntake
  <2> QED
    BY <2>3, <2>4, FirstExists DEF HasValidItem
<1>2. Decided => TaskBranchHasGoal
  BY <1>1 DEF TaskBranchHasGoal
<1> QED
  BY <1>2, DecidedInvariant, PTL

\* An intake that is in order takes the branch the table names: the switch question
\* during a review, then the proposal of its rule, then its intent, whatever it
\* combines and in every state.
THEOREM OrderlyIntakesTakeTheirBranch == Spec => []OrderlyTakesItsBranch
<1>1. ASSUME Decided, Semantic, route # "server_error", InOrder,
             intake.primary_intent # "cancel"
      PROVE  route = ExpectedRoute
  <2>1. route = SemanticRoute(state, intake) /\ intake.primary_intent \in PrimaryIntent
    BY <1>1, IntakeParsed DEF Decided, Semantic, Failed, Dispatched, ParsedIntake
  <2>2. ~HasItem(intake, "ambiguous_request")
    BY <1>1 DEF InOrder, HasItem
  <2>3. \A type : HasItem(intake, type) => HasValidItem(intake, type)
    BY <1>1 DEF InOrder, HasItem, HasValidItem
  <2>4. intake.primary_intent \in DOMAIN MandatoryItem =>
            HasItem(intake, MandatoryItem[intake.primary_intent])
    BY <1>1 DEF InOrder
  <2>5. DOMAIN MandatoryItem = {"task", "rule_update", "correction", "feedback"}
    BY DEF MandatoryItem
  <2>6. ~NeedsClarification(intake)
    BY <1>1, <2>1, <2>2, <2>3, <2>4, <2>5
    DEF NeedsClarification, ComputeUnderstandingSufficiency, PrimaryIntent
  <2>7. intake.primary_intent = "rule_update" => HasItem(intake, "rule_candidate")
    BY <1>1, <2>4, <2>5 DEF InOrder, MandatoryItem
  <2>8. HasValidItem(intake, "rule_candidate") => HasItem(intake, "rule_candidate")
    BY DEF HasItem, HasValidItem
  <2> QED
    BY <1>1, <2>1, <2>6, <2>7, <2>8
    DEF SemanticRoute, ExpectedRoute, ShouldRequestSwitch, ReviewStates,
        RequiresUserReview, PrimaryIntent
<1>2. Decided => OrderlyTakesItsBranch
  BY <1>1 DEF OrderlyTakesItsBranch
<1> QED
  BY <1>2, DecidedInvariant, PTL

(***************************************************************************)
(* What is not of its kind is not looked at.                               *)
(***************************************************************************)

\* The items of the clean intake differ in what is not of its kind only.
LEMMA CleanItems ==
    ASSUME intake \in ParsedIntake
    PROVE  /\ CleanIntake.primary_intent = intake.primary_intent
           /\ CleanIntake.items \in Seq(MessageItem) /\ CleanIntake \in IntakeResult
           /\ DOMAIN CleanIntake.items = DOMAIN intake.items
           /\ \A i \in DOMAIN intake.items :
                 LET clean == CleanIntake.items[i]
                     item == intake.items[i]
                 IN  /\ clean.type = item.type /\ clean.scope = item.scope
                     /\ item.text \in Text => clean.text = item.text
                     /\ item.key # "unhashable" => clean.key = item.key
<1> DEFINE Clean(item) ==
               [item EXCEPT !.text = IF @ = NonText THEN UserText ELSE @,
                            !.key = IF @ = "unhashable" THEN "none" ELSE @]
           clean == [i \in DOMAIN intake.items |-> Clean(intake.items[i])]
<1>1. /\ intake.items \in Seq(ParsedItem) /\ intake.primary_intent \in PrimaryIntent
      /\ DOMAIN intake.items = 1 .. Len(intake.items) /\ Len(intake.items) \in Nat
  BY DEF ParsedIntake
<1>2. ASSUME NEW item \in ParsedItem
      PROVE  /\ Clean(item) \in MessageItem
             /\ Clean(item).type = item.type /\ Clean(item).scope = item.scope
             /\ item.text \in Text => Clean(item).text = item.text
             /\ item.key # "unhashable" => Clean(item).key = item.key
  BY TextKindsAssumption DEF ParsedItem, MessageItem, RuleKey
<1> HIDE DEF Clean
<1>3. clean \in Seq(MessageItem) /\ DOMAIN clean = DOMAIN intake.items
  BY <1>1, <1>2
<1>4. CleanIntake = Intake(intake.primary_intent, clean)
  BY DEF CleanIntake, Clean
<1>5. CleanIntake.items = clean /\ CleanIntake.primary_intent = intake.primary_intent
  BY <1>4 DEF Intake
<1>6. CleanIntake \in IntakeResult
  BY <1>1, <1>3, <1>4 DEF Intake, IntakeResult
<1>7. \A i \in DOMAIN intake.items :
          clean[i] = Clean(intake.items[i]) /\ intake.items[i] \in ParsedItem
  BY <1>1
<1> HIDE DEF clean
<1> QED
  BY <1>2, <1>3, <1>5, <1>6, <1>7

\* A turn that ends without an error did what a well-formed intake would have made
\* it do.
THEOREM IntakesCoverTheModel == Spec => []ActsAsOnIntake
<1>1. ASSUME Decided, Semantic, route # "server_error"
      PROVE  /\ CleanIntake \in IntakeResult
             /\ SemanticRoute(state, CleanIntake) = route
             /\ ActedOn(CleanIntake) = ActedOn(intake)
  <2>0. intake \in ParsedIntake /\ Dispatched
    BY <1>1, IntakeParsed DEF Decided, Semantic, Failed
  <2> DEFINE clean == CleanIntake
  <2>1. /\ clean.primary_intent = intake.primary_intent /\ clean \in IntakeResult
        /\ DOMAIN clean.items = DOMAIN intake.items
        /\ \A i \in DOMAIN intake.items :
              /\ clean.items[i].type = intake.items[i].type
              /\ clean.items[i].scope = intake.items[i].scope
              /\ intake.items[i].text \in Text => clean.items[i].text = intake.items[i].text
              /\ intake.items[i].key # "unhashable" =>
                     clean.items[i].key = intake.items[i].key
    BY <2>0, CleanItems
  <2> HIDE DEF clean
  <2>2. \A i \in DOMAIN intake.items :
            intake.items[i].type \in RequiresText => intake.items[i].text \in Text
    BY <2>0 DEF Dispatched, ValidationRaises, ItemRaises
  <2>3. \A i \in DOMAIN intake.items :
            IsValid(clean.items[i]) <=> IsValid(intake.items[i])
    BY <2>1, <2>2 DEF IsValid, RequiresText
  <2>4. \A type : /\ HasItem(clean, type) <=> HasItem(intake, type)
                  /\ HasValidItem(clean, type) <=> HasValidItem(intake, type)
    BY <2>1, <2>3 DEF HasItem, HasValidItem
  <2>5. NeedsClarification(clean) <=> NeedsClarification(intake)
    BY <2>1, <2>4 DEF NeedsClarification, ComputeUnderstandingSufficiency
  <2>6. SemanticRoute(state, clean) = SemanticRoute(state, intake)
    BY <2>1, <2>4, <2>5 DEF SemanticRoute, ShouldRequestSwitch, RequiresUserReview
  <2>7. \A type : FirstOfType(clean.items, type) = FirstOfType(intake.items, type)
    <3>1. DOMAIN intake.items = 1 .. Len(intake.items) /\ Len(intake.items) \in Nat
      BY <2>0 DEF ParsedIntake
    <3>2. \A i \in DOMAIN intake.items : 1 .. (i - 1) \subseteq DOMAIN intake.items
      BY <3>1
    <3> QED
      BY <2>1, <3>2 DEF FirstOfType
  <2>8. \A type : \A i \in FirstOfType(intake.items, type) :
            i \in DOMAIN intake.items /\ intake.items[i].type = type
    BY DEF FirstOfType
  <2>9. ActedOn(clean) = ActedOn(intake)
    <3>1. CASE route = "task"
      <4>1. \A i \in FirstOfType(intake.items, "task") :
                clean.items[i].text = intake.items[i].text
        BY <2>1, <2>2, <2>8 DEF RequiresText
      <4> QED
        BY <2>7, <3>1, <4>1 DEF ActedOn
    <3>2. CASE route = "propose_rule"
      <4>1. \A i \in FirstOfType(intake.items, "rule_candidate") :
                /\ clean.items[i].text = intake.items[i].text
                /\ clean.items[i].key = intake.items[i].key
        BY <2>0, <2>1, <2>2, <2>8, <3>2 DEF RequiresText, Dispatched, ProposalRaises
      <4> QED
        BY <2>7, <3>2, <4>1 DEF ActedOn
    <3>3. CASE route = "fallback"
      BY <2>4, <3>3 DEF ActedOn, Reason
    <3>4. CASE route \notin {"task", "propose_rule", "fallback"}
      BY <3>4 DEF ActedOn
    <3> QED
      BY <3>1, <3>2, <3>3, <3>4
  <2> QED
    BY <2>0, <2>1, <2>6, <2>9 DEF clean, Dispatched
<1>2. Decided => ActsAsOnIntake
  BY <1>1 DEF ActsAsOnIntake
<1> QED
  BY <1>2, DecidedInvariant, PTL

(***************************************************************************)
(* Exact commands.                                                         *)
(***************************************************************************)

\* A message is routed as a command exactly if the preprocessor says so.
CommandTaken ==
    /\ pc \in {"preprocess", "validate", "dispatch"} => route = "undecided"
    /\ pc \in {"validate", "dispatch"} => Action = "none"
    /\ pc = "done" => \/ Action # "none" /\ route = Action
                      \/ Action = "none" /\ route \notin {"cancel", "confirm", "reject"}

\* It is so in every reachable state.
LEMMA CommandTakenInvariant == Spec => [](CommandTaken /\ Decided)
<1>1. Init => CommandTaken
  BY DEF Init, CommandTaken
<1>2. ASSUME CommandTaken, Decided, [Next]_vars PROVE CommandTaken'
  <2>1. CASE UNCHANGED vars
    BY <1>2, <2>1 DEF vars, CommandTaken, Action
  <2>2. CASE Control
    BY <1>2, <2>2 DEF Control, CommandTaken, Action
  <2>3. CASE ClassifyMessage
    BY <1>2, <2>3 DEF ClassifyMessage, CommandTaken, Action
  <2>4. CASE Validate
    BY <1>2, <2>4 DEF Validate, CommandTaken, Action
  <2>5. CASE ValidateRaises
    BY <1>2, <2>5 DEF ValidateRaises, CommandTaken, Action
  <2>6. CASE Dispatch
    <3>1. SemanticRoute(state, intake) \in Branches
      BY RouteType
    <3> QED
      BY <1>2, <2>6, <3>1 DEF Dispatch, CommandTaken, Action, Branches
  <2>7. CASE DispatchRaises
    BY <1>2, <2>7 DEF DispatchRaises, CommandTaken, Action
  <2> QED
    BY <1>2, <2>1, <2>2, <2>3, <2>4, <2>5, <2>6, <2>7 DEF Next
<1> QED
  BY <1>1, <1>2, DecidedInvariant, PTL DEF Spec

\* For a text of any length: it is a command exactly if the whole of it says one.
THEOREM CommandsAreExact == Spec => []CommandsExact
<1>1. ASSUME CommandTaken, Decided, route # "undecided"
      PROVE  /\ route = "cancel" <=>
                    \E command \in CANCEL_COMMANDS : Says(message.text, command)
             /\ route = "confirm" <=>
                    /\ state \in PendingConfirmationStates
                    /\ \E command \in CONFIRM_COMMANDS : Says(message.text, command)
             /\ route = "reject" <=>
                    /\ state \in PendingConfirmationStates
                    /\ \E command \in REJECT_COMMANDS : Says(message.text, command)
  <2> DEFINE normalized == NormalizeCommand(message.text)
  <2>1. /\ normalized \in CONFIRM_COMMANDS <=>
               \E command \in CONFIRM_COMMANDS : Says(message.text, command)
        /\ normalized \in REJECT_COMMANDS <=>
               \E command \in REJECT_COMMANDS : Says(message.text, command)
        /\ normalized \in CANCEL_COMMANDS <=>
               \E command \in CANCEL_COMMANDS : Says(message.text, command)
    BY <1>1, MessagesAssumption, CommandsSaid DEF Decided
  <2>2. /\ normalized \in CONFIRM_COMMANDS =>
               normalized \notin CANCEL_COMMANDS /\ normalized \notin REJECT_COMMANDS
        /\ normalized \in REJECT_COMMANDS => normalized \notin CANCEL_COMMANDS
    BY DEF CONFIRM_COMMANDS, REJECT_COMMANDS, CANCEL_COMMANDS
  <2>3. CommandOf(message.text) =
            IF normalized \in CANCEL_COMMANDS THEN "cancel"
            ELSE IF normalized \in CONFIRM_COMMANDS THEN "confirm"
            ELSE IF normalized \in REJECT_COMMANDS THEN "reject"
            ELSE "none"
    BY DEF CommandOf
  <2> HIDE DEF normalized
  <2>4. /\ Action = "cancel" <=> normalized \in CANCEL_COMMANDS
        /\ Action = "confirm" <=>
               state \in PendingConfirmationStates /\ normalized \in CONFIRM_COMMANDS
        /\ Action = "reject" <=>
               state \in PendingConfirmationStates /\ normalized \in REJECT_COMMANDS
    BY <2>2, <2>3 DEF Action, Preprocess
  <2>5. \/ Action # "none" /\ route = Action
        \/ Action = "none" /\ route \notin {"cancel", "confirm", "reject"}
    BY <1>1 DEF CommandTaken, Decided
  <2> QED
    BY <2>1, <2>4, <2>5
<1>2. CommandTaken /\ Decided => CommandsExact
  BY <1>1 DEF CommandsExact
<1> QED
  BY <1>2, CommandTakenInvariant, PTL

=============================================================================
