--------------------------- MODULE MCRoutingTable ---------------------------
(***************************************************************************)
(* RoutingTable for every short text, and for every payload of at most two *)
(* items.                                                                  *)
(***************************************************************************)
EXTENDS RoutingTable

CONSTANT MaxLength   \* bound: the characters of a text

\* The texts are those the user may send; the payloads matter for the texts that
\* are no command, of which one is enough.
Shaped(shape, intent, is_list, items) ==
    [shape |-> shape, primary_intent |-> intent, is_list |-> is_list, items |-> items]

Unusable == Shaped("raised", "absent", FALSE, << >>)

Plain == CHOOSE text \in Text \ Blank : TRUE

\* Every item of one text; then those put side by side, of every type, in order
\* and with every defect.
SingleItems == {<<item>> : item \in RawItem}

PairedItems ==
    {Item(type, text, TRUE, "none") :
        type \in MessageItemType \cup {"unsupported"}, text \in Text}
    \cup {Item("rule_candidate", text, FALSE, "none") : text \in Text}
    \cup {Item("task", text, FALSE, "none") : text \in {Absent, NonText}}
    \cup {Item("rule_candidate", Plain, scope, "unhashable") : scope \in BOOLEAN}
    \cup {Item("query", NonText, FALSE, "unhashable")}

ItemLists ==
    {<< >>} \cup SingleItems
    \cup {<<first, second>> : first \in PairedItems, second \in PairedItems}

SmallPayloads ==
    {Unusable, Shaped("other", "absent", FALSE, << >>)}
    \cup {Shaped("dict", intent, FALSE, << >>) : intent \in PrimaryIntent}
    \cup {Shaped("dict", intent, TRUE, items) :
            intent \in PrimaryIntent \cup {"mixed", "unsupported", "absent"},
            items \in ItemLists}

\* The same, from a client that returns an object.
SmallObjects ==
    {object \in {[payload EXCEPT !.shape = "intake_result"] : payload \in SmallPayloads} :
        IsPayload(object) /\ object.is_list /\ object.primary_intent # "absent"}

SmallMessages ==
    {[text |-> text, payload |-> Unusable] : text \in BoundedSeq(Character, MaxLength)}
    \cup {[text |-> <<"not">>, payload |-> payload] :
            payload \in SmallPayloads \cup SmallObjects}

=============================================================================
