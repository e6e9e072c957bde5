---------------------------- MODULE CommandText -----------------------------
(***************************************************************************)
(* normalize_command of services/deterministic_preprocessor.py: which      *)
(* texts are one of the exact short commands.                              *)
(*                                                                         *)
(* A text is a sequence of characters of a few classes.  A letter stands   *)
(* for a whole word, in either case; there is a blank that is a space and  *)
(* one that is not, and one character of boundary punctuation.  As in the  *)
(* code's lists, a command may be two words and contain another command    *)
(* ("не так" is a no, "так" a yes).                                        *)
(***************************************************************************)
EXTENDS SequencesExt

\* так, не, отмена in lower case; ТАК; punctuation, space, tabulator.
Character == {"yes", "not", "cancel", "YES", "!", "space", "tab"}

Blanks == {"space", "tab"}
BoundaryPunctuation == Blanks \cup {"!"}

CONFIRM_COMMANDS == {<<"yes">>}
REJECT_COMMANDS == {<<"not", "space", "yes">>}
CANCEL_COMMANDS == {<<"cancel">>}

-----------------------------------------------------------------------------

Lower(text) == [i \in DOMAIN text |-> IF text[i] = "YES" THEN "yes" ELSE text[i]]

\* The text between the first and the last character outside a set.
StripOf(text, removed) ==
    LET kept == {i \in DOMAIN text : text[i] \notin removed} IN
    IF kept = {} THEN << >> ELSE SubSeq(text, Min(kept), Max(kept))

\* Every run of blanks becomes one space.
Collapse(text) ==
    LET upTo[n \in 0 .. Len(text)] ==
            IF n = 0 THEN << >>
            ELSE IF text[n] \notin Blanks THEN Append(upTo[n - 1], text[n])
            ELSE IF n > 1 /\ text[n - 1] \in Blanks THEN upTo[n - 1]
            ELSE Append(upTo[n - 1], "space")
    IN  upTo[Len(text)]

\* Mutant: punctuation is removed wherever it is, not at the boundary.
NormalizeAnyPunctuation(text) ==
    StripOf(Collapse(SelectSeq(Lower(text), LAMBDA c : c # "!")), Blanks)

NormalizeCommand(text) ==
    StripOf(Collapse(StripOf(Collapse(StripOf(Lower(text), Blanks)),
                             BoundaryPunctuation)), Blanks)

\* The list a text is in.
CommandOf(text) ==
    LET normalized == NormalizeCommand(text) IN
    IF normalized \in CANCEL_COMMANDS THEN "cancel"
    ELSE IF normalized \in CONFIRM_COMMANDS THEN "confirm"
    ELSE IF normalized \in REJECT_COMMANDS THEN "reject"
    ELSE "none"

-----------------------------------------------------------------------------
(* What an exact command is, said without the pipeline. *)

\* Case and the length and kind of blanks between words do not matter.
SameWords(text, command) ==
    LET letters(s) == {i \in DOMAIN s : s[i] \notin Blanks}
        rank(s, i) == Cardinality({j \in letters(s) : j <= i})
        parted(s, i) == i > 1 /\ s[i - 1] \in Blanks
    IN
    /\ Cardinality(letters(text)) = Cardinality(letters(command))
    /\ \A i \in letters(text), j \in letters(command) :
          rank(text, i) = rank(command, j) =>
              /\ Lower(text)[i] = command[j]
              /\ rank(text, i) > 1 => (parted(text, i) <=> parted(command, j))

\* The whole text says the command, but for punctuation and blanks around it.
Says(text, command) ==
    \E first, last \in DOMAIN text :
        /\ first <= last
        /\ \A i \in DOMAIN text \ (first .. last) : text[i] \in BoundaryPunctuation
        /\ {text[first], text[last]} \cap BoundaryPunctuation = {}
        /\ SameWords(SubSeq(text, first, last), command)

=============================================================================
