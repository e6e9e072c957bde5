------------------------- MODULE CommandTextProofs --------------------------
(***************************************************************************)
(* Lemmas about CommandText, up to the one that says what the lists of     *)
(* normalize_command mean for a text of any length (CommandsSaid).         *)
(*                                                                         *)
(* What each stage of the pipeline returns is said as a relation between a *)
(* text and the text it becomes: Cut for stripping, Traced for collapsing. *)
(* Through these relations every stage keeps one property of a text both   *)
(* ways: that it is one word, or two, with nothing but punctuation around. *)
(* Collapsing is recursive over the text; that its recursion is defined,   *)
(* and what it builds, are shown by induction, which rests on the least    *)
(* element of a set of numbers.                                            *)
(***************************************************************************)
EXTENDS CommandText, TLAPS, WellFoundedInduction, FiniteSetTheorems, SequenceTheorems

(***************************************************************************)
(* Induction.                                                              *)
(***************************************************************************)

\* A set of numbers that is not empty has a least element.
LEMMA LeastOf ==
    ASSUME NEW S \in SUBSET Nat, S # {}
    PROVE  \E m \in S : \A k \in S : m <= k
<1> DEFINE R == OpToRel(<, Nat)
<1>1. IsWellFoundedOn(R, Nat)
  BY NatLessThanWellFounded
<1> HIDE DEF R
<1>2. PICK m \in S : \A k \in S : <<k, m>> \notin R
  BY <1>1, WFMin
<1>3. \A k \in S : ~(k < m)
  BY <1>2 DEF R, OpToRel
<1> QED
  BY <1>3

\* What holds at 0 and is passed on by every number up to a bound holds up to it.
LEMMA Induction ==
    ASSUME NEW S, NEW bound \in Nat, 0 \in S,
           \A n \in 0 .. (bound - 1) : n \in S => n + 1 \in S
    PROVE  0 .. bound \subseteq S
<1> DEFINE T == (0 .. bound) \ S
<1>1. SUFFICES ASSUME T # {} PROVE FALSE
  OBVIOUS
<1>2. T \in SUBSET Nat
  OBVIOUS
<1> HIDE DEF T
<1>3. PICK n \in T : \A k \in T : n <= k
  BY <1>1, <1>2, LeastOf
<1>4. n \in 1 .. bound
  BY <1>3 DEF T
<1>5. n - 1 \in 0 .. (bound - 1) /\ n - 1 \notin T
  BY <1>3, <1>4
<1>6. n - 1 \in S
  BY <1>5 DEF T
<1>7. (n - 1) + 1 \in S
  BY <1>5, <1>6
<1> QED
  BY <1>3, <1>4, <1>7 DEF T

(***************************************************************************)
(* The sequence that Collapse builds.                                      *)
(***************************************************************************)

\* What a character adds to the text before it.
Joined(text, n, joined) ==
    IF text[n] \notin Blanks THEN Append(joined, text[n])
    ELSE IF n > 1 /\ text[n - 1] \in Blanks THEN joined
    ELSE Append(joined, "space")

\* A function that obeys the recursion of Collapse up to a bound.
UpTo(text, bound, f) ==
    f = [n \in 0 .. bound |-> IF n = 0 THEN << >> ELSE Joined(text, n, f[n - 1])]

\* The recursion has a solution.
LEMMA CollapseDefined ==
    ASSUME NEW text, NEW bound \in Nat
    PROVE  \E f : UpTo(text, bound, f)
<1> DEFINE S == {n \in 0 .. bound : \E f : UpTo(text, n, f)}
<1>1. 0 \in S
  <2>1. UpTo(text, 0, [n \in 0 .. 0 |-> << >>])
    BY DEF UpTo
  <2> QED
    BY <2>1
<1>2. ASSUME NEW n \in 0 .. (bound - 1), n \in S PROVE n + 1 \in S
  <2>1. PICK f : UpTo(text, n, f)
    BY <1>2
  <2> DEFINE g == [m \in 0 .. (n + 1) |->
                     IF m = n + 1 THEN Joined(text, n + 1, f[n]) ELSE f[m]]
  <2>2. DOMAIN g = 0 .. (n + 1) /\ g[n + 1] = Joined(text, n + 1, f[n])
    OBVIOUS
  <2>3. \A m \in 0 .. n : g[m] = f[m]
    OBVIOUS
  <2>4. g = [m \in 0 .. (n + 1) |-> g[m]]
    OBVIOUS
  <2> HIDE DEF g
  <2>5. ASSUME NEW m \in 0 .. (n + 1)
        PROVE  g[m] = IF m = 0 THEN << >> ELSE Joined(text, m, g[m - 1])
    <3>1. CASE m = n + 1
      <4>1. m - 1 = n /\ n \in 0 .. n /\ m # 0
        BY <3>1
      <4> QED
        BY <2>2, <2>3, <3>1, <4>1
    <3>2. CASE m \in 1 .. n
      <4>1. m - 1 \in 0 .. n /\ m \in 0 .. n /\ m # 0
        BY <3>2
      <4>2. f[m] = Joined(text, m, f[m - 1])
        BY <2>1, <4>1 DEF UpTo
      <4> QED
        BY <2>3, <4>1, <4>2
    <3>3. CASE m = 0
      <4>1. f[0] = << >> /\ 0 \in 0 .. n
        BY <2>1 DEF UpTo
      <4> QED
        BY <2>3, <3>3, <4>1
    <3> QED
      BY <3>1, <3>2, <3>3
  <2>6. UpTo(text, n + 1, g)
    BY <2>4, <2>5 DEF UpTo
  <2> QED
    BY <2>6
<1>3. 0 .. bound \subseteq S
  <2> HIDE DEF S
  <2> QED
    BY <1>1, <1>2, Induction
<1> QED
  BY <1>3

\* Hence Collapse is the last value of a function that obeys its recursion.
LEMMA CollapseUpTo ==
    ASSUME NEW text, Len(text) \in Nat
    PROVE  \E f : UpTo(text, Len(text), f) /\ Collapse(text) = f[Len(text)]
<1> DEFINE g == CHOOSE f : UpTo(text, Len(text), f)
<1>1. UpTo(text, Len(text), g)
  BY CollapseDefined
<1>2. Collapse(text) = g[Len(text)]
  BY DEF Collapse, UpTo, Joined
<1> QED
  BY <1>1, <1>2

\* A character after collapsing.
Spaced(c) == IF c \in Blanks THEN "space" ELSE c

\* How a text and its collapsed form fit: place[i] is where character i went.
\* Every place is taken, and two characters share one only inside a run of blanks.
Traced(text, collapsed, place) ==
    /\ \A i \in DOMAIN text :
          place[i] \in DOMAIN collapsed /\ collapsed[place[i]] = Spaced(text[i])
    /\ \A k \in DOMAIN collapsed : \E i \in DOMAIN text : place[i] = k
    /\ \A i, j \in DOMAIN text :
          i < j => /\ place[i] <= place[j]
                   /\ place[i] = place[j] <=> \A m \in i .. j : text[m] \in Blanks

\* A collapsed text is a text, and fits the text it was made of.
LEMMA CollapseTraced ==
    ASSUME NEW text \in Seq(Character)
    PROVE  /\ Collapse(text) \in Seq(Character)
           /\ \E place : Traced(text, Collapse(text), place)
<1> DEFINE N == Len(text)
<1>0. N \in Nat /\ DOMAIN text = 1 .. N /\ \A i \in 1 .. N : text[i] \in Character
  OBVIOUS
<1>1. PICK f : UpTo(text, N, f) /\ Collapse(text) = f[N]
  BY <1>0, CollapseUpTo
<1> HIDE DEF N
<1>2. f[0] = << >> /\ \A n \in 1 .. N : f[n] = Joined(text, n, f[n - 1])
  BY <1>0, <1>1 DEF UpTo
<1> DEFINE place == [i \in 1 .. N |-> Len(f[i])]
           Whole(n) ==
               /\ f[n] \in Seq(Character)
               /\ \A i \in 1 .. n : place[i] \in 1 .. Len(f[n])
               /\ \A i \in 1 .. n : f[n][place[i]] = Spaced(text[i])
               /\ \A k \in 1 .. Len(f[n]) : \E i \in 1 .. n : place[i] = k
               /\ \A i, j \in 1 .. n :
                     i < j => /\ place[i] <= place[j]
                              /\ place[i] = place[j] <=>
                                     \A m \in i .. j : text[m] \in Blanks
           S == {n \in 0 .. N : Whole(n)}
<1>3. 0 \in S
  <2>1. f[0] \in Seq(Character) /\ Len(f[0]) = 0 /\ 1 .. 0 = {}
    BY <1>2
  <2> HIDE DEF place
  <2>2. Whole(0)
    BY <2>1
  <2> QED
    BY <1>0, <2>2
<1>4. ASSUME NEW n \in 0 .. (N - 1), n \in S PROVE n + 1 \in S
  <2> DEFINE c == Spaced(text[n + 1])
  <2>0. /\ n \in Nat /\ n + 1 \in 1 .. N /\ (n + 1) - 1 = n /\ text[n + 1] \in Character
        /\ c \in Character /\ \A i \in 1 .. n : i \in 1 .. N
    <3>1. n \in Nat /\ n + 1 \in 1 .. N /\ (n + 1) - 1 = n /\ \A i \in 1 .. n : i \in 1 .. N
      BY <1>0
    <3>2. text[n + 1] \in Character /\ "space" \in Character
      BY <1>0, <3>1 DEF Character
    <3> QED
      BY <3>1, <3>2 DEF Spaced
  <2>1. Whole(n)
    BY <1>4
  <2>2. f[n + 1] = Joined(text, n + 1, f[n])
    BY <1>2, <2>0
  <2>3. place[n + 1] = Len(f[n + 1]) /\ (n > 0 => place[n] = Len(f[n]))
    BY <2>0
  <2>4. CASE f[n + 1] = Append(f[n], c)
    <3>1. /\ f[n + 1] \in Seq(Character) /\ Len(f[n + 1]) = Len(f[n]) + 1
          /\ f[n + 1][Len(f[n]) + 1] = c
          /\ \A k \in 1 .. Len(f[n]) : f[n + 1][k] = f[n][k]
      BY <2>0, <2>1, <2>4
    <3> HIDE DEF place, c
    <3>2. Len(f[n]) \in Nat
      BY <2>1
    <3>3. \A i \in 1 .. n : place[i] < place[n + 1] /\ place[i] \in 1 .. Len(f[n])
      BY <2>1, <2>3, <3>1, <3>2
    <3>4. \A i \in 1 .. (n + 1) : i = n + 1 \/ i \in 1 .. n
      BY <2>0
    <3>5. \A i \in 1 .. (n + 1) : /\ place[i] \in 1 .. Len(f[n + 1])
                                  /\ f[n + 1][place[i]] = Spaced(text[i])
      <4> TAKE i \in 1 .. (n + 1)
      <4>1. CASE i = n + 1
        <5>1. Len(f[n]) + 1 \in 1 .. Len(f[n + 1])
          BY <3>1, <3>2
        <5> QED
          BY <2>3, <3>1, <4>1, <5>1 DEF c
      <4>2. CASE i \in 1 .. n
        <5>1. place[i] \in 1 .. Len(f[n]) /\ f[n][place[i]] = Spaced(text[i])
          BY <2>1, <4>2
        <5> QED
          BY <3>1, <3>2, <5>1
      <4> QED
        BY <3>4, <4>1, <4>2
    <3>6. \A k \in 1 .. Len(f[n + 1]) : \E i \in 1 .. (n + 1) : place[i] = k
      <4> TAKE k \in 1 .. Len(f[n + 1])
      <4>1. CASE k = Len(f[n + 1])
        BY <2>0, <2>3, <4>1
      <4>2. CASE k \in 1 .. Len(f[n])
        <5>1. PICK i \in 1 .. n : place[i] = k
          BY <2>1, <4>2
        <5> QED
          BY <2>0, <5>1
      <4> QED
        BY <3>1, <3>2, <4>1, <4>2
    <3>7. \A i, j \in 1 .. (n + 1) : i < j => i \in 1 .. n
      BY <2>0
    <3>8. ASSUME NEW i \in 1 .. (n + 1), NEW j \in 1 .. (n + 1), i < j
          PROVE  /\ place[i] <= place[j]
                 /\ place[i] = place[j] <=> \A m \in i .. j : text[m] \in Blanks
      <4>1. i \in 1 .. n
        BY <3>7, <3>8
      <4>2. CASE j \in 1 .. n
        BY <2>1, <3>8, <4>1, <4>2
      <4>3. CASE j = n + 1
        <5>1. place[i] < place[j] /\ place[i] \in Nat /\ place[j] \in Nat
          BY <2>3, <3>1, <3>2, <3>3, <4>1, <4>3
        <5>2. text[n] \notin Blanks \/ text[n + 1] \notin Blanks
          <6>1. n + 1 > 1
            BY <2>0, <4>1
          <6>2. Append(f[n], c) # f[n]
            BY <3>1, <3>2
          <6> QED
            BY <2>0, <2>2, <2>4, <6>1, <6>2 DEF Joined
        <5>3. n \in i .. j /\ n + 1 \in i .. j
          BY <2>0, <4>1, <4>3
        <5> QED
          BY <5>1, <5>2, <5>3
      <4> QED
        BY <3>4, <4>2, <4>3
    <3>9. Whole(n + 1)
      BY <3>1, <3>5, <3>6, <3>8
    <3> HIDE DEF Whole
    <3> QED
      BY <1>0, <2>0, <3>9
  <2>5. CASE f[n + 1] # Append(f[n], c)
    <3>1. /\ text[n + 1] \in Blanks /\ n + 1 > 1 /\ text[n] \in Blanks
          /\ f[n + 1] = f[n]
      BY <2>0, <2>2, <2>5 DEF Joined, Spaced
    <3>2. n \in 1 .. n /\ place[n] = place[n + 1]
      BY <2>0, <2>3, <3>1
    <3>3. Spaced(text[n]) = Spaced(text[n + 1])
      BY <3>1 DEF Spaced
    <3> HIDE DEF place, c
    <3>4. \A i \in 1 .. (n + 1) : i = n + 1 \/ i \in 1 .. n
      BY <2>0
    <3>5. \A i \in 1 .. (n + 1) : /\ place[i] \in 1 .. Len(f[n + 1])
                                  /\ f[n + 1][place[i]] = Spaced(text[i])
      BY <2>1, <3>1, <3>2, <3>3, <3>4
    <3>6. \A k \in 1 .. Len(f[n + 1]) : \E i \in 1 .. (n + 1) : place[i] = k
      BY <2>0, <2>1, <3>1
    <3>7. ASSUME NEW i \in 1 .. n
          PROVE  /\ place[i] <= place[n + 1]
                 /\ place[i] = place[n + 1] <=> \A m \in i .. (n + 1) : text[m] \in Blanks
      <4>1. CASE i = n
        <5>1. \A m \in i .. (n + 1) : m = n \/ m = n + 1
          BY <2>0, <4>1
        <5>2. place[n] \in Nat
          BY <2>1, <3>2
        <5> QED
          BY <3>1, <3>2, <4>1, <5>1, <5>2
      <4>2. CASE i < n
        <5>1. \A m \in i .. (n + 1) : m \in i .. n \/ m = n + 1
          BY <2>0
        <5> QED
          BY <2>1, <3>1, <3>2, <4>2, <5>1
      <4> QED
        BY <4>1, <4>2
    <3>8. \A i, j \in 1 .. (n + 1) : i < j => i \in 1 .. n /\ (j \in 1 .. n \/ j = n + 1)
      BY <2>0
    <3>9. f[n + 1] \in Seq(Character)
      BY <2>1, <3>1
    <3>10. ASSUME NEW i \in 1 .. (n + 1), NEW j \in 1 .. (n + 1), i < j
           PROVE  /\ place[i] <= place[j]
                  /\ place[i] = place[j] <=> \A m \in i .. j : text[m] \in Blanks
      BY <2>1, <3>7, <3>8, <3>10
    <3>11. Whole(n + 1)
      BY <3>5, <3>6, <3>9, <3>10
    <3> HIDE DEF Whole
    <3> QED
      BY <1>0, <2>0, <3>11
  <2> QED
    BY <2>4, <2>5
<1>5. Whole(N)
  <2> HIDE DEF Whole
  <2>1. 0 .. N \subseteq S
    <3> HIDE DEF S
    <3> QED
      BY <1>0, <1>3, <1>4, Induction
  <2> QED
    BY <1>0, <2>1
<1> HIDE DEF place
<1>6. DOMAIN f[N] = 1 .. Len(f[N])
  BY <1>5
<1>7. Traced(text, f[N], place)
  BY <1>0, <1>5, <1>6 DEF Traced
<1> QED
  BY <1>1, <1>5, <1>7

(***************************************************************************)
(* Stripping.                                                              *)
(***************************************************************************)

\* How a text and its stripped form fit.
Cut(text, stripped, removed, offset) ==
    /\ offset \in Nat
    /\ \A k \in DOMAIN stripped :
          offset + k \in DOMAIN text /\ stripped[k] = text[offset + k]
    /\ \A i \in DOMAIN text :
          i \in (offset + 1) .. (offset + Len(stripped)) \/ text[i] \in removed
    /\ stripped # << >> =>
          stripped[1] \notin removed /\ stripped[Len(stripped)] \notin removed

\* Stripping removes characters of the set at both ends, until one is not in it.
LEMMA Stripped ==
    ASSUME NEW text \in Seq(Character), NEW removed
    PROVE  /\ StripOf(text, removed) \in Seq(Character)
           /\ \E offset : Cut(text, StripOf(text, removed), removed, offset)
<1> DEFINE kept == {i \in DOMAIN text : text[i] \notin removed}
           N == Len(text)
           stripped == StripOf(text, removed)
<1>0. N \in Nat /\ DOMAIN text = 1 .. N /\ kept \subseteq 1 .. N
  OBVIOUS
<1>1. CASE kept = {}
  <2>1. stripped = << >>
    BY <1>1 DEF StripOf
  <2>2. \A i \in DOMAIN text : text[i] \in removed
    BY <1>1
  <2> HIDE DEF stripped
  <2>3. 0 \in Nat /\ stripped \in Seq(Character) /\ DOMAIN stripped = {}
    BY <2>1
  <2>4. Cut(text, stripped, removed, 0)
    BY <2>1, <2>2, <2>3 DEF Cut
  <2> QED
    BY <2>3, <2>4 DEF stripped
<1>2. CASE kept # {}
  <2> DEFINE a == Min(kept)
             b == Max(kept)
  <2>1. a \in kept /\ \A i \in kept : a <= i
    <3> HIDE DEF kept
    <3>1. \E i \in kept : \A j \in kept : i <= j
      BY <1>0, <1>2, LeastOf
    <3> QED
      BY <3>1 DEF Min
  <2>2. b \in kept /\ \A i \in kept : i <= b
    <3> DEFINE below == {N - i : i \in kept}
    <3>1. below \in SUBSET Nat /\ below # {}
      BY <1>0, <1>2
    <3> HIDE DEF kept
    <3>2. PICK d \in below : \A e \in below : d <= e
      <4> HIDE DEF below
      <4> QED
        BY <3>1, LeastOf
    <3>3. PICK m \in kept : d = N - m
      OBVIOUS
    <3>4. \A i \in kept : N - m <= N - i
      BY <3>2, <3>3
    <3>5. \A i \in kept : m >= i
      BY <1>0, <3>4
    <3>6. \E i \in kept : \A j \in kept : i >= j
      BY <3>5
    <3>7. b \in kept /\ \A i \in kept : b >= i
      BY <3>6 DEF Max
    <3> QED
      BY <1>0, <3>7
  <2>3. stripped = SubSeq(text, a, b)
    BY <1>2 DEF StripOf
  <2>4. a \in 1 .. N /\ b \in 1 .. N /\ a <= b /\ a - 1 \in Nat
    BY <1>0, <2>1, <2>2
  <2>5. text[a] \notin removed /\ text[b] \notin removed
    BY <2>1, <2>2
  <2>6. \A i \in DOMAIN text : i \in a .. b \/ text[i] \in removed
    BY <1>0, <2>1, <2>2
  <2> HIDE DEF a, b, stripped
  <2>7. /\ stripped \in Seq(Character) /\ Len(stripped) = b - a + 1
        /\ \A k \in 1 .. (b - a + 1) : stripped[k] = text[a + k - 1]
    <3>1. \A i \in a .. b : text[i] \in Character
      BY <1>0, <2>4
    <3> QED
      BY <1>0, <2>3, <2>4, <3>1, SubSeqProperties
  <2>8. DOMAIN stripped = 1 .. (b - a + 1)
    BY <2>7
  <2>9. \A k \in DOMAIN stripped : (a - 1) + k \in DOMAIN text /\ (a - 1) + k = a + k - 1
    BY <1>0, <2>4, <2>8
  <2>10. (a - 1) + 1 = a /\ (a - 1) + Len(stripped) = b
    BY <1>0, <2>4, <2>7
  <2>11. stripped[1] = text[a] /\ stripped[Len(stripped)] = text[b]
    <3>1. 1 \in 1 .. (b - a + 1) /\ b - a + 1 \in 1 .. (b - a + 1)
      BY <2>4
    <3>2. a + 1 - 1 = a /\ a + (b - a + 1) - 1 = b
      BY <2>4
    <3>3. stripped[1] = text[a + 1 - 1] /\ stripped[b - a + 1] = text[a + (b - a + 1) - 1]
      BY <2>7, <3>1
    <3> QED
      BY <2>7, <3>2, <3>3
  <2>12. \A i \in DOMAIN text :
             i \in ((a - 1) + 1) .. ((a - 1) + Len(stripped)) \/ text[i] \in removed
    BY <2>6, <2>10
  <2>13. \A k \in DOMAIN stripped :
             (a - 1) + k \in DOMAIN text /\ stripped[k] = text[(a - 1) + k]
    BY <2>7, <2>8, <2>9
  <2>14. Cut(text, stripped, removed, a - 1)
    BY <2>4, <2>5, <2>11, <2>12, <2>13 DEF Cut
  <2> QED
    BY <2>7, <2>14 DEF stripped
<1> QED
  BY <1>1, <1>2

(***************************************************************************)
(* One word, and two, with nothing but blanks between and nothing but      *)
(* punctuation around: no stage makes them or undoes them.                 *)
(***************************************************************************)

\* The characters that are words.
Words == Character \ BoundaryPunctuation

\* A text is one word, with nothing but punctuation around it.
OneWord(text, c) ==
    \E i \in DOMAIN text :
        /\ text[i] = c
        /\ \A k \in DOMAIN text : k # i => text[k] \in BoundaryPunctuation

\* A text is two words, with blanks between and nothing but punctuation around.
TwoWords(text, c, d) ==
    \E i, j \in DOMAIN text :
        /\ i + 1 < j /\ text[i] = c /\ text[j] = d
        /\ \A k \in DOMAIN text :
              /\ i < k /\ k < j => text[k] \in Blanks
              /\ k < i \/ k > j => text[k] \in BoundaryPunctuation

\* A blank is punctuation, a word is neither, and collapsing a character keeps
\* its kind.
LEMMA CharacterKinds ==
    /\ Blanks \subseteq BoundaryPunctuation /\ Blanks \subseteq Character
    /\ BoundaryPunctuation \subseteq Character
    /\ "space" \in Blanks /\ Words \cap BoundaryPunctuation = {}
    /\ \A c \in Character : /\ Spaced(c) \in Blanks <=> c \in Blanks
                            /\ c \notin Blanks => Spaced(c) = c
                            /\ Spaced(c) \in BoundaryPunctuation <=>
                                   c \in BoundaryPunctuation
BY DEF Character, Blanks, BoundaryPunctuation, Words, Spaced

\* Stripping punctuation neither makes a text one word nor undoes it.
LEMMA StripKeepsOne ==
    ASSUME NEW text \in Seq(Character), NEW removed,
           removed \subseteq BoundaryPunctuation, NEW c \in Words
    PROVE  OneWord(text, c) <=> OneWord(StripOf(text, removed), c)
<1> DEFINE stripped == StripOf(text, removed)
<1>0. stripped \in Seq(Character)
  BY Stripped
<1>1. PICK offset : Cut(text, stripped, removed, offset)
  BY Stripped
<1> HIDE DEF stripped
<1>2. /\ DOMAIN stripped = 1 .. Len(stripped) /\ Len(stripped) \in Nat
      /\ DOMAIN text = 1 .. Len(text) /\ Len(text) \in Nat /\ offset \in Nat
  BY <1>0, <1>1 DEF Cut
<1>3. c \notin BoundaryPunctuation
  BY CharacterKinds
<1>4. \A i \in DOMAIN text :
          \/ text[i] \in removed
          \/ /\ i - offset \in DOMAIN stripped /\ offset + (i - offset) = i
             /\ stripped[i - offset] = text[i]
  <2> TAKE i \in DOMAIN text
  <2>1. CASE i \in (offset + 1) .. (offset + Len(stripped))
    <3>1. i - offset \in DOMAIN stripped /\ offset + (i - offset) = i
      BY <1>2, <2>1
    <3> QED
      BY <1>1, <3>1 DEF Cut
  <2> QED
    BY <1>1, <2>1 DEF Cut
<1>5. ASSUME OneWord(text, c) PROVE OneWord(stripped, c)
  <2>1. PICK i \in DOMAIN text :
            /\ text[i] = c
            /\ \A k \in DOMAIN text : k # i => text[k] \in BoundaryPunctuation
    BY <1>5 DEF OneWord
  <2>2. i - offset \in DOMAIN stripped /\ stripped[i - offset] = c
    BY <1>3, <1>4, <2>1
  <2>3. \A k \in DOMAIN stripped : k # i - offset => offset + k # i
    BY <1>2
  <2>4. \A k \in DOMAIN stripped : k # i - offset => stripped[k] \in BoundaryPunctuation
    BY <1>1, <2>1, <2>3 DEF Cut
  <2> QED
    BY <2>2, <2>4 DEF OneWord
<1>6. ASSUME OneWord(stripped, c) PROVE OneWord(text, c)
  <2>1. PICK i \in DOMAIN stripped :
            /\ stripped[i] = c
            /\ \A k \in DOMAIN stripped : k # i => stripped[k] \in BoundaryPunctuation
    BY <1>6 DEF OneWord
  <2>2. offset + i \in DOMAIN text /\ text[offset + i] = c
    BY <1>1, <2>1 DEF Cut
  <2>3. ASSUME NEW k \in DOMAIN text, k # offset + i
        PROVE  text[k] \in BoundaryPunctuation
    <3>1. CASE text[k] \in removed
      BY <3>1
    <3>2. CASE /\ k - offset \in DOMAIN stripped /\ offset + (k - offset) = k
               /\ stripped[k - offset] = text[k]
      <4>1. k - offset # i
        BY <2>3, <3>2
      <4> QED
        BY <2>1, <3>2, <4>1
    <3> QED
      BY <1>4, <3>1, <3>2
  <2> QED
    BY <2>2, <2>3 DEF OneWord
<1> QED
  BY <1>5, <1>6 DEF stripped

\* Nor does it make or undo two words.
LEMMA StripKeepsTwo ==
    ASSUME NEW text \in Seq(Character), NEW removed,
           removed \subseteq BoundaryPunctuation, NEW c \in Words, NEW d \in Words
    PROVE  TwoWords(text, c, d) <=> TwoWords(StripOf(text, removed), c, d)
<1> DEFINE stripped == StripOf(text, removed)
<1>0. stripped \in Seq(Character)
  BY Stripped
<1>1. PICK offset : Cut(text, stripped, removed, offset)
  BY Stripped
<1> HIDE DEF stripped
<1>2. /\ DOMAIN stripped = 1 .. Len(stripped) /\ Len(stripped) \in Nat
      /\ DOMAIN text = 1 .. Len(text) /\ Len(text) \in Nat /\ offset \in Nat
  BY <1>0, <1>1 DEF Cut
<1>3. c \notin removed /\ d \notin removed
  BY CharacterKinds
<1>4. \A i \in DOMAIN text :
          \/ text[i] \in removed /\ ~(i \in (offset + 1) .. (offset + Len(stripped)))
          \/ /\ i - offset \in DOMAIN stripped /\ offset + (i - offset) = i
             /\ stripped[i - offset] = text[i]
  <2> TAKE i \in DOMAIN text
  <2>1. CASE i \in (offset + 1) .. (offset + Len(stripped))
    <3>1. i - offset \in DOMAIN stripped /\ offset + (i - offset) = i
      BY <1>2, <2>1
    <3> QED
      BY <1>1, <3>1 DEF Cut
  <2> QED
    BY <1>1, <2>1 DEF Cut
<1>5. ASSUME TwoWords(text, c, d) PROVE TwoWords(stripped, c, d)
  <2>1. PICK i \in DOMAIN text, j \in DOMAIN text :
            /\ i + 1 < j /\ text[i] = c /\ text[j] = d
            /\ \A k \in DOMAIN text :
                  /\ i < k /\ k < j => text[k] \in Blanks
                  /\ k < i \/ k > j => text[k] \in BoundaryPunctuation
    BY <1>5 DEF TwoWords
  <2>2. /\ i - offset \in DOMAIN stripped /\ stripped[i - offset] = c
        /\ j - offset \in DOMAIN stripped /\ stripped[j - offset] = d
        /\ (i - offset) + 1 < j - offset
    BY <1>2, <1>3, <1>4, <2>1
  <2>3. ASSUME NEW k \in DOMAIN stripped
        PROVE  /\ i - offset < k /\ k < j - offset => stripped[k] \in Blanks
               /\ k < i - offset \/ k > j - offset => stripped[k] \in BoundaryPunctuation
    <3>1. /\ i - offset < k <=> i < offset + k
          /\ k < j - offset <=> offset + k < j
          /\ k < i - offset <=> offset + k < i
          /\ k > j - offset <=> offset + k > j
      BY <1>2
    <3> QED
      BY <1>1, <2>1, <3>1 DEF Cut
  <2> QED
    BY <2>2, <2>3 DEF TwoWords
<1>6. ASSUME TwoWords(stripped, c, d) PROVE TwoWords(text, c, d)
  <2>1. PICK i \in DOMAIN stripped, j \in DOMAIN stripped :
            /\ i + 1 < j /\ stripped[i] = c /\ stripped[j] = d
            /\ \A k \in DOMAIN stripped :
                  /\ i < k /\ k < j => stripped[k] \in Blanks
                  /\ k < i \/ k > j => stripped[k] \in BoundaryPunctuation
    BY <1>6 DEF TwoWords
  <2>2. /\ offset + i \in DOMAIN text /\ text[offset + i] = c
        /\ offset + j \in DOMAIN text /\ text[offset + j] = d
        /\ (offset + i) + 1 < offset + j
    BY <1>1, <1>2, <2>1 DEF Cut
  <2>3. ASSUME NEW k \in DOMAIN text
        PROVE  /\ offset + i < k /\ k < offset + j => text[k] \in Blanks
               /\ k < offset + i \/ k > offset + j => text[k] \in BoundaryPunctuation
    <3>1. CASE text[k] \in removed /\ ~(k \in (offset + 1) .. (offset + Len(stripped)))
      <4>1. ~(offset + i < k /\ k < offset + j)
        BY <1>2, <3>1
      <4> QED
        BY <3>1, <4>1
    <3>2. CASE /\ k - offset \in DOMAIN stripped /\ offset + (k - offset) = k
               /\ stripped[k - offset] = text[k]
      <4>1. /\ i < k - offset <=> offset + i < k
            /\ k - offset < j <=> k < offset + j
            /\ k - offset < i <=> k < offset + i
            /\ k - offset > j <=> k > offset + j
        BY <1>2
      <4> QED
        BY <2>1, <3>2, <4>1
    <3> QED
      BY <1>4, <3>1, <3>2
  <2> QED
    BY <2>2, <2>3 DEF TwoWords
<1> QED
  BY <1>5, <1>6 DEF stripped

\* Collapsing neither makes a text one word nor undoes it.
LEMMA CollapseKeepsOne ==
    ASSUME NEW text \in Seq(Character), NEW c \in Words
    PROVE  OneWord(text, c) <=> OneWord(Collapse(text), c)
<1> DEFINE u == Collapse(text)
<1>1. u \in Seq(Character)
  BY CollapseTraced
<1>2. PICK place : Traced(text, u, place)
  BY CollapseTraced
<1> HIDE DEF u
<1>3. c \notin BoundaryPunctuation /\ c \notin Blanks /\ c \in Character
  BY CharacterKinds DEF Words
<1>4. /\ \A i \in DOMAIN text : text[i] \in Character /\ i \in Nat
      /\ \A k \in DOMAIN u : u[k] \in Character /\ k \in Nat
  BY <1>1
<1>5. /\ \A i \in DOMAIN text : /\ place[i] \in DOMAIN u /\ u[place[i]] = Spaced(text[i])
                                /\ text[i] = c <=> u[place[i]] = c
                                /\ text[i] \in BoundaryPunctuation <=>
                                       u[place[i]] \in BoundaryPunctuation
      /\ \A k \in DOMAIN u : \E i \in DOMAIN text : place[i] = k
      /\ \A i, j \in DOMAIN text : i # j /\ text[i] = c => place[i] # place[j]
  <2>1. \A i \in DOMAIN text : place[i] \in DOMAIN u /\ u[place[i]] = Spaced(text[i])
    BY <1>2 DEF Traced
  <2>2. \A i \in DOMAIN text : /\ text[i] = c <=> u[place[i]] = c
                               /\ text[i] \in BoundaryPunctuation <=>
                                      u[place[i]] \in BoundaryPunctuation
    BY <1>3, <1>4, <2>1, CharacterKinds
  <2>3. \A i, j \in DOMAIN text : i # j /\ text[i] = c => place[i] # place[j]
    <3>1. \A i, j \in DOMAIN text :
              i < j /\ (text[i] \notin Blanks \/ text[j] \notin Blanks) =>
                  place[i] # place[j]
      <4>1. \A i, j \in DOMAIN text : i < j => i \in i .. j /\ j \in i .. j
        BY <1>4
      <4> QED
        BY <1>2, <4>1 DEF Traced
    <3>2. \A i, j \in DOMAIN text :
              i < j /\ (text[i] = c \/ text[j] = c) => place[i] # place[j]
      BY <1>3, <1>4, <2>1, <3>1
    <3> QED
      BY <1>4, <3>2
  <2> QED
    BY <1>2, <2>1, <2>2, <2>3 DEF Traced
<1>6. OneWord(text, c) => OneWord(u, c)
  BY <1>5 DEF OneWord
<1>7. OneWord(u, c) => OneWord(text, c)
  <2>1. ASSUME OneWord(u, c) PROVE OneWord(text, c)
    <3>1. PICK k \in DOMAIN u :
              /\ u[k] = c
              /\ \A m \in DOMAIN u : m # k => u[m] \in BoundaryPunctuation
      BY <2>1 DEF OneWord
    <3>2. PICK i \in DOMAIN text : place[i] = k
      BY <1>5
    <3>3. text[i] = c
      BY <1>5, <3>1, <3>2
    <3>4. \A j \in DOMAIN text : j # i => text[j] \in BoundaryPunctuation
      BY <1>5, <3>1, <3>2, <3>3
    <3> QED
      BY <3>3, <3>4 DEF OneWord
  <2> QED
    BY <2>1
<1> QED
  BY <1>6, <1>7 DEF u

\* What the two directions below use of a trace.
LEMMA TraceFacts ==
    ASSUME NEW text \in Seq(Character), NEW u \in Seq(Character), NEW place,
           Traced(text, u, place)
    PROVE  /\ \A i \in DOMAIN text :
                 /\ place[i] \in DOMAIN u /\ u[place[i]] = Spaced(text[i])
                 /\ text[i] \in Blanks <=> u[place[i]] \in Blanks
                 /\ text[i] \in BoundaryPunctuation <=> u[place[i]] \in BoundaryPunctuation
                 /\ \A c \in Words : text[i] = c <=> u[place[i]] = c
           /\ \A k \in DOMAIN u : \E i \in DOMAIN text : place[i] = k
           /\ \A i, j \in DOMAIN text :
                 /\ place[i] < place[j] => i < j
                 /\ i < j /\ (text[i] \notin Blanks \/ text[j] \notin Blanks) =>
                        place[i] < place[j]
<1>1. /\ \A i \in DOMAIN text : text[i] \in Character /\ i \in Nat
      /\ \A k \in DOMAIN u : u[k] \in Character /\ k \in Nat
  OBVIOUS
<1>2. \A i \in DOMAIN text : place[i] \in DOMAIN u /\ u[place[i]] = Spaced(text[i])
  BY DEF Traced
<1>3. \A i \in DOMAIN text :
          /\ text[i] \in Blanks <=> u[place[i]] \in Blanks
          /\ text[i] \in BoundaryPunctuation <=> u[place[i]] \in BoundaryPunctuation
  BY <1>1, <1>2, CharacterKinds
<1>4. ASSUME NEW i \in DOMAIN text, NEW c \in Words PROVE text[i] = c <=> u[place[i]] = c
  <2>1. c \in Character /\ c \notin Blanks
    BY CharacterKinds DEF Words
  <2>2. u[place[i]] = Spaced(text[i]) /\ text[i] \in Character
    BY <1>1, <1>2
  <2> QED
    BY <2>1, <2>2, CharacterKinds
<1>5. ASSUME NEW i \in DOMAIN text, NEW j \in DOMAIN text
      PROVE  /\ place[i] < place[j] => i < j
             /\ i < j /\ (text[i] \notin Blanks \/ text[j] \notin Blanks) =>
                    place[i] < place[j]
  <2>1. place[i] \in Nat /\ place[j] \in Nat /\ i \in Nat /\ j \in Nat
    BY <1>1, <1>2
  <2>2. i < j => i \in i .. j /\ j \in i .. j
    BY <2>1
  <2>3. i < j => /\ place[i] <= place[j]
                 /\ place[i] = place[j] <=> \A m \in i .. j : text[m] \in Blanks
    BY DEF Traced
  <2>4. j < i => place[j] <= place[i]
    BY DEF Traced
  <2> QED
    BY <2>1, <2>2, <2>3, <2>4
<1>6. \A k \in DOMAIN u : \E i \in DOMAIN text : place[i] = k
  BY DEF Traced
<1> QED
  BY <1>2, <1>3, <1>4, <1>5, <1>6

\* Nor does it make or undo two words: a run of blanks leaves one space between
\* them, and only a run of blanks does.
LEMMA CollapseKeepsTwo ==
    ASSUME NEW text \in Seq(Character), NEW c \in Words, NEW d \in Words
    PROVE  TwoWords(text, c, d) <=> TwoWords(Collapse(text), c, d)
<1> DEFINE u == Collapse(text)
<1>1. u \in Seq(Character)
  BY CollapseTraced
<1>2. PICK place : Traced(text, u, place)
  BY CollapseTraced
<1> HIDE DEF u
<1>3. c \notin Blanks /\ d \notin Blanks
  BY CharacterKinds
<1>4. /\ \A i \in DOMAIN text : i \in Nat
      /\ \A k \in DOMAIN u : k \in Nat
      /\ DOMAIN text = 1 .. Len(text) /\ Len(text) \in Nat
      /\ DOMAIN u = 1 .. Len(u) /\ Len(u) \in Nat
  BY <1>1
<1>5. /\ \A i \in DOMAIN text :
            /\ place[i] \in DOMAIN u
            /\ text[i] \in Blanks <=> u[place[i]] \in Blanks
            /\ text[i] \in BoundaryPunctuation <=> u[place[i]] \in BoundaryPunctuation
            /\ text[i] = c <=> u[place[i]] = c
            /\ text[i] = d <=> u[place[i]] = d
      /\ \A k \in DOMAIN u : \E i \in DOMAIN text : place[i] = k
      /\ \A i, j \in DOMAIN text :
            /\ place[i] < place[j] => i < j
            /\ i < j /\ (text[i] \notin Blanks \/ text[j] \notin Blanks) =>
                   place[i] < place[j]
  BY <1>1, <1>2, TraceFacts
<1>6. ASSUME TwoWords(text, c, d) PROVE TwoWords(u, c, d)
  <2>1. PICK i \in DOMAIN text, j \in DOMAIN text :
            /\ i + 1 < j /\ text[i] = c /\ text[j] = d
            /\ \A k \in DOMAIN text :
                  /\ i < k /\ k < j => text[k] \in Blanks
                  /\ k < i \/ k > j => text[k] \in BoundaryPunctuation
    BY <1>6 DEF TwoWords
  <2>2. /\ place[i] \in DOMAIN u /\ u[place[i]] = c
        /\ place[j] \in DOMAIN u /\ u[place[j]] = d
    BY <1>5, <2>1
  <2>3. i + 1 \in DOMAIN text /\ i < i + 1 /\ i + 1 < j
    BY <1>4, <2>1
  <2>4. place[i] < place[i + 1] /\ place[i + 1] < place[j]
    BY <1>3, <1>5, <2>1, <2>3
  <2>5. place[i] + 1 < place[j]
    BY <1>4, <1>5, <2>3, <2>4
  <2>6. ASSUME NEW k \in DOMAIN u
        PROVE  /\ place[i] < k /\ k < place[j] => u[k] \in Blanks
               /\ k < place[i] \/ k > place[j] => u[k] \in BoundaryPunctuation
    <3>1. PICK m \in DOMAIN text : place[m] = k
      BY <1>5
    <3>2. /\ place[i] < k => i < m
          /\ k < place[j] => m < j
          /\ k < place[i] => m < i
          /\ k > place[j] => m > j
      BY <1>4, <1>5, <3>1
    <3> QED
      BY <1>5, <2>1, <3>1, <3>2
  <2> QED
    BY <2>2, <2>5, <2>6 DEF TwoWords
<1>7. ASSUME TwoWords(u, c, d) PROVE TwoWords(text, c, d)
  <2>1. PICK p \in DOMAIN u, q \in DOMAIN u :
            /\ p + 1 < q /\ u[p] = c /\ u[q] = d
            /\ \A k \in DOMAIN u :
                  /\ p < k /\ k < q => u[k] \in Blanks
                  /\ k < p \/ k > q => u[k] \in BoundaryPunctuation
    BY <1>7 DEF TwoWords
  <2>2. PICK i \in DOMAIN text : place[i] = p
    BY <1>5
  <2>3. PICK j \in DOMAIN text : place[j] = q
    BY <1>5
  <2>4. text[i] = c /\ text[j] = d
    BY <1>5, <2>1, <2>2, <2>3
  <2>5. p + 1 \in DOMAIN u /\ p < p + 1 /\ p + 1 < q
    BY <1>4, <2>1
  <2>6. PICK m \in DOMAIN text : place[m] = p + 1
    BY <1>5, <2>5
  <2>7. i < m /\ m < j
    <3>1. place[i] < place[m] /\ place[m] < place[j]
      BY <2>2, <2>3, <2>5, <2>6
    <3> QED
      BY <1>5, <3>1
  <2>8. i + 1 < j
    BY <1>4, <2>7
  <2>9. ASSUME NEW k \in DOMAIN text
        PROVE  /\ i < k /\ k < j => text[k] \in Blanks
               /\ k < i \/ k > j => text[k] \in BoundaryPunctuation
    <3>1. /\ i < k => p < place[k]
          /\ k < j => place[k] < q
          /\ k < i => place[k] < p
          /\ k > j => place[k] > q
      BY <1>3, <1>4, <1>5, <2>2, <2>3, <2>4
    <3> QED
      BY <1>5, <2>1, <3>1
  <2> QED
    BY <2>4, <2>8, <2>9 DEF TwoWords
<1> QED
  BY <1>6, <1>7 DEF u

(***************************************************************************)
(* What is left in the end.                                                *)
(***************************************************************************)

\* A word between no punctuation stays as it is.
LEMMA LastStagesOne ==
    ASSUME NEW text \in Seq(Character), NEW c \in Words, OneWord(text, c),
           text[1] \notin BoundaryPunctuation,
           text[Len(text)] \notin BoundaryPunctuation
    PROVE  StripOf(Collapse(text), Blanks) = <<c>>
<1> DEFINE u == Collapse(text)
           z == StripOf(u, Blanks)
<1>0. u \in Seq(Character) /\ z \in Seq(Character)
  BY CollapseTraced, Stripped
<1>1. OneWord(u, c) /\ OneWord(z, c)
  BY <1>0, CharacterKinds, CollapseKeepsOne, StripKeepsOne
<1>2. PICK place : Traced(text, u, place)
  BY CollapseTraced
<1>3. PICK offset : Cut(u, z, Blanks, offset)
  BY <1>0, Stripped
<1> HIDE DEF u, z
<1>4. /\ DOMAIN text = 1 .. Len(text) /\ Len(text) \in Nat
      /\ DOMAIN u = 1 .. Len(u) /\ Len(u) \in Nat
      /\ DOMAIN z = 1 .. Len(z) /\ Len(z) \in Nat
  BY <1>0
<1>5. PICK i \in DOMAIN text :
          /\ text[i] = c
          /\ \A k \in DOMAIN text : k # i => text[k] \in BoundaryPunctuation
  BY DEF OneWord
<1>6. 1 \in DOMAIN text /\ Len(text) \in DOMAIN text
  BY <1>4, <1>5
<1>7. i = 1 /\ i = Len(text)
  BY <1>5, <1>6
<1>8. \A k \in DOMAIN text : k = 1
  <2>1. Len(text) = 1
    BY <1>7
  <2> QED
    BY <1>4, <2>1
<1>9. \A k, m \in DOMAIN u : k = m
  BY <1>2, <1>8 DEF Traced
<1>10. PICK k \in DOMAIN z : z[k] = c
  BY <1>1 DEF OneWord
<1>11. \A m \in DOMAIN z : offset + m = offset + k /\ offset \in Nat
  BY <1>3, <1>9, <1>10 DEF Cut
<1>12. \A m \in DOMAIN z : m = k
  BY <1>4, <1>11
<1>13. 1 \in DOMAIN z /\ Len(z) \in DOMAIN z
  BY <1>4, <1>10
<1>14. Len(z) = 1 /\ z[1] = c
  BY <1>10, <1>12, <1>13
<1>15. z = <<c>>
  BY <1>0, <1>14
<1> QED
  BY <1>15 DEF u, z

\* A sequence of three is the tuple of its elements.
LEMMA ThreeLong ==
    ASSUME NEW S, NEW z \in Seq(S), Len(z) = 3, NEW c \in S, NEW b \in S, NEW d \in S,
           z[1] = c, z[2] = b, z[3] = d
    PROVE  z = <<c, b, d>>
OBVIOUS

\* Of two words with blanks between, one space is left between.
LEMMA LastStagesTwo ==
    ASSUME NEW text \in Seq(Character), NEW c \in Words, NEW d \in Words,
           TwoWords(text, c, d),
           text[1] \notin BoundaryPunctuation,
           text[Len(text)] \notin BoundaryPunctuation
    PROVE  StripOf(Collapse(text), Blanks) = <<c, "space", d>>
<1> DEFINE u == Collapse(text)
           z == StripOf(u, Blanks)
<1>0. u \in Seq(Character) /\ z \in Seq(Character)
  BY CollapseTraced, Stripped
<1>1. TwoWords(z, c, d)
  BY <1>0, CharacterKinds, CollapseKeepsTwo, StripKeepsTwo
<1>2. PICK place : Traced(text, u, place)
  BY CollapseTraced
<1>3. PICK offset : Cut(u, z, Blanks, offset)
  BY <1>0, Stripped
<1> HIDE DEF u, z
<1>4. /\ DOMAIN text = 1 .. Len(text) /\ Len(text) \in Nat
      /\ DOMAIN u = 1 .. Len(u) /\ Len(u) \in Nat
      /\ DOMAIN z = 1 .. Len(z) /\ Len(z) \in Nat
      /\ offset \in Nat
  BY <1>0, <1>3 DEF Cut
<1>5. PICK i \in DOMAIN text, j \in DOMAIN text :
          /\ i + 1 < j /\ text[i] = c /\ text[j] = d
          /\ \A k \in DOMAIN text :
                /\ i < k /\ k < j => text[k] \in Blanks
                /\ k < i \/ k > j => text[k] \in BoundaryPunctuation
  BY DEF TwoWords
<1>6. 1 \in DOMAIN text /\ Len(text) \in DOMAIN text
  BY <1>4, <1>5
<1>7. i = 1 /\ j = Len(text)
  <2>1. ~(1 < i) /\ ~(Len(text) > j)
    BY <1>5, <1>6
  <2> QED
    BY <1>4, <2>1
<1>8. \A k \in DOMAIN text : k = 1 \/ k = Len(text) \/ k \in 2 .. (Len(text) - 1)
  BY <1>4
<1>9. 2 \in DOMAIN text /\ 1 < 2 /\ 2 < Len(text)
  BY <1>4, <1>5, <1>7
<1>10. \A k \in 2 .. (Len(text) - 1) : k \in DOMAIN text /\ text[k] \in Blanks
  BY <1>4, <1>5, <1>7
<1>11. \A k \in 2 .. (Len(text) - 1) : place[k] = place[2]
  <2> TAKE k \in 2 .. (Len(text) - 1)
  <2>1. CASE k = 2
    BY <2>1
  <2>2. CASE 2 < k
    <3>1. \A m \in 2 .. k : m \in 2 .. (Len(text) - 1)
      BY <1>4
    <3> QED
      BY <1>2, <1>9, <1>10, <2>2, <3>1 DEF Traced
  <2> QED
    BY <1>4, <2>1, <2>2
<1>12. \A k \in DOMAIN u : k \in {place[1], place[2], place[Len(text)]}
  BY <1>2, <1>8, <1>11 DEF Traced
<1>13. place[1] < place[2] /\ place[2] < place[Len(text)]
  <2>1. text[1] \notin Blanks /\ text[Len(text)] \notin Blanks
    BY CharacterKinds
  <2>2. \A k, m \in DOMAIN text :
            k < m /\ (text[k] \notin Blanks \/ text[m] \notin Blanks) => place[k] < place[m]
    BY <1>0, <1>2, TraceFacts
  <2> QED
    BY <1>6, <1>9, <2>1, <2>2
<1>14. place[1] \in DOMAIN u /\ place[2] \in DOMAIN u /\ place[Len(text)] \in DOMAIN u
  BY <1>2, <1>6, <1>9 DEF Traced
<1>15. place[1] = 1 /\ place[2] = 2 /\ place[Len(text)] = 3 /\ Len(u) = 3
  <2>1. 1 \in DOMAIN u /\ Len(u) \in DOMAIN u
    BY <1>4, <1>14
  <2>2. place[1] = 1 /\ place[Len(text)] = Len(u)
    BY <1>4, <1>12, <1>13, <1>14, <2>1
  <2>3. place[1] + 1 \in DOMAIN u /\ place[2] + 1 \in DOMAIN u
    BY <1>4, <1>13, <1>14
  <2>4. place[2] = 2
    BY <1>4, <1>12, <1>13, <1>14, <2>2, <2>3
  <2>5. place[Len(text)] = 3
    BY <1>4, <1>12, <1>13, <1>14, <2>2, <2>3, <2>4
  <2> QED
    BY <2>2, <2>4, <2>5
<1>16. u[2] = "space"
  <2>1. u[place[2]] = Spaced(text[2])
    BY <1>2, <1>9 DEF Traced
  <2>2. 2 \in 2 .. (Len(text) - 1)
    BY <1>4, <1>9
  <2> QED
    BY <1>10, <1>15, <2>1, <2>2 DEF Spaced
<1>17. PICK p \in DOMAIN z, q \in DOMAIN z : p + 1 < q /\ z[p] = c /\ z[q] = d
  BY <1>1 DEF TwoWords
<1>18. \A k \in DOMAIN z : offset + k \in 1 .. 3 /\ z[k] = u[offset + k]
  BY <1>3, <1>4, <1>15 DEF Cut
<1>19. offset = 0 /\ p = 1 /\ q = 3 /\ Len(z) = 3
  <2>1. offset + p \in 1 .. 3 /\ offset + q \in 1 .. 3
    BY <1>17, <1>18
  <2>2. offset = 0 /\ p = 1 /\ q = 3
    BY <1>4, <1>17, <2>1
  <2>3. Len(z) \in DOMAIN z
    BY <1>4, <1>17
  <2>4. offset + Len(z) \in 1 .. 3
    BY <1>18, <2>3
  <2> QED
    BY <1>4, <1>17, <2>2, <2>4
<1>20. z[2] = "space"
  <2>1. 2 \in DOMAIN z /\ offset + 2 = 2
    BY <1>4, <1>19
  <2> QED
    BY <1>16, <1>18, <2>1
<1>21. z = <<c, "space", d>>
  <2>1. c \in Character /\ "space" \in Character /\ d \in Character
    BY CharacterKinds DEF Words
  <2>2. z[1] = c /\ z[2] = "space" /\ z[3] = d
    BY <1>17, <1>19, <1>20
  <2> QED
    BY <1>0, <1>19, <2>1, <2>2, ThreeLong
<1> QED
  BY <1>21 DEF u, z

\* Lower case keeps the kind of every character.
LEMMA LowerKinds ==
    ASSUME NEW text \in Seq(Character)
    PROVE  /\ Lower(text) \in Seq(Character)
           /\ DOMAIN Lower(text) = DOMAIN text
           /\ \A i \in DOMAIN text :
                 /\ Lower(text)[i] \in Blanks <=> text[i] \in Blanks
                 /\ Lower(text)[i] \in BoundaryPunctuation <=>
                        text[i] \in BoundaryPunctuation
<1>1. /\ DOMAIN text = 1 .. Len(text) /\ Len(text) \in Nat
      /\ \A i \in DOMAIN text : text[i] \in Character
  OBVIOUS
<1>2. \A i \in DOMAIN text : Lower(text)[i] = IF text[i] = "YES" THEN "yes" ELSE text[i]
  BY DEF Lower
<1>3. DOMAIN Lower(text) = DOMAIN text
  BY DEF Lower
<1>4. \A i \in DOMAIN text : Lower(text)[i] \in Character
  BY <1>1, <1>2 DEF Character
<1>5. Lower(text) \in Seq(Character)
  <2>1. Lower(text) = [i \in 1 .. Len(text) |-> Lower(text)[i]]
    BY <1>1, <1>2 DEF Lower
  <2> QED
    BY <1>1, <1>4, <2>1
<1> QED
  BY <1>2, <1>3, <1>5 DEF Blanks, BoundaryPunctuation

\* Every stage of the pipeline is a text.
LEMMA StagesTyped ==
    ASSUME NEW text \in Seq(Character)
    PROVE  LET first == StripOf(Lower(text), Blanks)
               second == Collapse(first)
               bared == StripOf(second, BoundaryPunctuation)
               fourth == Collapse(bared)
           IN  /\ Lower(text) \in Seq(Character) /\ first \in Seq(Character)
               /\ second \in Seq(Character) /\ bared \in Seq(Character)
               /\ fourth \in Seq(Character)
               /\ StripOf(fourth, Blanks) \in Seq(Character)
<1> DEFINE first == StripOf(Lower(text), Blanks)
           second == Collapse(first)
           bared == StripOf(second, BoundaryPunctuation)
           fourth == Collapse(bared)
<1>1. Lower(text) \in Seq(Character)
  BY LowerKinds
<1>2. first \in Seq(Character)
  BY <1>1, Stripped
<1> HIDE DEF first
<1>3. second \in Seq(Character)
  BY <1>2, CollapseTraced
<1> HIDE DEF second
<1>4. bared \in Seq(Character)
  BY <1>3, Stripped
<1> HIDE DEF bared
<1>5. fourth \in Seq(Character)
  BY <1>4, CollapseTraced
<1> HIDE DEF fourth
<1>6. StripOf(fourth, Blanks) \in Seq(Character)
  BY <1>5, Stripped
<1> QED
  BY <1>1, <1>2, <1>3, <1>4, <1>5, <1>6 DEF first, second, bared, fourth

\* The pipeline returns a word exactly for the texts that are that word, whatever
\* punctuation is around it.
LEMMA NormalizesToOne ==
    ASSUME NEW text \in Seq(Character), NEW c \in Words
    PROVE  NormalizeCommand(text) = <<c>> <=> OneWord(Lower(text), c)
<1> DEFINE first == StripOf(Lower(text), Blanks)
           second == Collapse(first)
           bared == StripOf(second, BoundaryPunctuation)
           fourth == Collapse(bared)
           last == StripOf(fourth, Blanks)
<1>1. /\ Lower(text) \in Seq(Character) /\ first \in Seq(Character)
      /\ second \in Seq(Character) /\ bared \in Seq(Character)
      /\ fourth \in Seq(Character) /\ last \in Seq(Character)
  BY StagesTyped
<1>2. NormalizeCommand(text) = last
  BY DEF NormalizeCommand
<1>3. OneWord(Lower(text), c) <=> OneWord(first, c)
  BY <1>1, CharacterKinds, StripKeepsOne
<1>4. OneWord(first, c) <=> OneWord(second, c)
  BY <1>1, CollapseKeepsOne
<1>5. OneWord(second, c) <=> OneWord(bared, c)
  BY <1>1, StripKeepsOne
<1>6. OneWord(bared, c) <=> OneWord(fourth, c)
  BY <1>1, CollapseKeepsOne
<1>7. OneWord(fourth, c) <=> OneWord(last, c)
  BY <1>1, CharacterKinds, StripKeepsOne
<1>8. last = <<c>> => OneWord(last, c)
  BY DEF OneWord
<1>9. ASSUME OneWord(bared, c) PROVE last = <<c>>
  <2>1. bared # << >>
    BY <1>9 DEF OneWord
  <2>2. PICK offset : Cut(second, bared, BoundaryPunctuation, offset)
    BY <1>1, Stripped
  <2>3. bared[1] \notin BoundaryPunctuation /\ bared[Len(bared)] \notin BoundaryPunctuation
    BY <2>1, <2>2 DEF Cut
  <2> HIDE DEF bared
  <2> QED
    BY <1>1, <1>9, <2>3, LastStagesOne
<1> QED
  BY <1>2, <1>3, <1>4, <1>5, <1>6, <1>7, <1>8, <1>9

\* It returns two words and a space exactly for the texts that are those words,
\* whatever blanks are between them and whatever punctuation is around.
LEMMA NormalizesToTwo ==
    ASSUME NEW text \in Seq(Character), NEW c \in Words, NEW d \in Words
    PROVE  NormalizeCommand(text) = <<c, "space", d>> <=> TwoWords(Lower(text), c, d)
<1> DEFINE first == StripOf(Lower(text), Blanks)
           second == Collapse(first)
           bared == StripOf(second, BoundaryPunctuation)
           fourth == Collapse(bared)
           last == StripOf(fourth, Blanks)
<1>1. /\ Lower(text) \in Seq(Character) /\ first \in Seq(Character)
      /\ second \in Seq(Character) /\ bared \in Seq(Character)
      /\ fourth \in Seq(Character) /\ last \in Seq(Character)
  BY StagesTyped
<1>2. NormalizeCommand(text) = last
  BY DEF NormalizeCommand
<1>3. TwoWords(Lower(text), c, d) <=> TwoWords(first, c, d)
  BY <1>1, CharacterKinds, StripKeepsTwo
<1>4. TwoWords(first, c, d) <=> TwoWords(second, c, d)
  BY <1>1, CollapseKeepsTwo
<1>5. TwoWords(second, c, d) <=> TwoWords(bared, c, d)
  BY <1>1, StripKeepsTwo
<1>6. TwoWords(bared, c, d) <=> TwoWords(fourth, c, d)
  BY <1>1, CollapseKeepsTwo
<1>7. TwoWords(fourth, c, d) <=> TwoWords(last, c, d)
  BY <1>1, CharacterKinds, StripKeepsTwo
<1>8. last = <<c, "space", d>> => TwoWords(last, c, d)
  <2>1. TwoWords(<<c, "space", d>>, c, d)
    <3> DEFINE z == <<c, "space", d>>
    <3>1. DOMAIN z = {1, 2, 3} /\ z[1] = c /\ z[2] = "space" /\ z[3] = d
      OBVIOUS
    <3>2. "space" \in Blanks
      BY CharacterKinds
    <3> HIDE DEF z
    <3>3. \A k \in DOMAIN z : /\ 1 < k /\ k < 3 => z[k] \in Blanks
                              /\ k < 1 \/ k > 3 => z[k] \in BoundaryPunctuation
      BY <3>1, <3>2
    <3>4. 1 \in DOMAIN z /\ 3 \in DOMAIN z /\ 1 + 1 < 3
      BY <3>1
    <3>5. TwoWords(z, c, d)
      BY <3>1, <3>3, <3>4 DEF TwoWords
    <3> QED
      BY <3>5 DEF z
  <2> HIDE DEF last
  <2> QED
    BY <2>1
<1>9. ASSUME TwoWords(bared, c, d) PROVE last = <<c, "space", d>>
  <2>1. bared # << >>
    BY <1>9 DEF TwoWords
  <2>2. PICK offset : Cut(second, bared, BoundaryPunctuation, offset)
    BY <1>1, Stripped
  <2>3. bared[1] \notin BoundaryPunctuation /\ bared[Len(bared)] \notin BoundaryPunctuation
    BY <2>1, <2>2 DEF Cut
  <2> HIDE DEF bared
  <2> QED
    BY <1>1, <1>9, <2>3, LastStagesTwo
<1> QED
  BY <1>2, <1>3, <1>4, <1>5, <1>6, <1>7, <1>8, <1>9

(***************************************************************************)
(* What SameWords says of a command of one and of two words.               *)
(***************************************************************************)

\* What SameWords names locally.
Letters(text) == {i \in DOMAIN text : text[i] \notin Blanks}
RankOf(text, i) == Cardinality({j \in Letters(text) : j <= i})

\* Two things are two.
LEMMA PairSize ==
    ASSUME NEW a, NEW b, a # b
    PROVE  Cardinality({a, b}) = 2 /\ IsFiniteSet({a, b})
<1>1. IsFiniteSet({a}) /\ Cardinality({a}) = 1
  BY FS_Singleton
<1>2. {a, b} = {a} \cup {b}
  OBVIOUS
<1> QED
  BY <1>1, <1>2, FS_AddElement

\* A text has finitely many letters.
LEMMA LettersFinite ==
    ASSUME NEW text \in Seq(Character) PROVE IsFiniteSet(Letters(text))
<1>1. IsFiniteSet(1 .. Len(text))
  BY FS_Interval
<1>2. Letters(text) \subseteq 1 .. Len(text)
  BY DEF Letters
<1> QED
  BY <1>1, <1>2, FS_Subset

\* SameWords with its local definitions named.
LEMMA SameWordsExpanded ==
    ASSUME NEW text, NEW command
    PROVE  SameWords(text, command) <=>
             /\ Cardinality(Letters(text)) = Cardinality(Letters(command))
             /\ \A i \in Letters(text), j \in Letters(command) :
                   RankOf(text, i) = RankOf(command, j) =>
                       /\ Lower(text)[i] = command[j]
                       /\ RankOf(text, i) > 1 =>
                              (i > 1 /\ text[i - 1] \in Blanks <=>
                               j > 1 /\ command[j - 1] \in Blanks)
BY DEF SameWords, Letters, RankOf

\* A text that begins and ends with a letter, against a command of one word.
LEMMA SameAsOne ==
    ASSUME NEW text \in Seq(Character), text # << >>,
           text[1] \notin Blanks, text[Len(text)] \notin Blanks, NEW c \in Words
    PROVE  SameWords(text, <<c>>) <=> Len(text) = 1 /\ Lower(text)[1] = c
<1>1. DOMAIN text = 1 .. Len(text) /\ Len(text) \in Nat /\ Len(text) > 0
  OBVIOUS
<1>2. Letters(<<c>>) = {1} /\ Cardinality({1}) = 1
  <2>0. c \notin Blanks
    BY CharacterKinds
  <2>1. DOMAIN <<c>> = {1} /\ <<c>>[1] = c
    OBVIOUS
  <2>2. Letters(<<c>>) = {1}
    BY <2>0, <2>1 DEF Letters
  <2> QED
    BY <2>2, FS_Singleton
<1>3. {j \in {1} : j <= 1} = {1}
  OBVIOUS
<1>4. RankOf(<<c>>, 1) = 1
  BY <1>2, <1>3 DEF RankOf
<1>5. 1 \in Letters(text) /\ Len(text) \in Letters(text)
  BY <1>1 DEF Letters
<1>6. ASSUME SameWords(text, <<c>>) PROVE Len(text) = 1 /\ Lower(text)[1] = c
  <2>1. Cardinality(Letters(text)) = 1
    BY <1>2, <1>6, SameWordsExpanded
  <2>2. PICK x : Letters(text) = {x}
    BY <2>1, LettersFinite, FS_Singleton
  <2>3. Letters(text) = {1} /\ Len(text) = 1
    BY <1>5, <2>2
  <2>4. RankOf(text, 1) = 1
    BY <1>2, <1>3, <2>3 DEF RankOf
  <2>5. Lower(text)[1] = <<c>>[1]
    BY <1>2, <1>4, <1>6, <2>3, <2>4, SameWordsExpanded
  <2> QED
    BY <2>3, <2>5
<1>7. ASSUME Len(text) = 1, Lower(text)[1] = c PROVE SameWords(text, <<c>>)
  <2>1. Letters(text) = {1}
    BY <1>1, <1>5, <1>7 DEF Letters
  <2>2. RankOf(text, 1) = 1
    BY <1>2, <1>3, <2>1 DEF RankOf
  <2>3. \A i \in Letters(text), j \in Letters(<<c>>) :
            /\ Lower(text)[i] = <<c>>[j]
            /\ ~(RankOf(text, i) > 1)
    BY <1>2, <1>7, <2>1, <2>2
  <2> QED
    BY <1>2, <2>1, <2>3, SameWordsExpanded
<1> QED
  BY <1>6, <1>7

\* The same against a command of two words.
LEMMA SameAsTwo ==
    ASSUME NEW text \in Seq(Character), text # << >>,
           text[1] \notin Blanks, text[Len(text)] \notin Blanks,
           NEW c \in Words, NEW d \in Words
    PROVE  SameWords(text, <<c, "space", d>>) <=>
             /\ Len(text) > 2
             /\ Lower(text)[1] = c /\ Lower(text)[Len(text)] = d
             /\ \A k \in 2 .. (Len(text) - 1) : text[k] \in Blanks
<1> DEFINE N == Len(text)
           command == <<c, "space", d>>
<1>1. /\ DOMAIN text = 1 .. N /\ N \in Nat /\ N > 0
      /\ text[1] \notin Blanks /\ text[N] \notin Blanks
  OBVIOUS
<1> HIDE DEF N
<1>2. /\ command[1] = c /\ command[2] = "space" /\ command[3] = d
      /\ DOMAIN command = {1, 2, 3}
  OBVIOUS
<1> HIDE DEF command
<1>3. Letters(command) = {1, 3} /\ Cardinality({1, 3}) = 2
  <2>1. command[1] \notin Blanks /\ command[2] \in Blanks /\ command[3] \notin Blanks
    BY <1>2, CharacterKinds
  <2>2. Letters(command) = {1, 3}
    BY <1>2, <2>1 DEF Letters
  <2>3. 1 # 3
    OBVIOUS
  <2> QED
    BY <2>2, <2>3, PairSize
<1>4. Cardinality({1}) = 1
  BY FS_Singleton
<1>5. {j \in {1, 3} : j <= 1} = {1} /\ {j \in {1, 3} : j <= 3} = {1, 3}
  OBVIOUS
<1>6. RankOf(command, 1) = 1 /\ RankOf(command, 3) = 2
  BY <1>3, <1>4, <1>5 DEF RankOf
<1>7. 1 \in Letters(text) /\ N \in Letters(text)
  BY <1>1 DEF Letters
<1>8. ASSUME Letters(text) = {1, N}, N > 1
      PROVE  RankOf(text, 1) = 1 /\ RankOf(text, N) = 2 /\ Cardinality(Letters(text)) = 2
  <2>1. {j \in {1, N} : j <= 1} = {1} /\ {j \in {1, N} : j <= N} = {1, N}
    BY <1>1, <1>8
  <2>2. Cardinality({1, N}) = 2
    <3>1. 1 # N
      BY <1>8
    <3> QED
      BY <3>1, PairSize
  <2> QED
    BY <1>4, <1>8, <2>1, <2>2 DEF RankOf
<1>9. ASSUME SameWords(text, command)
      PROVE  /\ N > 2 /\ Lower(text)[1] = c /\ Lower(text)[N] = d
             /\ \A k \in 2 .. (N - 1) : text[k] \in Blanks
  <2>1. Cardinality(Letters(text)) = 2
    BY <1>3, <1>9, SameWordsExpanded
  <2>2. N # 1
    <3>1. ASSUME N = 1 PROVE FALSE
      <4>1. Letters(text) = {1}
        BY <1>1, <1>7, <3>1 DEF Letters
      <4> QED
        BY <1>4, <2>1, <4>1
    <3> QED
      BY <3>1
  <2>3. Letters(text) = {1, N}
    <3>1. Cardinality({1, N}) = 2 /\ {1, N} \in SUBSET Letters(text)
      <4>1. 1 # N
        BY <2>2
      <4> QED
        BY <1>7, <4>1, PairSize
    <3> QED
      BY <2>1, <3>1, LettersFinite, FS_Subset
  <2>4. RankOf(text, 1) = 1 /\ RankOf(text, N) = 2
    BY <1>1, <1>8, <2>2, <2>3
  <2>5. Lower(text)[1] = command[1]
    BY <1>3, <1>6, <1>9, <2>3, <2>4, SameWordsExpanded
  <2>6. /\ Lower(text)[N] = command[3]
        /\ 2 > 1 => (N > 1 /\ text[N - 1] \in Blanks <=> 3 > 1 /\ command[3 - 1] \in Blanks)
    BY <1>3, <1>6, <1>9, <2>3, <2>4, SameWordsExpanded
  <2>7. text[N - 1] \in Blanks
    <3>1. 3 - 1 = 2 /\ command[2] \in Blanks
      BY <1>2, CharacterKinds
    <3> QED
      BY <2>6, <3>1
  <2>8. N # 2
    <3>1. N = 2 => N - 1 = 1
      OBVIOUS
    <3> QED
      BY <1>1, <2>7, <3>1
  <2>9. ASSUME NEW k \in 2 .. (N - 1) PROVE text[k] \in Blanks
    <3>1. k \in DOMAIN text /\ k \notin {1, N}
      BY <1>1
    <3> QED
      BY <2>3, <3>1 DEF Letters
  <2>10. N > 2
    BY <1>1, <2>2, <2>8
  <2> QED
    BY <1>2, <2>5, <2>6, <2>9, <2>10
<1>10. ASSUME N > 2, Lower(text)[1] = c, Lower(text)[N] = d,
              \A k \in 2 .. (N - 1) : text[k] \in Blanks
       PROVE  SameWords(text, command)
  <2>1. Letters(text) = {1, N}
    <3>1. \A k \in DOMAIN text : k = 1 \/ k = N \/ k \in 2 .. (N - 1)
      BY <1>1
    <3>2. Letters(text) \subseteq {1, N}
      BY <1>10, <3>1 DEF Letters
    <3> QED
      BY <1>7, <3>2
  <2>2. RankOf(text, 1) = 1 /\ RankOf(text, N) = 2 /\ Cardinality(Letters(text)) = 2
    BY <1>1, <1>8, <1>10, <2>1
  <2>3. N - 1 \in 2 .. (N - 1)
    BY <1>1, <1>10
  <2>4. text[N - 1] \in Blanks /\ command[3 - 1] \in Blanks
    <3>1. 3 - 1 = 2 /\ command[2] \in Blanks
      BY <1>2, CharacterKinds
    <3> QED
      BY <1>10, <2>3, <3>1
  <2>5. ASSUME NEW i \in Letters(text), NEW j \in Letters(command),
               RankOf(text, i) = RankOf(command, j)
        PROVE  /\ Lower(text)[i] = command[j]
               /\ RankOf(text, i) > 1 =>
                      (i > 1 /\ text[i - 1] \in Blanks <=>
                       j > 1 /\ command[j - 1] \in Blanks)
    <3>1. CASE i = 1
      <4>1. j = 1
        BY <1>3, <1>6, <2>2, <2>5, <3>1
      <4>2. ~(RankOf(text, i) > 1)
        BY <2>2, <3>1
      <4> QED
        BY <1>2, <1>10, <3>1, <4>1, <4>2
    <3>2. CASE i = N
      <4>1. j = 3
        BY <1>3, <1>6, <2>2, <2>5, <3>2
      <4>2. Lower(text)[i] = command[j]
        BY <1>2, <1>10, <3>2, <4>1
      <4>3. i > 1 /\ text[i - 1] \in Blanks
        BY <1>1, <1>10, <2>4, <3>2
      <4>4. j > 1 /\ command[j - 1] \in Blanks
        BY <2>4, <4>1
      <4> QED
        BY <4>2, <4>3, <4>4
    <3> QED
      BY <2>1, <3>1, <3>2
  <2> QED
    BY <1>3, <2>2, <2>5, SameWordsExpanded
<1> QED
  BY <1>9, <1>10 DEF command, N

(***************************************************************************)
(* Saying a command.                                                       *)
(***************************************************************************)

\* A part of a text, and the same part of it in lower case.
LEMMA PartOf ==
    ASSUME NEW text \in Seq(Character), NEW first \in DOMAIN text,
           NEW last \in DOMAIN text, first <= last
    PROVE  LET part == SubSeq(text, first, last) IN
           /\ part \in Seq(Character) /\ Len(part) = last - first + 1 /\ part # << >>
           /\ \A k \in 1 .. (last - first + 1) :
                 /\ part[k] = text[first + k - 1]
                 /\ first + k - 1 \in DOMAIN text
                 /\ Lower(part)[k] = Lower(text)[first + k - 1]
<1> DEFINE part == SubSeq(text, first, last)
<1>1. /\ DOMAIN text = 1 .. Len(text) /\ Len(text) \in Nat
      /\ \A i \in DOMAIN text : text[i] \in Character
  OBVIOUS
<1>2. \A i \in first .. last : i \in DOMAIN text
  BY <1>1
<1>3. /\ part \in Seq(Character) /\ Len(part) = last - first + 1
      /\ \A k \in 1 .. (last - first + 1) : part[k] = text[first + k - 1]
  BY <1>1, <1>2, SubSeqProperties
<1> HIDE DEF part
<1>4. DOMAIN part = 1 .. (last - first + 1) /\ part # << >>
  BY <1>1, <1>3
<1>5. \A k \in 1 .. (last - first + 1) : first + k - 1 \in DOMAIN text
  BY <1>1
<1>6. \A k \in 1 .. (last - first + 1) :
          Lower(part)[k] = Lower(text)[first + k - 1]
  BY <1>3, <1>4, <1>5 DEF Lower
<1> QED
  BY <1>3, <1>4, <1>5, <1>6 DEF part

\* A text says a command of one word exactly if it is that word.
LEMMA SaysOne ==
    ASSUME NEW text \in Seq(Character), NEW c \in Words
    PROVE  Says(text, <<c>>) <=> OneWord(Lower(text), c)
<1>1. /\ DOMAIN text = 1 .. Len(text) /\ Len(text) \in Nat
      /\ DOMAIN Lower(text) = DOMAIN text
      /\ \A i \in DOMAIN text : Lower(text)[i] \in BoundaryPunctuation <=>
                                    text[i] \in BoundaryPunctuation
  BY LowerKinds
<1>2. ASSUME NEW first \in DOMAIN text, NEW last \in DOMAIN text, first <= last,
             {text[first], text[last]} \cap BoundaryPunctuation = {}
      PROVE  SameWords(SubSeq(text, first, last), <<c>>) <=>
                 first = last /\ Lower(text)[first] = c
  <2> DEFINE part == SubSeq(text, first, last)
  <2>1. /\ part \in Seq(Character) /\ Len(part) = last - first + 1 /\ part # << >>
        /\ \A k \in 1 .. (last - first + 1) :
              /\ part[k] = text[first + k - 1]
              /\ Lower(part)[k] = Lower(text)[first + k - 1]
    BY <1>2, PartOf
  <2> HIDE DEF part
  <2>2. /\ 1 \in 1 .. (last - first + 1) /\ last - first + 1 \in 1 .. (last - first + 1)
        /\ first + 1 - 1 = first /\ first + (last - first + 1) - 1 = last
        /\ last - first + 1 = 1 <=> first = last
    BY <1>1, <1>2
  <2>3. /\ part[1] = text[first] /\ part[Len(part)] = text[last]
        /\ Lower(part)[1] = Lower(text)[first]
    <3>1. /\ part[1] = text[first + 1 - 1] /\ Lower(part)[1] = Lower(text)[first + 1 - 1]
          /\ part[last - first + 1] = text[first + (last - first + 1) - 1]
      BY <2>1, <2>2
    <3> QED
      BY <2>1, <2>2, <3>1
  <2>4. part[1] \notin Blanks /\ part[Len(part)] \notin Blanks
    BY <1>2, <2>3, CharacterKinds
  <2>5. SameWords(part, <<c>>) <=> Len(part) = 1 /\ Lower(part)[1] = c
    BY <2>1, <2>4, SameAsOne
  <2> QED
    BY <2>1, <2>2, <2>3, <2>5 DEF part
<1>3. ASSUME Says(text, <<c>>) PROVE OneWord(Lower(text), c)
  <2>1. PICK first \in DOMAIN text, last \in DOMAIN text :
            /\ first <= last
            /\ \A i \in DOMAIN text \ (first .. last) : text[i] \in BoundaryPunctuation
            /\ {text[first], text[last]} \cap BoundaryPunctuation = {}
            /\ SameWords(SubSeq(text, first, last), <<c>>)
    BY <1>3 DEF Says
  <2>2. first = last /\ Lower(text)[first] = c
    BY <1>2, <2>1
  <2>3. \A i \in DOMAIN text : i # first => i \notin first .. last
    BY <1>1, <2>2
  <2> QED
    BY <1>1, <2>1, <2>2, <2>3 DEF OneWord
<1>4. ASSUME OneWord(Lower(text), c) PROVE Says(text, <<c>>)
  <2>1. PICK i \in DOMAIN text :
            /\ Lower(text)[i] = c
            /\ \A k \in DOMAIN text : k # i => text[k] \in BoundaryPunctuation
    BY <1>1, <1>4 DEF OneWord
  <2>2. text[i] \notin BoundaryPunctuation
    BY <1>1, <2>1, CharacterKinds
  <2>3. i <= i /\ i \in i .. i
    BY <1>1
  <2>4. SameWords(SubSeq(text, i, i), <<c>>)
    BY <1>2, <2>1, <2>2, <2>3
  <2>5. \A k \in DOMAIN text \ (i .. i) : text[k] \in BoundaryPunctuation
    BY <2>1, <2>3
  <2> QED
    BY <2>2, <2>3, <2>4, <2>5 DEF Says
<1> QED
  BY <1>3, <1>4

\* A text says a command of two words exactly if it is those words.
LEMMA SaysTwo ==
    ASSUME NEW text \in Seq(Character), NEW c \in Words, NEW d \in Words
    PROVE  Says(text, <<c, "space", d>>) <=> TwoWords(Lower(text), c, d)
<1> DEFINE command == <<c, "space", d>>
           low == Lower(text)
<1>1. /\ DOMAIN text = 1 .. Len(text) /\ Len(text) \in Nat
      /\ DOMAIN low = DOMAIN text
      /\ \A i \in DOMAIN text :
            /\ low[i] \in BoundaryPunctuation <=> text[i] \in BoundaryPunctuation
            /\ low[i] \in Blanks <=> text[i] \in Blanks
  BY LowerKinds
<1>2. ASSUME NEW first \in DOMAIN text, NEW last \in DOMAIN text, first <= last,
             {text[first], text[last]} \cap BoundaryPunctuation = {}
      PROVE  SameWords(SubSeq(text, first, last), command) <=>
                 /\ first + 1 < last /\ low[first] = c /\ low[last] = d
                 /\ \A k \in DOMAIN text : first < k /\ k < last => text[k] \in Blanks
  <2> DEFINE part == SubSeq(text, first, last)
             N == last - first + 1
  <2>1. /\ part \in Seq(Character) /\ Len(part) = N /\ part # << >>
        /\ \A k \in 1 .. N : /\ part[k] = text[first + k - 1]
                             /\ Lower(part)[k] = low[first + k - 1]
    BY <1>2, PartOf
  <2> HIDE DEF part
  <2>2. /\ 1 \in 1 .. N /\ N \in 1 .. N
        /\ first + 1 - 1 = first /\ first + N - 1 = last
        /\ N > 2 <=> first + 1 < last
    BY <1>1, <1>2
  <2>3. /\ part[1] = text[first] /\ part[N] = text[last]
        /\ Lower(part)[1] = low[first] /\ Lower(part)[N] = low[last]
    <3>1. /\ part[1] = text[first + 1 - 1] /\ Lower(part)[1] = low[first + 1 - 1]
          /\ part[N] = text[first + N - 1] /\ Lower(part)[N] = low[first + N - 1]
      BY <2>1, <2>2
    <3> QED
      BY <2>2, <3>1
  <2>4. part[1] \notin Blanks /\ part[Len(part)] \notin Blanks
    BY <1>2, <2>1, <2>3, CharacterKinds
  <2>5. SameWords(part, command) <=>
            /\ Len(part) > 2
            /\ Lower(part)[1] = c /\ Lower(part)[Len(part)] = d
            /\ \A k \in 2 .. (Len(part) - 1) : part[k] \in Blanks
    BY <2>1, <2>4, SameAsTwo
  <2>6. (\A k \in 2 .. (N - 1) : part[k] \in Blanks) <=>
            (\A k \in DOMAIN text : first < k /\ k < last => text[k] \in Blanks)
    <3>1. ASSUME \A k \in 2 .. (N - 1) : part[k] \in Blanks,
                 NEW k \in DOMAIN text, first < k, k < last
          PROVE  text[k] \in Blanks
      <4>1. /\ k - first + 1 \in 2 .. (N - 1) /\ k - first + 1 \in 1 .. N
            /\ first + (k - first + 1) - 1 = k
        BY <1>1, <3>1
      <4>2. part[k - first + 1] = text[first + (k - first + 1) - 1]
        BY <2>1, <4>1
      <4> QED
        BY <3>1, <4>1, <4>2
    <3>2. ASSUME \A k \in DOMAIN text : first < k /\ k < last => text[k] \in Blanks,
                 NEW k \in 2 .. (N - 1)
          PROVE  part[k] \in Blanks
      <4>1. /\ first + k - 1 \in DOMAIN text /\ first < first + k - 1
            /\ first + k - 1 < last /\ k \in 1 .. N
        BY <1>1, <1>2, <3>2
      <4> QED
        BY <2>1, <3>2, <4>1
    <3> QED
      BY <3>1, <3>2
  <2> HIDE DEF N, command, low
  <2> QED
    BY <2>1, <2>2, <2>3, <2>5, <2>6 DEF part
<1> HIDE DEF command
<1>3. ASSUME Says(text, command) PROVE TwoWords(low, c, d)
  <2>1. PICK first \in DOMAIN text, last \in DOMAIN text :
            /\ first <= last
            /\ \A i \in DOMAIN text \ (first .. last) : text[i] \in BoundaryPunctuation
            /\ {text[first], text[last]} \cap BoundaryPunctuation = {}
            /\ SameWords(SubSeq(text, first, last), command)
    BY <1>3 DEF Says
  <2>2. /\ first + 1 < last /\ low[first] = c /\ low[last] = d
        /\ \A k \in DOMAIN text : first < k /\ k < last => text[k] \in Blanks
    BY <1>2, <2>1
  <2>3. \A k \in DOMAIN text : k < first \/ k > last => k \notin first .. last
    BY <1>1
  <2> HIDE DEF low
  <2>4. \A k \in DOMAIN low :
            /\ first < k /\ k < last => low[k] \in Blanks
            /\ k < first \/ k > last => low[k] \in BoundaryPunctuation
    BY <1>1, <2>1, <2>2, <2>3
  <2> QED
    BY <1>1, <2>2, <2>4 DEF TwoWords
<1>4. ASSUME TwoWords(low, c, d) PROVE Says(text, command)
  <2> HIDE DEF low
  <2>1. PICK i \in DOMAIN text, j \in DOMAIN text :
            /\ i + 1 < j /\ low[i] = c /\ low[j] = d
            /\ \A k \in DOMAIN text :
                  /\ i < k /\ k < j => low[k] \in Blanks
                  /\ k < i \/ k > j => low[k] \in BoundaryPunctuation
    BY <1>1, <1>4 DEF TwoWords
  <2>2. text[i] \notin BoundaryPunctuation /\ text[j] \notin BoundaryPunctuation
    BY <1>1, <2>1, CharacterKinds
  <2>3. i <= j
    BY <1>1, <2>1
  <2>4. \A k \in DOMAIN text : i < k /\ k < j => text[k] \in Blanks
    BY <1>1, <2>1
  <2>5. SameWords(SubSeq(text, i, j), command)
    BY <1>2, <2>1, <2>2, <2>3, <2>4 DEF low
  <2>6. \A k \in DOMAIN text \ (i .. j) : text[k] \in BoundaryPunctuation
    <3>1. \A k \in DOMAIN text \ (i .. j) : k < i \/ k > j
      BY <1>1
    <3> QED
      BY <1>1, <2>1, <3>1
  <2>7. {text[i], text[j]} \cap BoundaryPunctuation = {}
    BY <2>2
  <2> QED
    BY <2>3, <2>5, <2>6, <2>7 DEF Says
<1> QED
  BY <1>3, <1>4 DEF command, low

\* A text is in a list exactly if it says a command of the list.
LEMMA CommandsSaid ==
    ASSUME NEW text \in Seq(Character)
    PROVE  /\ NormalizeCommand(text) \in CONFIRM_COMMANDS <=>
                  \E command \in CONFIRM_COMMANDS : Says(text, command)
           /\ NormalizeCommand(text) \in REJECT_COMMANDS <=>
                  \E command \in REJECT_COMMANDS : Says(text, command)
           /\ NormalizeCommand(text) \in CANCEL_COMMANDS <=>
                  \E command \in CANCEL_COMMANDS : Says(text, command)
<1>1. "yes" \in Words /\ "not" \in Words /\ "cancel" \in Words
  BY DEF Words, Character, BoundaryPunctuation, Blanks
<1>2. NormalizeCommand(text) = <<"yes">> <=> Says(text, <<"yes">>)
  BY <1>1, NormalizesToOne, SaysOne
<1>3. NormalizeCommand(text) = <<"cancel">> <=> Says(text, <<"cancel">>)
  BY <1>1, NormalizesToOne, SaysOne
<1>4. NormalizeCommand(text) = <<"not", "space", "yes">> <=>
          Says(text, <<"not", "space", "yes">>)
  BY <1>1, NormalizesToTwo, SaysTwo
<1> QED
  BY <1>2, <1>3, <1>4 DEF CONFIRM_COMMANDS, REJECT_COMMANDS, CANCEL_COMMANDS

=============================================================================
