------------------------------ MODULE TextsProofs ------------------------------
(***************************************************************************)
(* How texts of any length are read: the last keyword of a review decides, *)
(* and only the word itself approves; the call at the first brace of an    *)
(* output is found, and nothing visible in an output is lost.              *)
(*                                                                         *)
(* What a recursive function computes is settled by the smallest place at  *)
(* which it would be otherwise (LeastNatural).                             *)
(***************************************************************************)
EXTENDS OutputParser, ReviewDecision, FiniteSetTheorems, TLAPS

-----------------------------------------------------------------------------
(* Texts and places in them. *)

Typed == text \in Seq(Pieces)

\* An agent's text is a sequence of pieces however it grows.
THEOREM TextTyped == TextSpec => []Typed
<1>1. TextInit => Typed
  BY DEF TextInit, Typed
<1>2. Typed /\ [TextNext]_text => Typed'
  <2> SUFFICES ASSUME Typed, [TextNext]_text PROVE Typed'
    OBVIOUS
  <2>1. CASE Grow
    <3>1. PICK alphabet \in Alphabets :
              \E p \in alphabet : text' = Append(text, p)
      BY <2>1 DEF Grow
    <3>2. PICK p \in alphabet : text' = Append(text, p)
      BY <3>1
    <3>3. p \in Pieces
      BY TextAssumption DEF TextAssumption
    <3> QED BY <3>2, <3>3 DEF Typed
  <2>2. CASE UNCHANGED text
    BY <2>2 DEF Typed
  <2> QED BY <2>1, <2>2 DEF TextNext, Terminated
<1> QED BY <1>1, <1>2, PTL DEF TextSpec

\* A set of naturals has a least one ...
LEMMA LeastNatural ==
    ASSUME NEW T \in SUBSET Nat, T # {}
    PROVE  \E m \in T : \A k \in T : m <= k
<1> DEFINE Less == {p \in Nat \X Nat : p[1] < p[2]}
<1>1. IsWellFoundedOn(Less, Nat)
  BY NatLessThanWellFounded DEF OpToRel
<1>2. PICK m \in T : \A k \in T : ~(<<k, m>> \in Less)
  <2> HIDE DEF Less
  <2> QED
    BY <1>1, WFMin
<1>3. ASSUME NEW k \in T PROVE m <= k
  <2>1. k \in Nat /\ m \in Nat /\ <<k, m>> \notin Less
    BY <1>2
  <2>2. ~(k < m)
    BY <2>1
  <2> QED
    BY <2>1, <2>2
<1> QED
  BY <1>3

\* ... and a bounded one a greatest, which Max picks.
LEMMA MaxOf ==
    ASSUME NEW n \in Nat, NEW S \in SUBSET (1..n), S # {}
    PROVE  Max(S) \in S /\ \A i \in S : i <= Max(S)
<1> DEFINE Tops == {k \in Nat : \A i \in S : i <= k}
<1>1. n \in Tops
  OBVIOUS
<1>2. PICK m \in Tops : \A k \in Tops : m <= k
  <2>1. Tops \in SUBSET Nat /\ Tops # {}
    BY <1>1
  <2> HIDE DEF Tops
  <2> QED
    BY <2>1, LeastNatural
<1>3. m \in S
  <2> SUFFICES ASSUME m \notin S PROVE FALSE
    OBVIOUS
  <2>1. \A i \in S : i <= m - 1 /\ i >= 1 /\ i \in Nat
    BY <1>2
  <2>2. PICK i \in S : TRUE
    OBVIOUS
  <2>4. m - 1 \in Nat
    BY <1>2, <2>1, <2>2
  <2>3. m - 1 \in Tops
    BY <2>1, <2>4
  <2> QED
    BY <1>2, <2>3
<1> QED
  BY <1>2, <1>3 DEF Max

\* What stands before and after a place.
LEMMA Around ==
    ASSUME NEW s \in Seq(Pieces), NEW i \in 1..Len(s)
    PROVE  /\ Before(s, i) \in Seq(Pieces) /\ Len(Before(s, i)) = i - 1
           /\ \A k \in 1..(i - 1) : Before(s, i)[k] = s[k]
           /\ After(s, i) \in Seq(Pieces) /\ Len(After(s, i)) = Len(s) - i
           /\ \A k \in 1..(Len(s) - i) : After(s, i)[k] = s[i + k]
BY DEF Before, After

-----------------------------------------------------------------------------
(* The decision of a review. *)

LEMMA MatchesAre ==
    ASSUME NEW s \in Seq(Pieces)
    PROVE  /\ Matches(s) \in SUBSET (1..Len(s)) /\ Len(s) \in Nat
           /\ \A i \in 1..Len(s) :
                  i \in Matches(s) <=>
                      /\ s[i] \in Keywords
                      /\ i > 1 => s[i - 1] \notin Words
                      /\ i < Len(s) => s[i + 1] \notin Words
<1>1. DOMAIN s = 1..Len(s) /\ Len(s) \in Nat
  OBVIOUS
<1>2. ASSUME NEW i \in 1..Len(s)
      PROVE  IsWordBoundary(s, i) <=> /\ i > 1 => s[i - 1] \notin Words
                                      /\ i < Len(s) => s[i + 1] \notin Words
  <2>1. i > 1 => i - 1 \in 1..Len(s)
    BY <1>1
  <2>2. i < Len(s) => i + 1 \in 1..Len(s)
    BY <1>1
  <2>3. \A j \in {i - 1, i + 1} \cap 1..Len(s) :
            (j = i - 1 /\ i > 1) \/ (j = i + 1 /\ i < Len(s))
    BY <1>1
  <2> QED BY <1>1, <2>1, <2>2, <2>3 DEF IsWordBoundary
<1> QED BY <1>1, <1>2 DEF Matches

\* The keywords on either side of a space are the keywords of either side.
LEMMA MatchesAfter ==
    ASSUME NEW s \in Seq(Pieces), NEW i \in 1..Len(s), s[i] = "space",
           NEW k \in 1..(Len(s) - i)
    PROVE  k \in Matches(After(s, i)) <=> i + k \in Matches(s)
<1> DEFINE a == After(s, i)
<1>1. /\ a \in Seq(Pieces) /\ Len(a) = Len(s) - i
      /\ \A j \in 1..(Len(s) - i) : a[j] = s[i + j]
      /\ Len(s) \in Nat /\ i \in Nat /\ k \in Nat
  <2>1. Len(s) \in Nat /\ i \in Nat /\ k \in Nat
    OBVIOUS
  <2> QED BY <2>1, Around, Zenon
<1> HIDE DEF a
<1>2. "space" \notin Words
  BY DEF Words, Keywords
<1>3. i + k \in 1..Len(s) /\ a[k] = s[i + k]
  BY <1>1
<1>4. k > 1 => a[k - 1] = s[(i + k) - 1]
  <2>1. k > 1 => k - 1 \in 1..(Len(s) - i) /\ i + (k - 1) = (i + k) - 1
    BY <1>1
  <2> QED BY <1>1, <2>1
<1>5. k < Len(a) => a[k + 1] = s[(i + k) + 1]
  <2>1. k < Len(a) => k + 1 \in 1..(Len(s) - i) /\ i + (k + 1) = (i + k) + 1
    BY <1>1
  <2> QED BY <1>1, <2>1
<1>6. k = 1 => s[(i + k) - 1] = "space"
  <2>1. k = 1 => (i + k) - 1 = i
    BY <1>1
  <2> QED BY <2>1
<1>7. i + k > 1 /\ (i + k < Len(s) <=> k < Len(a)) /\ (k = 1 \/ k > 1)
  BY <1>1
<1>8. k \in Matches(a) <=>
          /\ a[k] \in Keywords
          /\ k > 1 => a[k - 1] \notin Words
          /\ k < Len(a) => a[k + 1] \notin Words
  BY <1>1, MatchesAre
<1>9. i + k \in Matches(s) <=>
          /\ s[i + k] \in Keywords
          /\ i + k > 1 => s[(i + k) - 1] \notin Words
          /\ i + k < Len(s) => s[(i + k) + 1] \notin Words
  BY <1>3, MatchesAre
<1>10. k \in Matches(a) <=> i + k \in Matches(s)
  BY <1>2, <1>3, <1>4, <1>5, <1>6, <1>7, <1>8, <1>9
<1> QED BY <1>10 DEF a

LEMMA MatchesBefore ==
    ASSUME NEW s \in Seq(Pieces), NEW i \in 1..Len(s), s[i] = "space",
           NEW k \in 1..(i - 1)
    PROVE  k \in Matches(Before(s, i)) <=> k \in Matches(s)
<1> DEFINE b == Before(s, i)
<1>1. /\ b \in Seq(Pieces) /\ Len(b) = i - 1
      /\ \A j \in 1..(i - 1) : b[j] = s[j]
      /\ Len(s) \in Nat /\ i \in Nat /\ k \in Nat
  <2>1. Len(s) \in Nat /\ i \in Nat /\ k \in Nat
    OBVIOUS
  <2> QED BY <2>1, Around, Zenon
<1> HIDE DEF b
<1>2. "space" \notin Words
  BY DEF Words, Keywords
<1>3. k \in 1..Len(s) /\ k \in 1..Len(b) /\ b[k] = s[k] /\ k < Len(s)
  BY <1>1
<1>4. k > 1 => b[k - 1] = s[k - 1]
  BY <1>1
<1>5. k < Len(b) => b[k + 1] = s[k + 1]
  BY <1>1
<1>6. ~(k < Len(b)) => s[k + 1] = "space"
  <2>1. ~(k < Len(b)) => k + 1 = i
    BY <1>1
  <2> QED BY <2>1
<1>7. k \in Matches(b) <=>
          /\ b[k] \in Keywords
          /\ k > 1 => b[k - 1] \notin Words
          /\ k < Len(b) => b[k + 1] \notin Words
  BY <1>1, <1>3, MatchesAre
<1>8. k \in Matches(s) <=>
          /\ s[k] \in Keywords
          /\ k > 1 => s[k - 1] \notin Words
          /\ k < Len(s) => s[k + 1] \notin Words
  BY <1>3, MatchesAre
<1>9. k \in Matches(b) <=> k \in Matches(s)
  BY <1>2, <1>3, <1>4, <1>5, <1>6, <1>7, <1>8
<1> QED BY <1>9 DEF b

\* The place that wins is the place of a match that no other follows.
LEMMA WinnerIs ==
    ASSUME NEW s \in Seq(Pieces), NEW m \in Matches(s),
           \A k \in Matches(s) : k <= m
    PROVE  ParseReviewDecision(s) = s[m]
<1>1. Matches(s) \in SUBSET (1..Len(s)) /\ Len(s) \in Nat
  BY MatchesAre
<1>2. Max(Matches(s)) \in Matches(s) /\ m <= Max(Matches(s))
  BY <1>1, MaxOf
<1>3. Max(Matches(s)) = m
  BY <1>1, <1>2
<1> QED BY <1>3 DEF ParseReviewDecision, Winner

\* Whatever the reviewer wrote before, the continuation decides if it can.
THEOREM LastDecides == TextSpec => []LastKeywordWins
<1>1. Typed => LastKeywordWins
  <2> SUFFICES ASSUME text \in Seq(Pieces),
                      NEW i \in 1..Len(text), text[i] = "space"
               PROVE  ParseReviewDecision(text) = ParseReviewDecision(
                          IF Matches(After(text, i)) = {} THEN Before(text, i)
                          ELSE After(text, i))
    BY DEF Typed, LastKeywordWins
  <2> DEFINE a == After(text, i)
             b == Before(text, i)
  <2>1. /\ a \in Seq(Pieces) /\ Len(a) = Len(text) - i
        /\ \A k \in 1..(Len(text) - i) : a[k] = text[i + k]
        /\ b \in Seq(Pieces) /\ Len(b) = i - 1
        /\ \A k \in 1..(i - 1) : b[k] = text[k]
        /\ Len(text) \in Nat /\ i \in Nat
    <3>1. Len(text) \in Nat /\ i \in Nat
      OBVIOUS
    <3> QED BY <3>1, Around, Zenon
  <2>2. /\ Matches(a) \in SUBSET (1..(Len(text) - i))
        /\ Matches(b) \in SUBSET (1..(i - 1))
        /\ Matches(text) \in SUBSET (1..Len(text))
    BY <2>1, MatchesAre
  <2>3. /\ \A k \in 1..(Len(text) - i) :
               k \in Matches(a) <=> i + k \in Matches(text)
        /\ \A k \in 1..(i - 1) : k \in Matches(b) <=> k \in Matches(text)
    BY MatchesAfter, MatchesBefore
  <2>4. i \notin Matches(text)
    BY DEF Matches, Keywords
  <2> HIDE DEF a, b
  <2>5. CASE Matches(a) # {}
    <3>1. /\ Max(Matches(a)) \in Matches(a)
          /\ \A k \in Matches(a) : k <= Max(Matches(a))
      <4>1. Len(text) - i \in Nat
        BY <2>1
      <4> QED BY <2>2, <2>5, <4>1, MaxOf
    <3> DEFINE m == Max(Matches(a))
    <3>2. m \in Matches(a) /\ m \in 1..(Len(text) - i)
          /\ \A k \in Matches(a) : k <= m
      BY <2>2, <3>1
    <3> HIDE DEF m
    <3>3. ParseReviewDecision(a) = a[m]
      BY <2>1, <3>2, WinnerIs
    <3>4. i + m \in Matches(text)
      BY <2>3, <3>2
    <3>5. ASSUME NEW k \in Matches(text) PROVE k <= i + m
      <4>1. CASE k <= i
        BY <2>1, <2>2, <3>2, <4>1
      <4>2. CASE k > i
        <5>1. k - i \in 1..(Len(text) - i) /\ i + (k - i) = k
          BY <2>1, <2>2, <4>2
        <5>2. k - i \in Matches(a)
          BY <2>3, <5>1
        <5>3. k - i <= m
          BY <3>2, <5>2
        <5> QED BY <2>1, <2>2, <3>2, <5>3
      <4> QED BY <2>1, <2>2, <4>1, <4>2
    <3>6. ParseReviewDecision(text) = text[i + m]
      BY <3>4, <3>5, WinnerIs
    <3> QED BY <2>1, <2>5, <3>2, <3>3, <3>6 DEF a
  <2>6. CASE Matches(a) = {}
    <3>1. ASSUME NEW k \in Matches(text) PROVE k \in 1..(i - 1)
      <4>1. CASE k > i
        <5>1. k - i \in 1..(Len(text) - i) /\ i + (k - i) = k
          BY <2>1, <2>2, <4>1
        <5> QED BY <2>3, <2>6, <5>1
      <4> QED BY <2>1, <2>2, <2>4, <4>1
    <3>2. ParseReviewDecision(text) = ParseReviewDecision(b)
      <4>1. CASE Matches(b) = {}
        <5>1. Matches(text) = {}
          BY <2>3, <3>1, <4>1
        <5> QED BY <4>1, <5>1 DEF ParseReviewDecision
      <4>2. CASE Matches(b) # {}
        <5> DEFINE m == Max(Matches(b))
        <5>1. m \in Matches(b) /\ \A k \in Matches(b) : k <= m
          <6>1. i - 1 \in Nat
            BY <2>1
          <6> QED BY <2>2, <4>2, <6>1, MaxOf
        <5> HIDE DEF m
        <5>2. m \in 1..(i - 1) /\ m \in Matches(text) /\ b[m] = text[m]
          BY <2>1, <2>2, <2>3, <5>1
        <5>3. \A k \in Matches(text) : k <= m
          BY <2>3, <3>1, <5>1
        <5>4. ParseReviewDecision(b) = b[m]
          BY <2>1, <5>1, WinnerIs
        <5>5. ParseReviewDecision(text) = text[m]
          BY <5>2, <5>3, WinnerIs
        <5> QED BY <5>2, <5>4, <5>5
      <4> QED BY <4>1, <4>2
    <3> QED BY <2>6, <3>2 DEF a, b
  <2> QED BY <2>5, <2>6
<1> QED BY <1>1, TextTyped, PTL

\* No review approves unless the word approve stands in it, by itself.
THEOREM WordApproves == TextSpec => []ApprovalIsAWord
<1>1. Typed => ApprovalIsAWord
  <2> SUFFICES ASSUME text \in Seq(Pieces),
                      ParseReviewDecision(text) = "approve"
               PROVE  \E i \in DOMAIN text :
                          /\ text[i] = "approve"
                          /\ \A j \in DOMAIN text :
                                 j \in {i - 1, i + 1} => text[j] \notin Words
    BY DEF Typed, ApprovalIsAWord
  <2>1. Matches(text) # {} /\ text[Max(Matches(text))] = "approve"
    BY DEF ParseReviewDecision, Winner
  <2>2. Max(Matches(text)) \in Matches(text)
    BY <2>1, MatchesAre, MaxOf
  <2> QED BY <2>1, <2>2 DEF Matches, IsWordBoundary
<1> QED BY <1>1, TextTyped, PTL

-----------------------------------------------------------------------------
(* The call in an output. *)

\* The recursion of Escaped has a solution: it is extended place by place.
LEMMA EscapedIs ==
    ASSUME NEW s \in Seq(Pieces)
    PROVE  /\ Escaped(s) \in SUBSET (1..Len(s))
           /\ \A i \in 1..Len(s) :
                  i \in Escaped(s) <=>
                      i > 1 /\ s[i - 1] = "esc" /\ (i - 1) \notin Escaped(s)
<1> DEFINE Marks(f, n) ==
             f = [i \in 0..n |-> i > 1 /\ s[i - 1] = "esc" /\ ~f[i - 1]]
           Bad == {n \in Nat : ~\E f : Marks(f, n)}
<1>1. Bad = {}
  <2> SUFFICES ASSUME Bad # {} PROVE FALSE
    OBVIOUS
  <2>1. PICK n \in Bad : \A k \in Bad : n <= k
    <3>1. Bad \in SUBSET Nat
      OBVIOUS
    <3> HIDE DEF Bad
    <3> QED BY <3>1, LeastNatural
  <2>2. n # 0
    <3>1. Marks([i \in 0..0 |-> FALSE], 0)
      <4>1. \A i \in 0..0 : ~(i > 1)
        OBVIOUS
      <4> QED BY <4>1, Zenon
    <3>2. 0 \notin Bad
      BY <3>1, Zenon
    <3> QED BY <2>1, <3>2
  <2>3. n - 1 \in Nat /\ ~(n <= n - 1)
    BY <2>1, <2>2
  <2>4. PICK g : Marks(g, n - 1)
    <3>1. n - 1 \notin Bad
      BY <2>1, <2>3, Zenon
    <3> QED BY <2>3, <3>1, Zenon
  <2> DEFINE f == [i \in 0..n |-> i > 1 /\ s[i - 1] = "esc" /\ ~g[i - 1]]
  <2>5. \A i \in 0..(n - 1) : f[i] = g[i]
    <3>1. 0..(n - 1) \subseteq 0..n
      BY <2>1
    <3>2. \A i \in 0..(n - 1) : g[i] = (i > 1 /\ s[i - 1] = "esc" /\ ~g[i - 1])
      BY <2>4, Zenon
    <3> QED BY <3>1, <3>2, Zenon
  <2>6. \A i \in 0..n : i > 1 => i - 1 \in 0..(n - 1)
    BY <2>1
  <2>7. \A i \in 0..n : (i > 1 /\ s[i - 1] = "esc" /\ ~g[i - 1])
                           = (i > 1 /\ s[i - 1] = "esc" /\ ~f[i - 1])
    BY <2>5, <2>6, Zenon
  <2>8. Marks(f, n)
    BY <2>7, Zenon
  <2> QED BY <2>1, <2>8, Zenon
<1>2. Len(s) \in Nat /\ DOMAIN s = 1..Len(s)
  OBVIOUS
<1>3. \E f : Marks(f, Len(s))
  BY <1>1, <1>2, Zenon
<1> DEFINE e == CHOOSE f : Marks(f, Len(s))
<1>4. Marks(e, Len(s))
  BY <1>3, Zenon
<1>5. Escaped(s) = {i \in DOMAIN s : e[i]}
  BY Zenon DEF Escaped
<1> HIDE DEF e
<1>6. \A i \in 1..Len(s) : i \in 0..Len(s) /\ (i > 1 => i - 1 \in 1..Len(s))
  BY <1>2
<1>7. \A i \in 1..Len(s) : e[i] = (i > 1 /\ s[i - 1] = "esc" /\ ~e[i - 1])
  BY <1>4, <1>6, Zenon
<1> QED BY <1>2, <1>5, <1>6, <1>7, Zenon

\* A run of the scan, however it is found, is what the scan has seen.
LEMMA ScanIs ==
    ASSUME NEW s \in Seq(Pieces), NEW start \in 1..Len(s),
           NEW i \in start..Len(s), NEW run,
           run[start - 1] =
               [depth |-> 0, inString |-> FALSE, escapeNext |-> FALSE],
           \A k \in start..i : run[k] = Scan(run[k - 1], s[k])
    PROVE  Scanned(s, start, i) = run[i]
<1> DEFINE Sees(f) ==
             f = [k \in (start - 1)..i |->
                      IF k < start
                      THEN [depth |-> 0, inString |-> FALSE,
                            escapeNext |-> FALSE]
                      ELSE Scan(f[k - 1], s[k])]
           r == [k \in (start - 1)..i |-> run[k]]
<1>1. /\ start \in Nat /\ i \in Nat /\ start - 1 \in Nat
      /\ \A k \in (start - 1)..i : k < start => k = start - 1
      /\ \A k \in (start - 1)..i : ~(k < start) =>
             k \in start..i /\ k - 1 \in (start - 1)..i /\ k \in Nat
      /\ i \in (start - 1)..i
  OBVIOUS
<1>2. Sees(r)
  <2>1. \A k \in (start - 1)..i :
            r[k] = IF k < start
                   THEN [depth |-> 0, inString |-> FALSE, escapeNext |-> FALSE]
                   ELSE Scan(r[k - 1], s[k])
    BY <1>1, Zenon
  <2> QED BY <2>1, Zenon
<1>3. PICK f : Sees(f) /\ Scanned(s, start, i) = f[i]
  BY <1>2, Zenon DEF Scanned
<1> DEFINE Bad == {k \in (start - 1)..i : f[k] # run[k]}
<1>4. Bad = {}
  <2> SUFFICES ASSUME Bad # {} PROVE FALSE
    OBVIOUS
  <2>1. PICK n \in Bad : \A k \in Bad : n <= k
    <3>1. Bad \in SUBSET Nat
      BY <1>1
    <3> HIDE DEF Bad
    <3> QED BY <3>1, LeastNatural
  <2>2. CASE n < start
    BY <1>1, <1>3, <2>1, <2>2, Zenon
  <2>3. CASE ~(n < start)
    <3>1. n \in start..i /\ n - 1 \in (start - 1)..i /\ ~(n <= n - 1)
      BY <1>1, <2>1, <2>3
    <3>2. f[n - 1] = run[n - 1]
      BY <2>1, <3>1, Zenon
    <3>3. f[n] = Scan(f[n - 1], s[n])
      BY <1>3, <2>1, <2>3, Zenon
    <3> QED BY <2>1, <3>1, <3>2, <3>3, Zenon
  <2> QED BY <2>2, <2>3
<1> QED BY <1>1, <1>3, <1>4, Zenon

\* One turn of the scan, by what it finds.
LEMMA ScanTurns ==
    /\ Scan([depth |-> 0, inString |-> FALSE, escapeNext |-> FALSE], "open") =
           [depth |-> 1, inString |-> TRUE, escapeNext |-> FALSE]
    /\ \A p : \A e \in BOOLEAN :
           p # "open" /\ (p = "quote" => e) =>
               Scan([depth |-> 1, inString |-> TRUE, escapeNext |-> e], p) =
                   [depth |-> 1, inString |-> TRUE,
                    escapeNext |-> p = "esc" /\ ~e]
    /\ Scan([depth |-> 1, inString |-> TRUE, escapeNext |-> FALSE], "quote") =
           [depth |-> 1, inString |-> FALSE, escapeNext |-> FALSE]
    /\ Scan([depth |-> 1, inString |-> FALSE, escapeNext |-> FALSE], "space") =
           [depth |-> 1, inString |-> FALSE, escapeNext |-> FALSE]
    /\ Scan([depth |-> 1, inString |-> FALSE, escapeNext |-> FALSE], "}") =
           [depth |-> 0, inString |-> FALSE, escapeNext |-> FALSE]
<1>1. Scan([depth |-> 0, inString |-> FALSE, escapeNext |-> FALSE], "open") =
          [depth |-> 1, inString |-> TRUE, escapeNext |-> FALSE]
  <2>1. Scan([depth |-> 0, inString |-> FALSE, escapeNext |-> FALSE], "open") =
            [depth |-> 0 + 1, inString |-> TRUE, escapeNext |-> FALSE]
    BY DEF Scan, Opening
  <2> QED BY <2>1
<1>2. ASSUME NEW p, NEW e \in BOOLEAN, p # "open", p = "quote" => e
      PROVE  Scan([depth |-> 1, inString |-> TRUE, escapeNext |-> e], p) =
                 [depth |-> 1, inString |-> TRUE,
                  escapeNext |-> p = "esc" /\ ~e]
  BY <1>2 DEF Scan, Opening
<1>3. Scan([depth |-> 1, inString |-> TRUE, escapeNext |-> FALSE], "quote") =
          [depth |-> 1, inString |-> FALSE, escapeNext |-> FALSE]
  BY DEF Scan, Opening
<1>4. Scan([depth |-> 1, inString |-> FALSE, escapeNext |-> FALSE], "space") =
          [depth |-> 1, inString |-> FALSE, escapeNext |-> FALSE]
  BY DEF Scan, Opening
<1>5. Scan([depth |-> 1, inString |-> FALSE, escapeNext |-> FALSE], "}") =
          [depth |-> 0, inString |-> FALSE, escapeNext |-> FALSE]
  <2>1. Scan([depth |-> 1, inString |-> FALSE, escapeNext |-> FALSE], "}") =
            [depth |-> 1 - 1, inString |-> FALSE, escapeNext |-> FALSE]
    BY DEF Scan, Opening
  <2>2. 1 - 1 = 0
    OBVIOUS
  <2> QED BY <2>1, <2>2, Zenon
<1> QED BY <1>1, <1>2, <1>3, <1>4, <1>5, Zenon

\* The parts of a call that stands in s from start to end: its opening, the
\* string up to the quote at close, white space and the brace.
LEMMA CallParts ==
    ASSUME NEW s \in Seq(Pieces), NEW start \in 1..Len(s),
           NEW end \in start..Len(s), IsCall(SubSeq(s, start, end))
    PROVE  \E u \in Seq(Pieces), close \in (start + 1)..(end - 1) :
               /\ IsString(u) /\ close = (start + Len(u)) + 1
               /\ s[start] = "open" /\ s[close] = "quote" /\ s[end] = "}"
               /\ \A j \in 1..Len(u) : u[j] = s[start + j]
               /\ \A k \in (close + 1)..(end - 1) : s[k] = "space"
<1> DEFINE t == SubSeq(s, start, end)
<1>1. /\ t \in Seq(Pieces) /\ Len(t) = (end - start) + 1
      /\ \A k \in 1..((end - start) + 1) : t[k] = s[(start + k) - 1]
      /\ start \in Nat /\ end \in Nat /\ Len(s) \in Nat
  OBVIOUS
<1>2. PICK n \in 3..Len(t) :
          /\ t[1] = "open" /\ t[n - 1] = "quote" /\ t[Len(t)] = "}"
          /\ IsString(SubSeq(t, 2, n - 2))
          /\ \A i \in n..(Len(t) - 1) : t[i] = "space"
  BY DEF IsCall
<1> HIDE DEF t
<1> DEFINE u == SubSeq(t, 2, n - 2)
           close == (start + n) - 2
<1>3. /\ n \in Nat /\ n >= 3 /\ n <= (end - start) + 1
  <2>1. Len(t) = (end - start) + 1 /\ start \in Nat /\ end \in Nat
    BY <1>1
  <2>2. n \in 3..Len(t)
    OBVIOUS
  <2> QED BY <2>1, <2>2
<1>4. /\ u \in Seq(Pieces) /\ Len(u) = n - 3
      /\ \A j \in 1..(n - 3) : u[j] = t[j + 1]
  BY <1>1, <1>3
<1>5. IsString(u)
  BY <1>2
<1> HIDE DEF u
<1>6. close \in (start + 1)..(end - 1) /\ close = (start + Len(u)) + 1
  BY <1>1, <1>3, <1>4
<1>7. s[start] = "open" /\ s[close] = "quote" /\ s[end] = "}"
  <2>1. /\ 1 \in 1..((end - start) + 1) /\ (start + 1) - 1 = start
        /\ n - 1 \in 1..((end - start) + 1) /\ (start + (n - 1)) - 1 = close
        /\ Len(t) \in 1..((end - start) + 1) /\ (start + Len(t)) - 1 = end
    BY <1>1, <1>3
  <2> HIDE DEF close
  <2>2. t[1] = s[start] /\ t[n - 1] = s[close] /\ t[Len(t)] = s[end]
    BY <1>1, <2>1, Zenon
  <2> QED BY <1>2, <2>2
<1>8. ASSUME NEW j \in 1..Len(u) PROVE u[j] = s[start + j]
  <2>1. /\ j \in 1..(n - 3) /\ j + 1 \in 1..((end - start) + 1)
        /\ (start + (j + 1)) - 1 = start + j
    BY <1>1, <1>3, <1>4
  <2>2. u[j] = t[j + 1] /\ t[j + 1] = s[(start + (j + 1)) - 1]
    BY <1>1, <1>4, <2>1, Zenon
  <2> QED BY <2>1, <2>2, Zenon
<1>9. ASSUME NEW k \in (close + 1)..(end - 1) PROVE s[k] = "space"
  <2> DEFINE i == (k - start) + 1
  <2>1. /\ i \in n..(Len(t) - 1) /\ i \in 1..((end - start) + 1)
        /\ (start + i) - 1 = k
    BY <1>1, <1>3
  <2> HIDE DEF i
  <2>2. t[i] = "space" /\ t[i] = s[(start + i) - 1]
    BY <1>1, <1>2, <2>1, Zenon
  <2> QED BY <2>1, <2>2, Zenon
<1> HIDE DEF close
<1> QED BY <1>4, <1>5, <1>6, <1>7, <1>8, <1>9, Zenon

\* What the scan of a call has seen at place k: its opening and its string up
\* to there, the white space after them, or all of it.
LEMMA CallScanned ==
    ASSUME NEW s \in Seq(Pieces), NEW start \in 1..Len(s),
           NEW end \in start..Len(s), IsCall(SubSeq(s, start, end)),
           NEW i \in start..end
    PROVE  Scanned(s, start, i).depth = IF i < end THEN 1 ELSE 0
<1>1. PICK u \in Seq(Pieces), close \in (start + 1)..(end - 1) :
          /\ IsString(u) /\ close = (start + Len(u)) + 1
          /\ s[start] = "open" /\ s[close] = "quote" /\ s[end] = "}"
          /\ \A j \in 1..Len(u) : u[j] = s[start + j]
          /\ \A k \in (close + 1)..(end - 1) : s[k] = "space"
  BY CallParts
<1>2. /\ Len(u) \in Nat /\ start \in Nat /\ end \in Nat /\ i \in Nat
      /\ Len(s) \in Nat /\ close \in Nat /\ start <= i /\ i <= end
      /\ end <= Len(s) /\ start < close /\ close < end
      /\ close = (start + Len(u)) + 1
  <2>1. close = (start + Len(u)) + 1
    BY <1>1
  <2> QED BY <2>1
<1> DEFINE Escapes(k) == /\ k - start \in 1..Len(u)
                         /\ s[k] = "esc" /\ k - start \notin Escaped(u)
           Acc(d, q, e) == [depth |-> d, inString |-> q, escapeNext |-> e]
           run == [k \in (start - 1)..end |->
                      IF k < start THEN Acc(0, FALSE, FALSE)
                      ELSE IF k < close THEN Acc(1, TRUE, Escapes(k))
                      ELSE IF k < end THEN Acc(1, FALSE, FALSE)
                      ELSE Acc(0, FALSE, FALSE)]
<1>3. ASSUME NEW k \in (start - 1)..end
      PROVE  /\ k < start => run[k] = Acc(0, FALSE, FALSE)
             /\ start <= k /\ k < close => run[k] = Acc(1, TRUE, Escapes(k))
             /\ close <= k /\ k < end => run[k] = Acc(1, FALSE, FALSE)
             /\ k = end => run[k] = Acc(0, FALSE, FALSE)
  <2>1. /\ start <= k => ~(k < start)
        /\ close <= k => ~(k < start) /\ ~(k < close)
        /\ k = end => ~(k < start) /\ ~(k < close) /\ ~(k < end)
    BY <1>2
  <2> QED BY <2>1, Zenon
<1> HIDE DEF run
<1>4. ASSUME NEW k \in start..end
      PROVE  run[k] = Scan(run[k - 1], s[k])
  <2>1. /\ k \in (start - 1)..end /\ k - 1 \in (start - 1)..end /\ k \in Nat
        /\ start < close /\ close < end
    BY <1>2
  <2>2. CASE k = start
    <3>1. k - 1 < start /\ start <= k /\ k < close /\ k - start \notin 1..Len(u)
      <4>1. k - start = 0
        BY <1>2, <2>2
      <4> QED BY <1>2, <2>2, <4>1
    <3>2. run[k - 1] = Acc(0, FALSE, FALSE) /\ run[k] = Acc(1, TRUE, FALSE)
      BY <1>3, <2>1, <3>1, Zenon
    <3> QED BY <1>1, <2>2, <3>2, ScanTurns, Zenon
  <2>3. CASE start < k /\ k < close
    <3> DEFINE j == k - start
    <3>1. /\ j \in 1..Len(u) /\ start + j = k /\ (k - 1) - start = j - 1
          /\ start <= k - 1 /\ k - 1 < close /\ start <= k
          /\ j > 1 => j - 1 \in 1..Len(u) /\ start + (j - 1) = k - 1
          /\ j - 1 \in 1..Len(u) => j > 1
      BY <1>2, <2>1, <2>3
    <3>2. /\ run[k - 1] = Acc(1, TRUE, Escapes(k - 1))
          /\ run[k] = Acc(1, TRUE, Escapes(k))
      BY <1>3, <2>1, <2>3, <3>1, Zenon
    <3> HIDE DEF j
    <3>3. u[j] = s[k]
      BY <1>1, <3>1, Zenon
    <3>4. j > 1 => u[j - 1] = s[k - 1]
      BY <1>1, <3>1, Zenon
    <3>5. j \in Escaped(u) <=> Escapes(k - 1)
      BY <3>1, <3>4, EscapedIs, Zenon
    <3>6. Escapes(k) <=> s[k] = "esc" /\ j \notin Escaped(u)
      BY <3>1, Zenon DEF j
    <3>7. s[k] # "open" /\ (s[k] = "quote" => j \in Escaped(u))
      <4>1. DOMAIN u = 1..Len(u)
        OBVIOUS
      <4>2. CASE j \in Escaped(u)
        BY <1>1, <3>3, <4>2 DEF IsString
      <4>3. CASE j \notin Escaped(u)
        BY <1>1, <3>1, <3>3, <4>1, <4>3 DEF IsString
      <4> QED BY <4>2, <4>3
    <3> DEFINE e == Escapes(k - 1)
               f == Escapes(k)
    <3>8. e \in BOOLEAN /\ f \in BOOLEAN /\ (f <=> s[k] = "esc" /\ ~e)
      BY <3>5, <3>6
    <3>9. run[k - 1] = Acc(1, TRUE, e) /\ run[k] = Acc(1, TRUE, f)
      BY <3>2
    <3>10. s[k] # "open" /\ (s[k] = "quote" => e)
      BY <3>5, <3>7
    <3> HIDE DEF e, f
    <3>11. Scan(run[k - 1], s[k]) = Acc(1, TRUE, s[k] = "esc" /\ ~e)
      BY <3>8, <3>9, <3>10, ScanTurns, Zenon
    <3>12. (s[k] = "esc" /\ ~e) = f
      BY <3>8, Zenon
    <3> QED BY <3>9, <3>11, <3>12, Zenon
  <2>4. CASE k = close
    <3>1. /\ k - 1 < close /\ start <= k - 1 /\ close <= k /\ k < end
          /\ (k - 1) - start = Len(u)
      BY <1>2, <2>1, <2>4
    <3>2. ~Escapes(k - 1)
      <4>1. SUFFICES ASSUME Escapes(k - 1) PROVE FALSE
        OBVIOUS
      <4>2. /\ Len(u) \in 1..Len(u) /\ Len(u) \notin Escaped(u)
            /\ s[k - 1] = "esc"
        BY <3>1, <4>1
      <4>3. u[Len(u)] = s[start + Len(u)] /\ start + Len(u) = k - 1
        <5>1. start + Len(u) = k - 1
          BY <1>2, <2>1, <3>1
        <5> QED BY <1>1, <4>2, <5>1, Zenon
      <4>4. DOMAIN u = 1..Len(u) /\ ~(Len(u) < Len(u))
        BY <1>2
      <4>5. u[Len(u)] = "esc" => Len(u) < Len(u)
        BY <1>1, <4>2, <4>4, Zenon DEF IsString
      <4> QED BY <4>2, <4>3, <4>4, <4>5, Zenon
    <3>3. Escapes(k - 1) = FALSE
      BY <3>2, Zenon
    <3> HIDE DEF Escapes
    <3>4. run[k - 1] = Acc(1, TRUE, FALSE) /\ run[k] = Acc(1, FALSE, FALSE)
      BY <1>3, <2>1, <3>1, <3>3, Zenon
    <3> QED BY <1>1, <2>4, <3>4, ScanTurns, Zenon
  <2>5. CASE close < k /\ k < end
    <3>1. /\ k - 1 < end /\ close <= k - 1 /\ close <= k
          /\ k \in (close + 1)..(end - 1)
      BY <1>2, <2>1, <2>5
    <3>2. run[k - 1] = Acc(1, FALSE, FALSE) /\ run[k] = Acc(1, FALSE, FALSE)
      BY <1>3, <2>1, <2>5, <3>1, Zenon
    <3> QED BY <1>1, <3>1, <3>2, ScanTurns, Zenon
  <2>6. CASE k = end
    <3>1. k - 1 < end /\ close <= k - 1
      BY <1>2, <2>1, <2>6
    <3>2. run[k - 1] = Acc(1, FALSE, FALSE) /\ run[k] = Acc(0, FALSE, FALSE)
      BY <1>3, <2>1, <2>6, <3>1, Zenon
    <3> QED BY <1>1, <2>6, <3>2, ScanTurns, Zenon
  <2> QED BY <1>2, <2>1, <2>2, <2>3, <2>4, <2>5, <2>6
<1>5. run[start - 1] = Acc(0, FALSE, FALSE)
  <2>1. start - 1 \in (start - 1)..end /\ start - 1 < start
    BY <1>2
  <2> QED BY <1>3, <2>1, Zenon
<1>6. Scanned(s, start, i) = run[i]
  <2>1. i \in start..Len(s) /\ \A k \in start..i : k \in start..end
    BY <1>2
  <2>2. \A k \in start..i : run[k] = Scan(run[k - 1], s[k])
    BY <1>4, <2>1, Zenon
  <2> QED BY <1>5, <2>1, <2>2, ScanIs, Zenon
<1>7. i \in (start - 1)..end /\ (i < close \/ close <= i)
  BY <1>2
<1>8. CASE i < end
  <2>1. \E q, e : run[i] = Acc(1, q, e)
    BY <1>2, <1>3, <1>7, <1>8, Zenon
  <2> QED BY <1>6, <1>8, <2>1
<1>9. CASE ~(i < end)
  <2>1. run[i] = Acc(0, FALSE, FALSE)
    <3>1. i = end
      BY <1>2, <1>9
    <3> QED BY <1>3, <1>7, <3>1, Zenon
  <2> QED BY <1>6, <1>9, <2>1
<1> QED BY <1>8, <1>9

\* The brace at which a call ends is the one its first brace is closed by,
\* and the only one.
LEMMA CallCloses ==
    ASSUME NEW s \in Seq(Pieces), NEW start \in 1..Len(s),
           NEW end \in start..Len(s), IsCall(SubSeq(s, start, end))
    PROVE  FindMatchingBrace(s, start) = {end}
<1>1. /\ start \in Nat /\ end \in Nat /\ Len(s) \in Nat
      /\ end \in start..Len(s) /\ end \in start..end /\ ~(end < end)
      /\ \A j \in start..(end - 1) : j \in start..end /\ j < end
      /\ 1 > 0 /\ ~(0 > 0) /\ 1 # 0
  OBVIOUS
<1>2. s[end] = "}"
  BY CallParts
<1>3. \A j \in start..end :
          Scanned(s, start, j).depth = IF j < end THEN 1 ELSE 0
  BY CallScanned
<1>4. Scanned(s, start, end).depth = 0
  BY <1>1, <1>3, Zenon
<1>5. end \in FindMatchingBrace(s, start)
  <2>1. \A j \in start..(end - 1) : Scanned(s, start, j).depth > 0
    BY <1>1, <1>3, Zenon
  <2> QED BY <1>1, <1>2, <1>4, <2>1, Zenon DEF FindMatchingBrace
<1>6. ASSUME NEW i \in FindMatchingBrace(s, start), i # end PROVE FALSE
  <2>1. /\ i \in start..Len(s) /\ Scanned(s, start, i).depth = 0
        /\ \A j \in start..(i - 1) : Scanned(s, start, j).depth > 0
    BY Zenon DEF FindMatchingBrace
  <2>2. CASE i < end
    <3>1. i \in start..end
      BY <1>1, <2>1, <2>2
    <3> QED BY <1>1, <1>3, <2>1, <2>2, <3>1, Zenon
  <2>3. CASE ~(i < end)
    <3>1. end \in start..(i - 1)
      BY <1>1, <1>6, <2>1, <2>3
    <3> QED BY <1>1, <1>4, <2>1, <3>1, Zenon
  <2> QED BY <2>2, <2>3
<1> QED BY <1>5, <1>6, Zenon

\* The least of a set is what Min picks.
LEMMA MinOf ==
    ASSUME NEW T \in SUBSET Nat, NEW m \in T, \A k \in T : m <= k
    PROVE  Min(T) = m
<1>1. \A n \in T : (\A k \in T : n <= k) => n = m
  BY SMT
<1> QED BY <1>1, Zenon DEF Min

\* A part of a text, and a part of that.
LEMMA PartOf ==
    ASSUME NEW s \in Seq(Pieces), NEW a \in 1..Len(s), NEW b \in a..Len(s)
    PROVE  /\ SubSeq(s, a, b) \in Seq(Pieces)
           /\ Len(SubSeq(s, a, b)) = (b - a) + 1
           /\ \A k \in 1..((b - a) + 1) : SubSeq(s, a, b)[k] = s[(a + k) - 1]
OBVIOUS

LEMMA SameText ==
    ASSUME NEW s \in Seq(Pieces), NEW t \in Seq(Pieces), Len(s) = Len(t),
           \A k \in 1..Len(s) : s[k] = t[k]
    PROVE  s = t
OBVIOUS

LEMMA PartOfPart ==
    ASSUME NEW s \in Seq(Pieces), NEW a \in 1..Len(s), NEW b \in a..Len(s),
           NEW i \in a..b, NEW j \in i..b
    PROVE  SubSeq(SubSeq(s, a, b), (i - a) + 1, (j - a) + 1) = SubSeq(s, i, j)
<1> DEFINE t == SubSeq(s, a, b)
           i1 == (i - a) + 1
           j1 == (j - a) + 1
<1>1. /\ a \in Nat /\ b \in Nat /\ i \in Nat /\ j \in Nat /\ Len(s) \in Nat
      /\ i \in 1..Len(s) /\ j \in i..Len(s)
  OBVIOUS
<1>2. /\ t \in Seq(Pieces) /\ Len(t) = (b - a) + 1
      /\ \A k \in 1..((b - a) + 1) : t[k] = s[(a + k) - 1]
  BY PartOf
<1> HIDE DEF t
<1>3. i1 \in 1..Len(t) /\ j1 \in i1..Len(t) /\ (j1 - i1) + 1 = (j - i) + 1
  BY <1>1, <1>2
<1> HIDE DEF i1, j1
<1>4. /\ SubSeq(t, i1, j1) \in Seq(Pieces)
      /\ Len(SubSeq(t, i1, j1)) = (j1 - i1) + 1
      /\ \A k \in 1..((j1 - i1) + 1) : SubSeq(t, i1, j1)[k] = t[(i1 + k) - 1]
  BY <1>2, <1>3, PartOf, Zenon
<1>5. /\ SubSeq(s, i, j) \in Seq(Pieces) /\ Len(SubSeq(s, i, j)) = (j - i) + 1
      /\ \A k \in 1..((j - i) + 1) : SubSeq(s, i, j)[k] = s[(i + k) - 1]
  BY <1>1, PartOf, Zenon
<1>6. ASSUME NEW k \in 1..((j - i) + 1)
      PROVE  SubSeq(t, i1, j1)[k] = SubSeq(s, i, j)[k]
  <2>1. /\ (i1 + k) - 1 \in 1..((b - a) + 1)
        /\ (a + ((i1 + k) - 1)) - 1 = (i + k) - 1
    BY <1>1 DEF i1
  <2>2. t[(i1 + k) - 1] = s[(i + k) - 1]
    BY <1>2, <2>1, Zenon
  <2> QED BY <1>3, <1>4, <1>5, <2>2, Zenon
<1>7. SubSeq(t, i1, j1) = SubSeq(s, i, j)
  BY <1>3, <1>4, <1>5, <1>6, SameText, Zenon
<1> QED BY <1>7 DEF t, i1, j1

\* What trim cuts off is white space, and what is left begins and ends with
\* something visible.
LEMMA Trimmed ==
    ASSUME NEW s \in Seq(Pieces), ~IsBlank(s)
    PROVE  \E a \in 1..Len(s) : \E b \in a..Len(s) :
               /\ Trim(s) = SubSeq(s, a, b)
               /\ \A i \in Visible(s) : i \in a..b
<1>1. Len(s) \in Nat /\ Visible(s) \in SUBSET (1..Len(s)) /\ Visible(s) # {}
  BY DEF IsBlank, Visible
<1>2. /\ Max(Visible(s)) \in Visible(s)
      /\ \A i \in Visible(s) : i <= Max(Visible(s))
  BY <1>1, MaxOf
<1>3. PICK a \in Visible(s) : \A i \in Visible(s) : a <= i
  <2>1. Visible(s) \in SUBSET Nat
    BY <1>1
  <2> QED BY <1>1, <2>1, LeastNatural
<1>4. Min(Visible(s)) = a
  <2>1. Visible(s) \in SUBSET Nat
    BY <1>1
  <2> QED BY <1>3, <2>1, MinOf
<1> DEFINE b == Max(Visible(s))
<1>5. Trim(s) = SubSeq(s, a, b)
  BY <1>4 DEF Trim
<1>6. b \in Visible(s) /\ \A i \in Visible(s) : i <= b
  BY <1>2
<1> HIDE DEF b
<1>7. a \in 1..Len(s) /\ b \in a..Len(s) /\ \A i \in Visible(s) : i \in a..b
  BY <1>1, <1>3, <1>6
<1> QED BY <1>5, <1>7, Zenon

\* The text is trimmed, and the place of the first brace in what is left is
\* where the call begins.
LEMMA CallParsed ==
    ASSUME NEW s \in Seq(Pieces), NEW c \in 1..Len(s), NEW d \in c..Len(s),
           IsCall(SubSeq(s, c, d)), \A i \in 1..(c - 1) : s[i] \notin Opening
    PROVE  \E start, end :
               /\ SubSeq(Trim(s), start, end) = SubSeq(s, c, d)
               /\ ParseAgentOutput(s) = Call(Trim(s), start, end)
<1>1. s[c] = "open" /\ s[d] = "}"
  BY CallParts
<1>2. c \in Visible(s) /\ d \in Visible(s) /\ ~IsBlank(s)
  <2>1. DOMAIN s = 1..Len(s) /\ c \in 1..Len(s) /\ d \in 1..Len(s)
    OBVIOUS
  <2>2. c \in Visible(s) /\ d \in Visible(s)
    BY <1>1, <2>1 DEF Visible
  <2> QED BY <2>2, Zenon DEF IsBlank
<1>3. PICK a \in 1..Len(s) : \E b \in a..Len(s) :
               /\ Trim(s) = SubSeq(s, a, b)
               /\ \A i \in Visible(s) : i \in a..b
  BY <1>2, Trimmed
<1>4. PICK b \in a..Len(s) : /\ Trim(s) = SubSeq(s, a, b)
                             /\ \A i \in Visible(s) : i \in a..b
  BY <1>3
<1> DEFINE t == SubSeq(s, a, b)
           start == (c - a) + 1
           end == (d - a) + 1
<1>5. /\ t \in Seq(Pieces) /\ Len(t) = (b - a) + 1
      /\ \A k \in 1..((b - a) + 1) : t[k] = s[(a + k) - 1]
  BY PartOf
<1>6. /\ c \in a..b /\ d \in c..b /\ a \in Nat /\ b \in Nat /\ c \in Nat
      /\ d \in Nat /\ Len(s) \in Nat
  BY <1>2, <1>4
<1>7. SubSeq(t, start, end) = SubSeq(s, c, d)
  BY <1>6, PartOfPart, Zenon
<1>8. t # << >>
  BY <1>5, <1>6
<1> HIDE DEF t
<1>9. start \in 1..Len(t) /\ end \in start..Len(t) /\ end \in Nat
  BY <1>5, <1>6
<1> DEFINE braces == {i \in 1..Len(t) : t[i] \in Opening}
<1>10. Min(braces) = start /\ braces # {}
  <2>1. start \in braces
    <3>1. start \in 1..((b - a) + 1) /\ (a + start) - 1 = c
      BY <1>6
    <3> HIDE DEF start
    <3>2. t[start] = s[c]
      BY <1>5, <3>1, Zenon
    <3> QED BY <1>1, <1>9, <3>2 DEF Opening
  <2>2. ASSUME NEW i \in braces PROVE start <= i
    <3>1. i \in 1..((b - a) + 1) /\ t[i] \in Opening /\ i \in Nat
      BY <1>5
    <3>2. s[(a + i) - 1] \in Opening
      BY <1>5, <3>1, Zenon
    <3>3. CASE i < start
      <4>1. (a + i) - 1 \in 1..(c - 1)
        BY <1>6, <3>1, <3>3
      <4> QED BY <3>2, <4>1, Zenon
    <3>4. CASE ~(i < start)
      BY <1>6, <3>1, <3>4
    <3> QED BY <3>3, <3>4
  <2>3. braces \in SUBSET Nat
    OBVIOUS
  <2> HIDE DEF braces
  <2> QED BY <2>1, <2>2, <2>3, MinOf
<1> HIDE DEF start, end
<1>11. SelectInSeq(t, LAMBDA p : p \in Opening) = start
  BY <1>10 DEF SelectInSeq
<1>12. FindMatchingBrace(t, start) = {end} /\ IsCall(SubSeq(t, start, end))
  BY <1>5, <1>7, <1>9, CallCloses, Zenon
<1>13. Max({end}) = end
  <2>1. end >= end
    BY <1>9
  <2> QED BY <2>1, Zenon DEF Max
<1>14. start # 0
  BY <1>9
<1>15. ParseAgentOutput(s) = Call(t, start, end)
  BY <1>4, <1>8, <1>11, <1>12, <1>13, <1>14, Zenon DEF ParseAgentOutput, t
<1> QED BY <1>4, <1>7, <1>15, Zenon DEF t

\* The call at the first brace is found in an output of any length, whatever
\* its query is made of.
THEOREM CallIsFound == TextSpec => []CallFound
<1>1. Typed => CallFound
  <2> SUFFICES ASSUME text \in Seq(Pieces), NEW c \in CallsIn(text),
                      \A i \in 1..(c[1] - 1) : text[i] \notin Opening
               PROVE  LET query == QueryOf(SubSeq(text, c[1], c[2]))
                          parsed == ParseAgentOutput(text)
                      IN  IF IsBlank(query) \/ Len(query) > MaxQuery
                          THEN parsed.kind = "error"
                          ELSE parsed.kind = "call" /\ parsed.query = query
    BY DEF Typed, CallFound
  <2>1. /\ c[1] \in 1..Len(text) /\ c[2] \in c[1]..Len(text)
        /\ IsCall(SubSeq(text, c[1], c[2]))
    BY DEF CallsIn
  <2>2. PICK start, end :
            /\ SubSeq(Trim(text), start, end) = SubSeq(text, c[1], c[2])
            /\ ParseAgentOutput(text) = Call(Trim(text), start, end)
    BY <2>1, CallParsed
  <2> QED BY <2>2 DEF Call, Failure
<1> QED BY <1>1, TextTyped, PTL

-----------------------------------------------------------------------------
(* Everything visible in an output. *)

\* The recursion of Seen has a solution ...
LEMMA SeenIs ==
    ASSUME NEW s \in Seq(Pieces)
    PROVE  \E f : /\ f[0] = << >>
                  /\ \A i \in 0..Len(s) : f[i] \in Seq(Pieces)
                  /\ \A i \in 1..Len(s) :
                         f[i] = IF s[i] = "space" THEN f[i - 1]
                                ELSE Append(f[i - 1], s[i])
                  /\ Seen(s) = f[Len(s)]
<1> DEFINE Sees(f, n) ==
             f = [i \in 0..n |->
                      IF i = 0 THEN << >>
                      ELSE IF s[i] = "space" THEN f[i - 1]
                      ELSE Append(f[i - 1], s[i])]
           Bad == {n \in Nat : ~\E f : Sees(f, n)}
<1>1. Bad = {}
  <2> SUFFICES ASSUME Bad # {} PROVE FALSE
    OBVIOUS
  <2>1. PICK n \in Bad : \A k \in Bad : n <= k
    <3>1. Bad \in SUBSET Nat
      OBVIOUS
    <3> HIDE DEF Bad
    <3> QED BY <3>1, LeastNatural
  <2>2. n # 0
    <3>1. Sees([i \in 0..0 |-> << >>], 0)
      <4>1. \A i \in 0..0 : i = 0
        OBVIOUS
      <4> QED BY <4>1, Zenon
    <3>2. 0 \notin Bad
      BY <3>1, Zenon
    <3> QED BY <2>1, <3>2
  <2>3. n - 1 \in Nat /\ ~(n <= n - 1)
    BY <2>1, <2>2
  <2>4. PICK g : Sees(g, n - 1)
    <3>1. n - 1 \notin Bad
      BY <2>1, <2>3, Zenon
    <3> QED BY <2>3, <3>1, Zenon
  <2> DEFINE f == [i \in 0..n |-> IF i = 0 THEN << >>
                                  ELSE IF s[i] = "space" THEN g[i - 1]
                                  ELSE Append(g[i - 1], s[i])]
  <2>5. \A i \in 0..(n - 1) : f[i] = g[i]
    <3>1. 0..(n - 1) \subseteq 0..n
      BY <2>1
    <3>2. \A i \in 0..(n - 1) :
              g[i] = IF i = 0 THEN << >>
                     ELSE IF s[i] = "space" THEN g[i - 1]
                     ELSE Append(g[i - 1], s[i])
      BY <2>4, Zenon
    <3> QED BY <3>1, <3>2, Zenon
  <2>6. \A i \in 0..n : i # 0 => i - 1 \in 0..(n - 1)
    BY <2>1
  <2>7. \A i \in 0..n : f[i] = IF i = 0 THEN << >>
                               ELSE IF s[i] = "space" THEN f[i - 1]
                               ELSE Append(f[i - 1], s[i])
    BY <2>5, <2>6, Zenon
  <2>8. Sees(f, n)
    BY <2>7, Zenon
  <2> QED BY <2>1, <2>8, Zenon
<1>2. Len(s) \in Nat
  OBVIOUS
<1>3. \E f : Sees(f, Len(s))
  BY <1>1, <1>2, Zenon
<1>4. PICK f : Sees(f, Len(s)) /\ Seen(s) = f[Len(s)]
  BY <1>3, Zenon DEF Seen
<1>5. /\ 0 \in 0..Len(s)
      /\ \A i \in 1..Len(s) : i \in 0..Len(s) /\ i # 0
      /\ \A i \in 0..Len(s) : i # 0 =>
             i \in 1..Len(s) /\ i - 1 \in 0..Len(s) /\ ~(i <= i - 1)
  BY <1>2
<1>6. /\ f[0] = << >>
      /\ \A i \in 1..Len(s) : f[i] = IF s[i] = "space" THEN f[i - 1]
                                     ELSE Append(f[i - 1], s[i])
  BY <1>4, <1>5, Zenon
<1> DEFINE Untyped == {i \in 0..Len(s) : f[i] \notin Seq(Pieces)}
<1>7. Untyped = {}
  <2> SUFFICES ASSUME Untyped # {} PROVE FALSE
    OBVIOUS
  <2>1. PICK n \in Untyped : \A k \in Untyped : n <= k
    <3>1. Untyped \in SUBSET Nat
      BY <1>2
    <3> HIDE DEF Untyped
    <3> QED BY <3>1, LeastNatural
  <2>2. << >> \in Seq(Pieces)
    OBVIOUS
  <2>3. n # 0
    BY <1>6, <2>1, <2>2, Zenon
  <2>4. n \in 1..Len(s) /\ n - 1 \in 0..Len(s) /\ n - 1 \notin Untyped
    BY <1>5, <2>1, <2>3, Zenon
  <2>5. f[n - 1] \in Seq(Pieces)
    BY <2>4, Zenon
  <2>6. s[n] \in Pieces
    BY <2>4
  <2>7. Append(f[n - 1], s[n]) \in Seq(Pieces)
    BY <2>5, <2>6
  <2>8. f[n] \in Seq(Pieces)
    BY <1>6, <2>4, <2>5, <2>7, Zenon
  <2> QED BY <2>1, <2>8, Zenon
<1> QED BY <1>4, <1>6, <1>7, Zenon

\* ... which is any run of it ...
LEMMA SeenRun ==
    ASSUME NEW s \in Seq(Pieces), NEW run, run[0] = << >>,
           \A i \in 1..Len(s) :
               run[i] = IF s[i] = "space" THEN run[i - 1]
                        ELSE Append(run[i - 1], s[i])
    PROVE  Seen(s) = run[Len(s)]
<1>1. PICK f : /\ f[0] = << >>
               /\ \A i \in 1..Len(s) :
                      f[i] = IF s[i] = "space" THEN f[i - 1]
                             ELSE Append(f[i - 1], s[i])
               /\ Seen(s) = f[Len(s)]
  BY SeenIs, Zenon
<1> DEFINE Bad == {i \in 0..Len(s) : f[i] # run[i]}
<1>2. Bad = {}
  <2> SUFFICES ASSUME Bad # {} PROVE FALSE
    OBVIOUS
  <2>1. PICK n \in Bad : \A k \in Bad : n <= k
    <3>1. Bad \in SUBSET Nat
      OBVIOUS
    <3> HIDE DEF Bad
    <3> QED BY <3>1, LeastNatural
  <2>2. n \in 0..Len(s) /\ n # 0
    BY <1>1, <2>1, Zenon
  <2>3. n \in 1..Len(s) /\ n - 1 \in 0..Len(s) /\ ~(n <= n - 1)
    BY <2>2
  <2>4. f[n - 1] = run[n - 1]
    BY <2>1, <2>3, Zenon
  <2> QED BY <1>1, <2>1, <2>3, <2>4, Zenon
<1>3. Len(s) \in 0..Len(s)
  OBVIOUS
<1> QED BY <1>1, <1>2, <1>3, Zenon

\* ... and a text.
LEMMA SeenTyped ==
    ASSUME NEW s \in Seq(Pieces)
    PROVE  Seen(s) \in Seq(Pieces)
<1>1. Len(s) \in 0..Len(s)
  OBVIOUS
<1> QED BY <1>1, SeenIs, Zenon

\* White space shows nothing ...
LEMMA SeenBlank ==
    ASSUME NEW s \in Seq(Pieces), \A k \in 1..Len(s) : s[k] = "space"
    PROVE  Seen(s) = << >>
<1> DEFINE run == [k \in 0..Len(s) |-> << >>]
<1>1. /\ 0 \in 0..Len(s) /\ Len(s) \in 0..Len(s)
      /\ \A k \in 1..Len(s) : k \in 0..Len(s) /\ k - 1 \in 0..Len(s)
  OBVIOUS
<1>2. /\ run[0] = << >> /\ run[Len(s)] = << >>
      /\ \A k \in 1..Len(s) : run[k] = run[k - 1]
  BY <1>1, Zenon
<1> HIDE DEF run
<1>3. Seen(s) = run[Len(s)]
  BY <1>2, SeenRun, Zenon
<1> QED BY <1>2, <1>3, Zenon

\* Two texts, one after the other.
LEMMA Joining ==
    ASSUME NEW x \in Seq(Pieces), NEW y \in Seq(Pieces)
    PROVE  /\ x \o y \in Seq(Pieces) /\ Len(x \o y) = Len(x) + Len(y)
           /\ \A k \in 1..Len(x) : (x \o y)[k] = x[k]
           /\ \A k \in 1..Len(y) : (x \o y)[Len(x) + k] = y[k]
OBVIOUS

LEMMA JoinAppend ==
    ASSUME NEW x \in Seq(Pieces), NEW y \in Seq(Pieces), NEW p \in Pieces
    PROVE  x \o Append(y, p) = Append(x \o y, p)
OBVIOUS

\* ... and two texts show what the one and then the other shows.
LEMMA SeenJoined ==
    ASSUME NEW x \in Seq(Pieces), NEW y \in Seq(Pieces)
    PROVE  Seen(x \o y) = Seen(x) \o Seen(y)
<1>1. PICK f : /\ f[0] = << >>
               /\ \A i \in 1..Len(x) :
                      f[i] = IF x[i] = "space" THEN f[i - 1]
                             ELSE Append(f[i - 1], x[i])
               /\ Seen(x) = f[Len(x)]
  BY SeenIs, Zenon
<1>2. PICK g : /\ g[0] = << >>
               /\ \A i \in 0..Len(y) : g[i] \in Seq(Pieces)
               /\ \A i \in 1..Len(y) :
                      g[i] = IF y[i] = "space" THEN g[i - 1]
                             ELSE Append(g[i - 1], y[i])
               /\ Seen(y) = g[Len(y)]
  BY SeenIs, Zenon
<1>3. Seen(x) \in Seq(Pieces)
  BY SeenTyped
<1> DEFINE z == x \o y
           run == [k \in 0..(Len(x) + Len(y)) |->
                      IF k <= Len(x) THEN f[k]
                      ELSE Seen(x) \o g[k - Len(x)]]
<1>4. /\ z \in Seq(Pieces) /\ Len(z) = Len(x) + Len(y)
      /\ \A k \in 1..Len(x) : z[k] = x[k]
      /\ \A k \in 1..Len(y) : z[Len(x) + k] = y[k]
  BY Joining
<1> HIDE DEF z
<1>5. /\ Len(x) \in Nat /\ Len(y) \in Nat
      /\ 0 \in 0..(Len(x) + Len(y)) /\ 0 <= Len(x)
      /\ 0 \in 0..Len(y) /\ (Len(x) + 0) - Len(x) = 0
  OBVIOUS
<1>6. /\ \A k \in 0..Len(x) : run[k] = f[k]
      /\ \A k \in 0..Len(y) : run[Len(x) + k] = Seen(x) \o g[k]
  <2>1. /\ \A k \in 0..Len(x) : k \in 0..(Len(x) + Len(y)) /\ k <= Len(x)
        /\ \A k \in 0..Len(y) : /\ Len(x) + k \in 0..(Len(x) + Len(y))
                                /\ (Len(x) + k) - Len(x) = k
                                /\ k # 0 => ~(Len(x) + k <= Len(x))
        /\ Len(x) + 0 = Len(x) /\ Len(x) \in 0..Len(x)
    BY <1>5
  <2>2. Seen(x) \o << >> = Seen(x)
    BY <1>3
  <2>3. \A k \in 0..Len(x) : run[k] = f[k]
    BY <2>1, Zenon
  <2>4. ASSUME NEW k \in 0..Len(y) PROVE run[Len(x) + k] = Seen(x) \o g[k]
    <3>1. CASE k = 0
      BY <1>1, <1>2, <2>1, <2>2, <2>3, <3>1, Zenon
    <3>2. CASE k # 0
      BY <2>1, <3>2, Zenon
    <3> QED BY <3>1, <3>2
  <2> QED BY <2>3, <2>4, Zenon
<1> HIDE DEF run
<1>7. ASSUME NEW i \in 1..Len(z)
      PROVE  run[i] = IF z[i] = "space" THEN run[i - 1]
                      ELSE Append(run[i - 1], z[i])
  <2>1. CASE i \in 1..Len(x)
    <3>1. i \in 0..Len(x) /\ i - 1 \in 0..Len(x)
      BY <1>5, <2>1
    <3>2. run[i] = f[i] /\ run[i - 1] = f[i - 1] /\ z[i] = x[i]
      BY <1>4, <1>6, <2>1, <3>1, Zenon
    <3> QED BY <1>1, <2>1, <3>2, Zenon
  <2>2. CASE i \notin 1..Len(x)
    <3> DEFINE k == i - Len(x)
    <3>1. /\ k \in 1..Len(y) /\ k \in 0..Len(y) /\ k - 1 \in 0..Len(y)
          /\ Len(x) + k = i /\ Len(x) + (k - 1) = i - 1
      BY <1>4, <1>5, <2>2
    <3> HIDE DEF k
    <3>2. /\ run[i] = Seen(x) \o g[k] /\ run[i - 1] = Seen(x) \o g[k - 1]
          /\ z[i] = y[k]
      BY <1>4, <1>6, <3>1, Zenon
    <3>3. g[k - 1] \in Seq(Pieces) /\ y[k] \in Pieces
      <4>1. y[k] \in Pieces
        BY <3>1
      <4> QED BY <1>2, <3>1, <4>1, Zenon
    <3>4. Seen(x) \o Append(g[k - 1], y[k]) = Append(Seen(x) \o g[k - 1], y[k])
      BY <1>3, <3>3, JoinAppend, Zenon
    <3> QED BY <1>2, <3>1, <3>2, <3>4, Zenon
  <2> QED BY <2>1, <2>2
<1>8. run[0] = << >>
  <2>1. 0 \in 0..Len(x)
    BY <1>5
  <2> QED BY <1>1, <1>6, <2>1, Zenon
<1>9. Seen(z) = run[Len(z)]
  BY <1>4, <1>7, <1>8, SeenRun, Zenon
<1>10. run[Len(z)] = Seen(x) \o Seen(y)
  <2>1. Len(y) \in 0..Len(y)
    BY <1>5
  <2> QED BY <1>2, <1>4, <1>6, <2>1, Zenon
<1> QED BY <1>9, <1>10, Zenon DEF z

\* Trim cuts white space off both ends, and what is visible stays.
LEMMA TrimIs ==
    ASSUME NEW s \in Seq(Pieces)
    PROVE  /\ Trim(s) \in Seq(Pieces)
           /\ Trim(s) = << >> => IsBlank(s)
           /\ \E p, q \in Seq(Pieces) :
                  /\ s = (p \o Trim(s)) \o q
                  /\ Seen(p) = << >> /\ Seen(q) = << >>
<1>1. CASE IsBlank(s)
  <2>1. Trim(s) = << >> /\ << >> \in Seq(Pieces)
    BY <1>1 DEF Trim
  <2>2. \A k \in 1..Len(s) : s[k] = "space"
    BY <1>1 DEF IsBlank, Visible
  <2>3. Seen(s) = << >> /\ Seen(<< >>) = << >>
    <3>1. \A k \in 1..Len(<< >>) : << >>[k] = "space"
      OBVIOUS
    <3> QED BY <2>1, <2>2, <3>1, SeenBlank, Zenon
  <2>4. s = (s \o << >>) \o << >>
    OBVIOUS
  <2> QED BY <1>1, <2>1, <2>3, <2>4, Zenon
<1>2. CASE ~IsBlank(s)
  <2>1. PICK a \in 1..Len(s) : \E b \in a..Len(s) :
                 /\ Trim(s) = SubSeq(s, a, b)
                 /\ \A i \in Visible(s) : i \in a..b
    BY <1>2, Trimmed
  <2>2. PICK b \in a..Len(s) : /\ Trim(s) = SubSeq(s, a, b)
                               /\ \A i \in Visible(s) : i \in a..b
    BY <2>1
  <2> DEFINE p == Before(s, a)
             t == SubSeq(s, a, b)
             q == After(s, b)
  <2>3. /\ a \in 1..Len(s) /\ b \in 1..Len(s) /\ a <= b
        /\ a \in Nat /\ b \in Nat /\ Len(s) \in Nat /\ DOMAIN s = 1..Len(s)
    OBVIOUS
  <2>4. /\ p \in Seq(Pieces) /\ Len(p) = a - 1
        /\ \A k \in 1..(a - 1) : p[k] = s[k]
        /\ q \in Seq(Pieces) /\ Len(q) = Len(s) - b
        /\ \A k \in 1..(Len(s) - b) : q[k] = s[b + k]
    BY <2>3, Around, Zenon
  <2>5. /\ t \in Seq(Pieces) /\ Len(t) = (b - a) + 1
        /\ \A k \in 1..((b - a) + 1) : t[k] = s[(a + k) - 1]
    BY PartOf
  <2> HIDE DEF p, t, q
  <2>6. Seen(p) = << >> /\ Seen(q) = << >>
    <3>1. ASSUME NEW k \in 1..Len(p) PROVE p[k] = "space"
      <4>1. k \in 1..(a - 1) /\ k \in DOMAIN s /\ k \notin a..b
        BY <2>3, <2>4
      <4> QED BY <2>2, <2>4, <4>1, Zenon DEF Visible
    <3>2. ASSUME NEW k \in 1..Len(q) PROVE q[k] = "space"
      <4>1. k \in 1..(Len(s) - b) /\ b + k \in DOMAIN s /\ b + k \notin a..b
        BY <2>3, <2>4
      <4> QED BY <2>2, <2>4, <4>1, Zenon DEF Visible
    <3> QED BY <2>4, <3>1, <3>2, SeenBlank, Zenon
  <2>7. s = (p \o t) \o q
    <3> DEFINE x == p \o t
    <3>1. /\ x \in Seq(Pieces) /\ Len(x) = Len(p) + Len(t)
          /\ \A k \in 1..Len(p) : x[k] = p[k]
          /\ \A k \in 1..Len(t) : x[Len(p) + k] = t[k]
      BY <2>4, <2>5, Joining, Zenon
    <3> HIDE DEF x
    <3> DEFINE z == x \o q
    <3>2. /\ z \in Seq(Pieces) /\ Len(z) = Len(x) + Len(q)
          /\ \A k \in 1..Len(x) : z[k] = x[k]
          /\ \A k \in 1..Len(q) : z[Len(x) + k] = q[k]
      BY <2>4, <3>1, Joining, Zenon
    <3> HIDE DEF z
    <3>3. Len(x) = b /\ Len(z) = Len(s)
      BY <2>3, <2>4, <2>5, <3>1, <3>2
    <3>4. ASSUME NEW k \in 1..Len(s) PROVE s[k] = z[k]
      <4>1. CASE k < a
        <5>1. k \in 1..(a - 1) /\ k \in 1..Len(p) /\ k \in 1..Len(x)
          BY <2>3, <2>4, <3>3, <4>1
        <5> QED BY <2>4, <3>1, <3>2, <5>1, Zenon
      <4>2. CASE a <= k /\ k <= b
        <5> DEFINE i == (k - a) + 1
        <5>1. /\ i \in 1..((b - a) + 1) /\ i \in 1..Len(t) /\ k \in 1..Len(x)
              /\ Len(p) + i = k /\ (a + i) - 1 = k
          BY <2>3, <2>4, <2>5, <3>3, <4>2
        <5> HIDE DEF i
        <5>2. t[i] = s[k] /\ x[k] = t[i]
          BY <2>5, <3>1, <5>1, Zenon
        <5> QED BY <3>2, <5>1, <5>2, Zenon
      <4>3. CASE k > b
        <5> DEFINE i == k - b
        <5>1. /\ i \in 1..(Len(s) - b) /\ i \in 1..Len(q)
              /\ Len(x) + i = k /\ b + i = k
          BY <2>3, <2>4, <3>3, <4>3
        <5> HIDE DEF i
        <5>2. q[i] = s[k]
          BY <2>4, <5>1, Zenon
        <5>3. z[k] = q[i]
          BY <3>2, <5>1, Zenon
        <5> QED BY <5>2, <5>3
      <4> QED BY <2>3, <4>1, <4>2, <4>3
    <3>5. s = z
      BY <3>2, <3>3, <3>4, SameText, Zenon
    <3> QED BY <3>5, Zenon DEF x, z
  <2>8. Trim(s) = t
    BY <2>2 DEF t
  <2>9. Trim(s) # << >>
    BY <2>3, <2>5, <2>8
  <2> QED BY <2>4, <2>5, <2>6, <2>7, <2>8, <2>9, Zenon
<1> QED BY <1>1, <1>2

\* Neither trimming a text nor joining two changes what they show.
LEMMA SeenTrim ==
    ASSUME NEW s \in Seq(Pieces)
    PROVE  Seen(Trim(s)) = Seen(s)
<1>1. Trim(s) \in Seq(Pieces)
  BY TrimIs
<1>2. PICK p, q \in Seq(Pieces) : /\ s = (p \o Trim(s)) \o q
                                  /\ Seen(p) = << >> /\ Seen(q) = << >>
  BY TrimIs
<1> DEFINE t == Trim(s)
<1>3. p \o t \in Seq(Pieces) /\ Seen(t) \in Seq(Pieces)
  BY <1>1, SeenTyped
<1> HIDE DEF t
<1>4. Seen((p \o t) \o q) = (Seen(p) \o Seen(t)) \o Seen(q)
  <2>1. t \in Seq(Pieces)
    BY <1>1 DEF t
  <2>2. Seen(p \o t) = Seen(p) \o Seen(t)
    BY <2>1, SeenJoined, Zenon
  <2>3. Seen((p \o t) \o q) = Seen(p \o t) \o Seen(q)
    BY <1>3, SeenJoined, Zenon
  <2> QED BY <2>2, <2>3
<1>5. (<< >> \o Seen(t)) \o << >> = Seen(t)
  BY <1>3
<1> QED BY <1>2, <1>4, <1>5, Zenon DEF t

LEMMA SeenJoin ==
    ASSUME NEW x \in Seq(Pieces), NEW y \in Seq(Pieces)
    PROVE  Seen(Join(x, y)) = Seen(x) \o Seen(y)
<1>1. CASE x = << >> \/ y = << >>
  BY <1>1, SeenJoined, Zenon DEF Join
<1>2. CASE ~(x = << >> \/ y = << >>)
  <2> DEFINE gap == <<"space">>
  <2>1. /\ gap \in Seq(Pieces)
        /\ \A k \in 1..Len(gap) : gap[k] = "space"
    <3>1. "space" \in Pieces
      BY DEF Pieces
    <3> QED BY <3>1
  <2> HIDE DEF gap
  <2>6. x \o gap \in Seq(Pieces)
    BY <2>1, Joining, Zenon
  <2>2. Seen((x \o gap) \o y) = (Seen(x) \o Seen(gap)) \o Seen(y)
    <3>1. Seen(x \o gap) = Seen(x) \o Seen(gap)
      BY <2>1, SeenJoined, Zenon
    <3>2. Seen((x \o gap) \o y) = Seen(x \o gap) \o Seen(y)
      BY <2>6, SeenJoined, Zenon
    <3> QED BY <3>1, <3>2
  <2>3. Seen(gap) = << >>
    BY <2>1, SeenBlank, Zenon
  <2>4. Seen(x) \o << >> = Seen(x)
    BY SeenTyped
  <2>5. Join(x, y) = (x \o gap) \o y
    BY <1>2, Zenon DEF Join, gap
  <2> QED BY <2>2, <2>3, <2>4, <2>5, Zenon
<1> QED BY <1>1, <1>2

\* Where a text stands between two others, so do its places.
Stands(s, p, t, q, start, end) ==
    /\ Len(s) = (Len(p) + Len(t)) + Len(q)
    /\ SubSeq(s, Len(p) + start, Len(p) + end) = SubSeq(t, start, end)
    /\ Before(s, Len(p) + start) = p \o Before(t, start)
    /\ After(s, Len(p) + end) = After(t, end) \o q

LEMMA Within ==
    ASSUME NEW p \in Seq(Pieces), NEW t \in Seq(Pieces), NEW q \in Seq(Pieces),
           NEW start \in 1..Len(t), NEW end \in start..Len(t)
    PROVE  Stands((p \o t) \o q, p, t, q, start, end)
<1> DEFINE s == (p \o t) \o q
<1> DEFINE c == Len(p) + start
           d == Len(p) + end
           n == Len(p)
<1>1. /\ n \in Nat /\ Len(t) \in Nat /\ Len(q) \in Nat
      /\ start \in Nat /\ end \in Nat /\ end \in 1..Len(t)
  OBVIOUS
<1>2. /\ s \in Seq(Pieces) /\ Len(s) = (n + Len(t)) + Len(q)
      /\ \A k \in 1..n : s[k] = p[k]
      /\ \A k \in 1..Len(t) : s[n + k] = t[k]
      /\ \A k \in 1..Len(q) : s[(n + Len(t)) + k] = q[k]
  <2> DEFINE x == p \o t
  <2>1. /\ x \in Seq(Pieces) /\ Len(x) = n + Len(t)
        /\ \A k \in 1..n : x[k] = p[k]
        /\ \A k \in 1..Len(t) : x[n + k] = t[k]
    BY Joining
  <2> HIDE DEF x
  <2> DEFINE z == x \o q
  <2>2. /\ z \in Seq(Pieces) /\ Len(z) = Len(x) + Len(q)
        /\ \A k \in 1..Len(x) : z[k] = x[k]
        /\ \A k \in 1..Len(q) : z[Len(x) + k] = q[k]
    BY <2>1, Joining, Zenon
  <2>5. s = z
    BY Zenon DEF x
  <2> HIDE DEF s
  <2> HIDE DEF z
  <2>3. /\ s \in Seq(Pieces) /\ Len(s) = Len(x) + Len(q)
        /\ \A k \in 1..Len(x) : s[k] = x[k]
        /\ \A k \in 1..Len(q) : s[Len(x) + k] = q[k]
    BY <2>2, <2>5
  <2>4. /\ \A k \in 1..n : k \in 1..Len(x)
        /\ \A k \in 1..Len(t) : n + k \in 1..Len(x)
    BY <1>1, <2>1
  <2> QED BY <2>1, <2>3, <2>4, Zenon
<1> HIDE DEF n, s
<1>3. /\ c = n + start /\ d = n + end
      /\ c \in 1..Len(s) /\ d \in c..Len(s) /\ d \in 1..Len(s)
      /\ c \in Nat /\ d \in Nat
  <2>1. c = n + start /\ d = n + end
    BY DEF n
  <2> HIDE DEF c, d
  <2> QED BY <1>1, <1>2, <2>1
<1> HIDE DEF c, d
<1>4. SubSeq(s, c, d) = SubSeq(t, start, end)
  <2> DEFINE x == SubSeq(s, c, d)
             y == SubSeq(t, start, end)
  <2>1. /\ x \in Seq(Pieces) /\ Len(x) = (d - c) + 1
        /\ \A k \in 1..((d - c) + 1) : x[k] = s[(c + k) - 1]
    BY <1>2, <1>3, PartOf, Zenon
  <2>2. /\ y \in Seq(Pieces) /\ Len(y) = (end - start) + 1
        /\ \A k \in 1..((end - start) + 1) : y[k] = t[(start + k) - 1]
    BY PartOf, Zenon
  <2> HIDE DEF x, y
  <2>3. (d - c) + 1 = (end - start) + 1
    BY <1>1, <1>3
  <2>4. ASSUME NEW k \in 1..Len(x) PROVE x[k] = y[k]
    <3>1. /\ k \in 1..((end - start) + 1) /\ k \in 1..((d - c) + 1)
          /\ (start + k) - 1 \in 1..Len(t)
          /\ n + ((start + k) - 1) = (c + k) - 1
      <4>1. k \in 1..((d - c) + 1) /\ k \in Nat
        BY <1>3, <2>1
      <4> HIDE DEF s
      <4> QED BY <1>1, <1>3, <2>3, <4>1
    <3>2. s[(c + k) - 1] = t[(start + k) - 1]
      BY <1>2, <3>1, Zenon
    <3> QED BY <2>1, <2>2, <3>1, <3>2, Zenon
  <2>5. Len(x) = Len(y)
    BY <2>1, <2>2, <2>3
  <2>6. x = y
    BY <2>1, <2>2, <2>4, <2>5, SameText, Zenon
  <2> QED BY <2>6 DEF x, y
<1>5. Before(s, c) = p \o Before(t, start)
  <2> DEFINE x == Before(s, c)
             u == Before(t, start)
             y == p \o u
  <2>1. /\ x \in Seq(Pieces) /\ Len(x) = c - 1
        /\ \A k \in 1..(c - 1) : x[k] = s[k]
    BY <1>2, <1>3, Around, Zenon
  <2>2. /\ u \in Seq(Pieces) /\ Len(u) = start - 1
        /\ \A k \in 1..(start - 1) : u[k] = t[k]
    BY Around, Zenon
  <2> HIDE DEF x, u
  <2>3. /\ y \in Seq(Pieces) /\ Len(y) = n + Len(u)
        /\ \A k \in 1..n : y[k] = p[k]
        /\ \A k \in 1..Len(u) : y[n + k] = u[k]
    BY <2>2, Joining, Zenon DEF n
  <2> HIDE DEF y
  <2>4. Len(x) = Len(y)
    BY <1>1, <1>3, <2>1, <2>2, <2>3
  <2>5. ASSUME NEW k \in 1..Len(x) PROVE x[k] = y[k]
    <3>1. k \in 1..(c - 1)
      BY <2>1
    <3>2. CASE k \in 1..n
      BY <1>2, <2>1, <2>3, <3>1, <3>2, Zenon
    <3>3. CASE k \notin 1..n
      <4> DEFINE i == k - n
      <4>1. /\ i \in 1..(start - 1) /\ i \in 1..Len(u) /\ i \in 1..Len(t)
            /\ n + i = k
        BY <1>1, <1>3, <2>2, <3>1, <3>3
      <4> HIDE DEF i
      <4>2. x[k] = s[k] /\ s[k] = t[i] /\ y[k] = u[i] /\ u[i] = t[i]
        BY <1>2, <2>1, <2>2, <2>3, <3>1, <4>1, Zenon
      <4> QED BY <4>2
    <3> QED BY <3>2, <3>3
  <2> QED BY <2>1, <2>3, <2>4, <2>5, SameText, Zenon DEF x, y, u
<1>6. After(s, d) = After(t, end) \o q
  <2> DEFINE x == After(s, d)
             u == After(t, end)
             y == u \o q
  <2>1. /\ x \in Seq(Pieces) /\ Len(x) = Len(s) - d
        /\ \A k \in 1..(Len(s) - d) : x[k] = s[d + k]
    BY <1>2, <1>3, Around, Zenon
  <2>2. /\ u \in Seq(Pieces) /\ Len(u) = Len(t) - end
        /\ \A k \in 1..(Len(t) - end) : u[k] = t[end + k]
    BY <1>1, Around, Zenon
  <2> HIDE DEF x, u
  <2>3. /\ y \in Seq(Pieces) /\ Len(y) = Len(u) + Len(q)
        /\ \A k \in 1..Len(u) : y[k] = u[k]
        /\ \A k \in 1..Len(q) : y[Len(u) + k] = q[k]
    BY <2>2, Joining, Zenon
  <2> HIDE DEF y
  <2>4. Len(x) = Len(y)
    BY <1>1, <1>2, <1>3, <2>1, <2>2, <2>3
  <2>5. ASSUME NEW k \in 1..Len(x) PROVE x[k] = y[k]
    <3>1. k \in 1..(Len(s) - d) /\ Len(u) \in Nat
      BY <1>1, <2>1, <2>2
    <3>2. CASE k \in 1..Len(u)
      <4>1. /\ k \in 1..(Len(t) - end) /\ end + k \in 1..Len(t)
            /\ n + (end + k) = d + k
        BY <1>1, <1>3, <2>2, <3>1, <3>2
      <4>2. x[k] = s[d + k] /\ s[d + k] = t[end + k] /\ u[k] = t[end + k]
            /\ y[k] = u[k]
        BY <1>2, <2>1, <2>2, <2>3, <3>1, <3>2, <4>1, Zenon
      <4> QED BY <4>2
    <3>3. CASE k \notin 1..Len(u)
      <4> DEFINE i == k - Len(u)
      <4>1. /\ i \in 1..Len(q) /\ Len(u) + i = k
            /\ (n + Len(t)) + i = d + k
        BY <1>1, <1>2, <1>3, <2>2, <3>1, <3>3
      <4> HIDE DEF i
      <4>2. x[k] = s[d + k] /\ s[d + k] = q[i] /\ y[k] = q[i]
        BY <1>2, <2>1, <2>3, <3>1, <4>1, Zenon
      <4> QED BY <4>2
    <3> QED BY <3>2, <3>3
  <2> QED BY <2>1, <2>3, <2>4, <2>5, SameText, Zenon DEF x, y, u
<1>7. Len(s) = (Len(p) + Len(t)) + Len(q)
  BY <1>2 DEF n
<1> QED BY <1>4, <1>5, <1>6, <1>7, Zenon DEF c, d, s, Stands

\* What the parser answers: an error, the text trimmed, or the call of an
\* object in it.
LEMMA ParseCases ==
    ASSUME NEW s \in Seq(Pieces)
    PROVE  LET t == Trim(s)
           IN  \/ IsBlank(s) /\ ParseAgentOutput(s) = Failure
               \/ ParseAgentOutput(s) = Speech(t)
               \/ \E start \in 1..Len(t) : \E end \in start..Len(t) :
                      /\ IsCall(SubSeq(t, start, end))
                      /\ ParseAgentOutput(s) = Call(t, start, end)
<1> DEFINE t == Trim(s)
           braces == {i \in 1..Len(t) : t[i] \in Opening}
           start == SelectInSeq(t, LAMBDA p : p \in Opening)
           ends == IF start = 0 THEN {} ELSE FindMatchingBrace(t, start)
<1>1. t \in Seq(Pieces) /\ (t = << >> => IsBlank(s))
  BY TrimIs, Zenon
<1>2. ParseAgentOutput(s) =
          IF t = << >> THEN Failure
          ELSE IF \E end \in ends : IsCall(SubSeq(t, start, end))
               THEN Call(t, start, Max(ends))
          ELSE Speech(t)
  BY Zenon DEF ParseAgentOutput
<1>3. start = IF braces = {} THEN 0 ELSE Min(braces)
  BY Zenon DEF SelectInSeq
<1>4. FindMatchingBrace(t, start) \subseteq start..Len(t)
  BY Zenon DEF FindMatchingBrace
<1> HIDE DEF t, start
<1>5. ASSUME braces # {} PROVE start \in 1..Len(t)
  <2>1. braces \in SUBSET Nat /\ braces \subseteq 1..Len(t)
    BY <1>1
  <2> HIDE DEF braces
  <2>2. PICK m \in braces : \A k \in braces : m <= k
    BY <1>5, <2>1, LeastNatural
  <2>3. Min(braces) = m
    BY <2>1, <2>2, MinOf
  <2> QED BY <1>3, <1>5, <2>1, <2>2, <2>3, Zenon
<1>6. ASSUME NEW end \in ends, IsCall(SubSeq(t, start, end))
      PROVE  /\ start \in 1..Len(t) /\ end \in start..Len(t)
             /\ Max(ends) = end
  <2>1. start # 0 /\ end \in FindMatchingBrace(t, start)
    BY Zenon
  <2>2. start \in 1..Len(t) /\ end \in start..Len(t)
    BY <1>3, <1>4, <1>5, <2>1, Zenon
  <2>3. FindMatchingBrace(t, start) = {end}
    BY <1>1, <1>6, <2>2, CallCloses, Zenon
  <2>4. ends = {end}
    BY <2>1, <2>3, Zenon
  <2>5. end >= end
    BY <2>2
  <2>6. Max({end}) = end
    BY <2>5, Zenon DEF Max
  <2> QED BY <2>2, <2>4, <2>6, Zenon
<1> HIDE DEF ends
<1>7. CASE t = << >>
  BY <1>1, <1>2, <1>7, Zenon
<1>8. CASE t # << >> /\ \E end \in ends : IsCall(SubSeq(t, start, end))
  <2>1. PICK end \in ends : IsCall(SubSeq(t, start, end))
    BY <1>8
  <2> QED BY <1>2, <1>6, <1>8, <2>1, Zenon DEF t
<1>9. CASE t # << >> /\ ~\E end \in ends : IsCall(SubSeq(t, start, end))
  BY <1>2, <1>9, Zenon DEF t
<1> QED BY <1>7, <1>8, <1>9

\* In an output of any length, everything visible is in the speech, in order,
\* or belongs to the one call that is taken from it.
THEOREM OutputKept == TextSpec => []NothingLost
<1>1. Typed => NothingLost
  <2> SUFFICES ASSUME text \in Seq(Pieces) PROVE NothingLost
    BY DEF Typed
  <2> DEFINE parsed == ParseAgentOutput(text)
  <2>1. CASE IsBlank(text) /\ parsed = Failure
    BY <2>1 DEF NothingLost, Failure
  <2>2. CASE parsed = Speech(Trim(text))
    <3>1. parsed.kind = "speech" /\ parsed.speech = Trim(text)
      BY <2>2 DEF Speech
    <3> HIDE DEF parsed
    <3>2. Seen(parsed.speech) = Seen(text)
      BY <3>1, SeenTrim, Zenon
    <3> QED BY <3>1, <3>2 DEF NothingLost, parsed
  <2>3. ASSUME \E start \in 1..Len(Trim(text)) :
                   \E end \in start..Len(Trim(text)) :
                       /\ IsCall(SubSeq(Trim(text), start, end))
                       /\ parsed = Call(Trim(text), start, end)
        PROVE  NothingLost
    <3>1. PICK t \in Seq(Pieces) : t = Trim(text)
      BY TrimIs
    <3>2. PICK start \in 1..Len(t) :
               \E end \in start..Len(t) : /\ IsCall(SubSeq(t, start, end))
                                         /\ parsed = Call(t, start, end)
      BY <2>3, <3>1
    <3>3. PICK end \in start..Len(t) : /\ IsCall(SubSeq(t, start, end))
                                       /\ parsed = Call(t, start, end)
      BY <3>2
    <3>4. PICK p, q \in Seq(Pieces) : /\ text = (p \o t) \o q
                                      /\ Seen(p) = << >> /\ Seen(q) = << >>
      BY <3>1, TrimIs
    <3> DEFINE c == Len(p) + start
               d == Len(p) + end
               b == Before(t, start)
               a == After(t, end)
    <3>5. /\ c \in 1..Len(text) /\ d \in c..Len(text)
          /\ SubSeq(text, c, d) = SubSeq(t, start, end)
          /\ Before(text, c) = p \o b /\ After(text, d) = a \o q
      <4>1. Stands((p \o t) \o q, p, t, q, start, end)
        BY Within, Zenon
      <4>2. Stands(text, p, t, q, start, end)
        BY <3>4, <4>1
      <4>3. c \in 1..Len(text) /\ d \in c..Len(text)
        BY <4>2 DEF Stands
      <4> QED BY <4>2, <4>3, Zenon DEF Stands
    <3>6. /\ b \in Seq(Pieces) /\ a \in Seq(Pieces)
          /\ start < end
      <4>1. end \in 1..Len(t)
        BY <3>3
      <4>2. b \in Seq(Pieces) /\ a \in Seq(Pieces)
        BY <3>3, <4>1, Around, Zenon
      <4>3. \E close \in (start + 1)..(end - 1) : TRUE
        BY <3>3, CallParts, Zenon
      <4>4. start < end
        BY <3>3, <4>3
      <4> QED BY <4>2, <4>4
    <3> HIDE DEF a, b
    <3>7. <<c, d>> \in CallsIn(text)
      <4>1. c < d /\ c \in DOMAIN text /\ d \in DOMAIN text
        BY <3>5, <3>6, <3>3
      <4>2. IsCall(SubSeq(text, c, d))
        BY <3>5, <3>3
      <4> HIDE DEF c, d
      <4> QED BY <4>1, <4>2 DEF CallsIn
    <3>8. Seen(Before(text, c)) = Seen(b) /\ Seen(After(text, d)) = Seen(a)
      <4>1. /\ Seen(p \o b) = Seen(p) \o Seen(b)
            /\ Seen(a \o q) = Seen(a) \o Seen(q)
        BY <3>6, SeenJoined, Zenon
      <4>2. << >> \o Seen(b) = Seen(b) /\ Seen(a) \o << >> = Seen(a)
        BY <3>6, SeenTyped
      <4> QED BY <3>4, <3>5, <4>1, <4>2, Zenon
    <3>9. Seen(Join(Trim(b), Trim(a))) = Seen(b) \o Seen(a)
      <4>1. Trim(b) \in Seq(Pieces) /\ Trim(a) \in Seq(Pieces)
        BY <3>6, TrimIs, Zenon
      <4>2. Seen(Trim(b)) = Seen(b) /\ Seen(Trim(a)) = Seen(a)
        BY <3>6, SeenTrim
      <4>3. Seen(Join(Trim(b), Trim(a))) = Seen(Trim(b)) \o Seen(Trim(a))
        BY <4>1, SeenJoin, Zenon
      <4> QED BY <4>2, <4>3
    <3> HIDE DEF c, d
    <3> DEFINE query == QueryOf(SubSeq(t, start, end))
    <3>10. parsed = IF IsBlank(query) \/ Len(query) > MaxQuery THEN Failure
                    ELSE [kind |-> "call",
                          speech |-> Join(Trim(b), Trim(a)), query |-> query]
      BY <3>3, Zenon DEF Call, a, b
    <3>11. query = QueryOf(SubSeq(text, c, d))
      BY <3>5, Zenon
    <3> HIDE DEF query, parsed
    <3>12. CASE parsed = Failure
      <4>1. parsed.kind = "error" /\ CallsIn(text) # {}
        BY <3>7, <3>12 DEF Failure
      <4> QED BY <4>1 DEF NothingLost, parsed
    <3>13. CASE parsed # Failure
      <4>1. /\ parsed.kind = "call" /\ parsed.query = query
            /\ parsed.speech = Join(Trim(b), Trim(a))
        BY <3>10, <3>13
      <4>2. /\ Seen(parsed.speech) =
                   Seen(Before(text, c)) \o Seen(After(text, d))
            /\ parsed.query = QueryOf(SubSeq(text, c, d))
        BY <3>8, <3>9, <3>11, <4>1, Zenon
      <4>3. \E e \in CallsIn(text) :
                /\ Seen(parsed.speech) =
                       Seen(Before(text, e[1])) \o Seen(After(text, e[2]))
                /\ parsed.query = QueryOf(SubSeq(text, e[1], e[2]))
        <5>1. <<c, d>>[1] = c /\ <<c, d>>[2] = d
          OBVIOUS
        <5> QED BY <3>7, <4>2, <5>1, Zenon
      <4> QED BY <4>1, <4>3 DEF NothingLost, parsed
    <3> QED BY <3>12, <3>13
  <2> QED BY <2>1, <2>2, <2>3, ParseCases
<1> QED BY <1>1, TextTyped, PTL
=============================================================================
