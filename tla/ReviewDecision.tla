---------------------------- MODULE ReviewDecision ----------------------------
(***************************************************************************)
(* parse_review_decision, extract_reason_after and truncate_reason         *)
(* (src/domain/decision.rs): how a reviewer's text is judged.              *)
(*                                                                         *)
(* The punctuation trimmed before a reason is left out, and so are         *)
(* keywords of two words and characters whose lower case has another       *)
(* length.                                                                 *)
(***************************************************************************)
EXTENDS AgentText

\* The bytes of a piece, where there is more than one.
Width ==
    [approve |-> 7, reject |-> 6, revise |-> 6, word |-> 4, prose |-> 196,
     wide |-> 3, open |-> 28]

MaxReason == 200      \* truncate_reason's limit ...
Cut == 197            \* ... and where it cuts a longer text

Bytes(s) ==
    FoldLeft(LAMBDA sum, p : sum + (IF p \in DOMAIN Width THEN Width[p] ELSE 1),
             0, s)

\* Defect: the byte after the keyword is not looked at.
IsWordBoundary_BeforeOnly(s, i) ==
    i = 1 \/ s[i - 1] \notin Words

\* No letter, digit or underscore of ASCII stands next to place i.
IsWordBoundary(s, i) ==
    \A j \in {i - 1, i + 1} \cap DOMAIN s : s[j] \notin Words

Matches(s) == {i \in DOMAIN s : s[i] \in Keywords /\ IsWordBoundary(s, i)}

\* Defect: the last one found wins, approvals being looked for first.
Winner_LastFound(s) ==
    LET of(kind) == {i \in Matches(s) : s[i] = kind}
        later == of("reject") \cup of("revise")
    IN  IF later = {} THEN Max(Matches(s)) ELSE Max(later)

\* The keyword furthest back in the text.
Winner(s) == Max(Matches(s))

\* What a review amounts to; without a keyword it is a request to revise.
ParseReviewDecision(s) == IF Matches(s) = {} THEN "revise" ELSE s[Winner(s)]

\* The text a reason is cut from: what follows the keyword, or all there is
\* when nothing does.
ReasonText(s) ==
    LET rest == IF Matches(s) = {} THEN << >> ELSE Trim(After(s, Winner(s)))
    IN  IF rest = << >> THEN Trim(s) ELSE rest

\* A cut after so many bytes of s falls inside a character.
Splits(s, bytes) ==
    \E i \in DOMAIN s :
        /\ s[i] = "wide"
        /\ Bytes(Before(s, i)) \in (bytes - Width["wide"] + 1)..(bytes - 1)

\* Slicing a str inside a character panics.
Panics(s) ==
    /\ ParseReviewDecision(s) # "approve"
    /\ Bytes(ReasonText(s)) > MaxReason
    /\ Splits(ReasonText(s), Cut)

-----------------------------------------------------------------------------
(* Properties *)

\* Last keyword wins: a text continued after a space is judged by its
\* continuation alone if that has a keyword, else by what came before.
LastKeywordWins ==
    \A i \in DOMAIN text :
        text[i] = "space" =>
            LET decided == IF Matches(After(text, i)) = {} THEN Before(text, i)
                           ELSE After(text, i)
            IN  ParseReviewDecision(text) = ParseReviewDecision(decided)

\* Only a reviewer who writes approve as a word of its own approves, never one
\* who writes a longer word that contains it, and never by default.
ApprovalIsAWord ==
    ParseReviewDecision(text) = "approve" =>
        \E i \in DOMAIN text :
            /\ text[i] = "approve"
            /\ \A j \in DOMAIN text :
                   j \in {i - 1, i + 1} =>
                       text[j] \notin Words

\* A reason is cut to at most 200 bytes, whatever the review says.
ReasonIsCut == ~Panics(text)
=============================================================================
