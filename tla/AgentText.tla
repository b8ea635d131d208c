------------------------------- MODULE AgentText -------------------------------
(***************************************************************************)
(* The texts an agent may answer with, which OutputParser and              *)
(* ReviewDecision read.  Its steps are no steps of the code: they          *)
(* enumerate the texts, so that an invariant of TextSpec is a statement    *)
(* about each.  How the text comes about is the matter of LlmCall.         *)
(*                                                                         *)
(* Words are stretches of ASCII letters: "approve", "reject" and "revise"  *)
(* are any one-word keyword of that kind, in any case; "word" is a short   *)
(* one and "prose" a long text that begins and ends with letters.  "wide"  *)
(* is a character of three bytes, "esc" a backslash, and "open" stands for *)
(* {"action":"search","query":" and so ends within a string.               *)
(***************************************************************************)
EXTENDS Naturals, Sequences, FiniteSetsExt, SequencesExt

CONSTANTS
    Alphabets,    \* the pieces a text is made of, one set per kind of text
    MaxPieces     \* bound: pieces of a text

Keywords == {"approve", "reject", "revise"}
Words == Keywords \cup {"word", "prose"}
Opening == {"{", "open"}
Pieces == Words \cup Opening \cup {"}", "quote", "esc", "wide", "space"}

ASSUME TextAssumption == Alphabets \subseteq SUBSET Pieces /\ MaxPieces \in Nat

VARIABLE text

TextInit == text = << >>

\* One piece more.
Grow ==
    /\ Len(text) < MaxPieces
    /\ \E alphabet \in Alphabets :
           /\ ToSet(text) \subseteq alphabet
           /\ \E p \in alphabet : text' = Append(text, p)

Terminated == Len(text) = MaxPieces /\ UNCHANGED text

TextNext == Grow \/ Terminated

TextSpec == TextInit /\ [][TextNext]_text

-----------------------------------------------------------------------------
Visible(s) == {i \in DOMAIN s : s[i] # "space"}
IsBlank(s) == Visible(s) = {}

\* str::trim
Trim(s) ==
    IF IsBlank(s) THEN << >>
    ELSE SubSeq(s, Min(Visible(s)), Max(Visible(s)))

Before(s, i) == SubSeq(s, 1, i - 1)
After(s, i) == SubSeq(s, i + 1, Len(s))
=============================================================================
