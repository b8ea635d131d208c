-------------------------------- MODULE MCTexts --------------------------------
(* Instances of the two readers of an agent's text for TLC. *)
EXTENDS OutputParser, ReviewDecision

\* Texts that may call a tool, with a keyword in the place of other words, and
\* reviews.
Calls == {"{", "}", "quote", "esc", "approve", "space", "open"}
Reviews == {"approve", "reject", "revise", "word", "prose", "wide", "space"}
Both == {Calls, Reviews}
OnlyReviews == {Reviews}
=============================================================================
