---------------------------- MODULE MCContextWindow ----------------------------
(* Instances of ContextWindow for TLC. *)
EXTENDS ContextWindow

\* Against a budget of 3: a message that leaves room, one that may not fit and
\* one that never does.
SomeLengths == {1, 2, 4}
=============================================================================
