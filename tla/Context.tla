------------------------------- MODULE Context -------------------------------
(***************************************************************************)
(* The context graph one workflow's agents share (src/domain/context.rs),  *)
(* as the engine uses it: the state, the volatile slot that carries search *)
(* results to the next agent call, and whether the messages' total length  *)
(* exceeds max_context_length.  The messages themselves are abstracted to  *)
(* that one question, which is the only one the engine asks of them; the   *)
(* iteration counter is left out, nothing reads it.                        *)
(***************************************************************************)
EXTENDS WorkflowState

Contexts == [state : WorkflowStates, volatile : {"none", "results"},
             over : BOOLEAN]

NewContext == [state |-> InitialState, volatile |-> "none", over |-> FALSE]

\* transition_to once can_transition_to has agreed: the volatile slot is
\* emptied on every transition, whatever the target.
TransitionTo(c, t) == [c EXCEPT !.state = t, !.volatile = "none"]

\* add_message: the total length grows, and may now exceed the budget.
AddMessage(c) == {[c EXCEPT !.over = o] : o \in {c.over, TRUE}}

SetVolatile(c) == [c EXCEPT !.volatile = "results"]

ClearVolatile(c) == [c EXCEPT !.volatile = "none"]

\* reset_with_summary: one summary replaces the history; a summary may be
\* longer than the budget by itself.
ResetWithSummary(c) == {[c EXCEPT !.over = o] : o \in BOOLEAN}
=============================================================================
