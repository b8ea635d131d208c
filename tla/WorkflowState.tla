---------------------------- MODULE WorkflowState ----------------------------
(***************************************************************************)
(* The states of a workflow and the transitions the engine may make        *)
(* between them (src/domain/state.rs).                                     *)
(*                                                                         *)
(* A value of the Rust enum is the path of its variants' names:            *)
(* <<"Planning">> is Planning, <<"ToolCalling", "Designing">> is           *)
(* ToolCalling{return_to: Designing}.  The head is the variant, the tail   *)
(* of a ToolCalling or CompressingContext is the state it returns to.      *)
(***************************************************************************)
EXTENDS Naturals, Sequences

\* The phases an agent works in.
Phases == {"Planning", "Designing", "Implementing", "Reviewing"}

\* The variants that carry the state they return to.
Transient == {"ToolCalling", "CompressingContext"}

StateNames ==
    Phases \cup Transient
           \cup {"Init", "Completed", "Escalated", "AwaitingHumanInput"}

WorkflowStates ==
    {s \in Seq(StateNames) :
        /\ s # << >>
        /\ \A i \in 1..Len(s) : (i < Len(s)) <=> (s[i] \in Transient)}

InitialState == <<"Init">>

\* The pairs of variants match arms name outright.
Edges == {<<"Init", "Planning">>, <<"Planning", "Designing">>,
          <<"Designing", "Implementing">>, <<"Implementing", "Reviewing">>,
          <<"Reviewing", "Implementing">>, <<"Reviewing", "Completed">>,
          <<"Escalated", "AwaitingHumanInput">>}

\* The states can_transition_to lets a human resume in.
Resumable == Phases \cup {"Completed"}

CanTransitionTo(s, t) ==
    \/ <<Head(s), Head(t)>> \in Edges
    \/ Head(s) \in Phases /\ Head(t) = "ToolCalling"
    \/ Head(s) = "AwaitingHumanInput" /\ Head(t) \in Resumable
    \/ Head(s) \in Transient /\ Tail(s) = t
    \/ Head(t) \in {"CompressingContext", "Escalated"}
=============================================================================
