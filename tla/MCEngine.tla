------------------------------- MODULE MCEngine -------------------------------
(***************************************************************************)
(* Instances of Engine for TLC.  They differ in the resume states a human  *)
(* picks: those of the same phase, those the README documents, or          *)
(* anything the request's type admits.                                     *)
(***************************************************************************)
EXTENDS Engine

Plain(names) == {<<n>> : n \in names}

DocumentedLimit == Plain(Resumable)
DocumentedTurn == [t \in Turns |-> DocumentedLimit]

\* A human who answers a failed turn by naming the phase it belongs to.
SamePhaseTurn ==
    [plan |-> Plain({"Planning"}),
     design |-> Plain({"Designing"}), designReview |-> Plain({"Designing"}),
     implement |-> Plain({"Implementing"}), review |-> Plain({"Reviewing"})]

\* The enum deserializes with nested return states; nesting is bounded to one
\* of each kind.
TypedLimit ==
    Plain(StateNames \ (Transient \cup {"AwaitingHumanInput"}))
        \cup {<<"CompressingContext", n>> : n \in {"Init", "Escalated"}}
        \cup {<<"CompressingContext", "ToolCalling", "Planning">>,
              <<"ToolCalling", "Planning">>}
TypedTurn == [t \in Turns |-> TypedLimit]
=============================================================================
