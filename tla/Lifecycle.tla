------------------------------ MODULE Lifecycle ------------------------------
(***************************************************************************)
(* What a workflow promises the server and its human, whatever its agents  *)
(* do: it works, asks for help at most once at a time, takes exactly one   *)
(* answer to each question, and ends when its client has gone.  Engine     *)
(* implements this module in detail; Server runs several workflows that    *)
(* each keep to it (src/engine/mod.rs, src/server/router.rs).              *)
(***************************************************************************)

VARIABLES
    status,    \* "working", "asking" a human, or "ended"
    ticket,    \* the question: "none", "open" to be answered, "answered"
    gone       \* the client has gone

vars == <<status, ticket, gone>>

Init == status = "working" /\ ticket = "none" /\ gone = FALSE

\* A question is put; its task_id can be answered from now on.
Ask ==
    /\ status = "working"
    /\ status' = "asking"
    /\ ticket' = "open"
    /\ UNCHANGED gone

\* Someone wins the right to answer.
Answer ==
    /\ ticket = "open"
    /\ ticket' \in {"answered", "none"}
    /\ status = "asking" => ticket' = "answered"
    /\ UNCHANGED <<status, gone>>

\* The answer is taken: work goes on, or the answer cannot be followed and
\* the workflow ends.
TakeAnswer ==
    /\ status = "asking"
    /\ ticket = "answered"
    /\ status' \in {"working", "ended"}
    /\ ticket' = "none"
    /\ UNCHANGED gone

\* The workflow completes or fails.
End ==
    /\ status = "working"
    /\ status' = "ended"
    /\ UNCHANGED <<ticket, gone>>

Leave ==
    /\ ~gone
    /\ gone' = TRUE
    /\ UNCHANGED <<status, ticket>>

\* A workflow without a client stops where it stands.  Its open question may
\* stay behind; an answer on its way is lost, now or when it arrives.
Abort ==
    /\ gone
    /\ status # "ended"
    /\ status' = "ended"
    /\ ticket' \in {ticket, "none"}
    /\ UNCHANGED gone

LoseAnswer ==
    /\ status = "ended"
    /\ ticket = "answered"
    /\ ticket' = "none"
    /\ UNCHANGED <<status, gone>>

Next == Ask \/ Answer \/ TakeAnswer \/ End \/ Leave \/ Abort \/ LoseAnswer

SafeSpec == Init /\ [][Next]_vars

Fairness == WF_vars(TakeAnswer \/ Abort) /\ WF_vars(LoseAnswer)

Spec == SafeSpec /\ Fairness
=============================================================================
