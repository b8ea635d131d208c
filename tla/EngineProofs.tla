----------------------------- MODULE EngineProofs -----------------------------
(***************************************************************************)
(* The inductive invariant IInv of Engine holds for every value of the     *)
(* limits and every choice of resume states; type correctness, the single  *)
(* ticket of an escalation and the clean registry follow, and so does the  *)
(* safety part of the life cycle the server relies on.                     *)
(*                                                                         *)
(* The lemmas first take the operators the actions are built from, then    *)
(* one action each; Step puts the actions together.                        *)
(***************************************************************************)
EXTENDS Engine, TLAPS

-----------------------------------------------------------------------------
(* Facts about the states' representation: wrapping a state in a transient *)
(* variant, and unwrapping it again, gives states.                         *)

\* A variant without a return state is a state by itself.
LEMMA PlainState ==
    ASSUME NEW n \in StateNames \ Transient
    PROVE  /\ <<n>> \in WorkflowStates
           /\ Head(<<n>>) = n
BY DEF WorkflowStates

\* A state of any other variant than the transient ones is that variant.
LEMMA LoneState ==
    ASSUME NEW s \in WorkflowStates, Head(s) \notin Transient
    PROVE  s = <<Head(s)>>
<1>1. s \in Seq(StateNames) /\ Len(s) \in Nat /\ Len(s) # 0
  BY DEF WorkflowStates
<1>2. s[1] \notin Transient /\ Head(s) = s[1]
  BY <1>1
<1>3. ~(1 < Len(s))
  BY <1>1, <1>2 DEF WorkflowStates
<1>4. \A n \in Nat : n # 0 /\ ~(1 < n) => n = 1
  OBVIOUS
<1>5. Len(s) = 1
  BY <1>1, <1>3, <1>4
<1> QED BY <1>1, <1>2, <1>5

\* ToolCalling{return_to} and CompressingContext{return_to} of a state.
LEMMA WrappedState ==
    ASSUME NEW n \in Transient, NEW s \in WorkflowStates
    PROVE  /\ <<n>> \o s \in WorkflowStates
           /\ Head(<<n>> \o s) = n
           /\ Tail(<<n>> \o s) = s
<1> DEFINE w == <<n>> \o s
<1>1. s \in Seq(StateNames) /\ Len(s) \in Nat \ {0}
  BY DEF WorkflowStates
<1>2. n \in StateNames
  BY DEF StateNames
<1>3. /\ w \in Seq(StateNames)
      /\ Len(w) = Len(s) + 1
      /\ w[1] = n
      /\ \A i \in 2..Len(w) : w[i] = s[i - 1]
  BY <1>1, <1>2
<1>4. w # << >>
  BY <1>1, <1>3
<1>5. ASSUME NEW i \in 1..Len(w)
      PROVE  (i < Len(w)) <=> (w[i] \in Transient)
  <2>1. CASE i = 1
    BY <2>1, <1>1, <1>3
  <2>2. CASE i # 1
    <3>1. i - 1 \in 1..Len(s) /\ w[i] = s[i - 1]
      BY <2>2, <1>1, <1>3
    <3>2. (i - 1 < Len(s)) <=> (s[i - 1] \in Transient)
      BY <3>1 DEF WorkflowStates
    <3> QED BY <3>1, <3>2, <1>1, <1>3
  <2> QED BY <2>1, <2>2
<1>6. w \in WorkflowStates
  BY <1>3, <1>4, <1>5 DEF WorkflowStates
<1>7. Head(w) = n
  BY <1>3, <1>4
<1>8. Tail(w) = s
  BY <1>1, <1>3, <1>4
<1> QED BY <1>6, <1>7, <1>8

\* What a transient state returns to is a state.
LEMMA ReturnState ==
    ASSUME NEW s \in WorkflowStates, Head(s) \in Transient
    PROVE  Tail(s) \in WorkflowStates
<1> DEFINE t == Tail(s)
<1>1. s \in Seq(StateNames) /\ Len(s) \in Nat \ {0} /\ s[1] \in Transient
  BY DEF WorkflowStates
<1>2. 1 < Len(s)
  BY <1>1 DEF WorkflowStates
<1>3. /\ t \in Seq(StateNames)
      /\ Len(t) = Len(s) - 1
      /\ \A i \in 1..Len(t) : t[i] = s[i + 1]
  BY <1>1
<1>4. ASSUME NEW i \in 1..Len(t)
      PROVE  (i < Len(t)) <=> (t[i] \in Transient)
  <2>1. i + 1 \in 1..Len(s) /\ t[i] = s[i + 1]
    BY <1>1, <1>3
  <2>2. (i + 1 < Len(s)) <=> (s[i + 1] \in Transient)
    BY <2>1 DEF WorkflowStates
  <2> QED BY <2>1, <2>2, <1>1, <1>3
<1>5. t # << >>
  <2>1. Len(t) # 0
    BY <1>1, <1>2, <1>3
  <2>2. ASSUME t = << >> PROVE FALSE
    <3>1. Len(t) = Len(<< >>)
      BY <2>2
    <3>2. Len(<< >>) = 0
      OBVIOUS
    <3> QED BY <3>1, <3>2, <2>1
  <2> QED BY <2>2
<1> QED BY <1>3, <1>4, <1>5 DEF WorkflowStates

\* A state is not the empty path that stands for no state.
LEMMA StateNotEmpty ==
    ASSUME NEW s \in WorkflowStates
    PROVE  s # << >>
BY DEF WorkflowStates

-----------------------------------------------------------------------------
(* The operators the actions are built from. *)

\* What the context operators preserve and set.
LEMMA ContextOperators ==
    ASSUME NEW c \in Contexts
    PROVE  /\ c.state \in WorkflowStates
           /\ \A d \in AddMessage(c) : d \in Contexts /\ d.state = c.state
           /\ \A d \in ResetWithSummary(c) : d \in Contexts /\ d.state = c.state
           /\ SetVolatile(c) \in Contexts /\ SetVolatile(c).state = c.state
           /\ ClearVolatile(c) \in Contexts /\ ClearVolatile(c).state = c.state
           /\ \A t \in WorkflowStates :
                  TransitionTo(c, t) \in Contexts /\ TransitionTo(c, t).state = t
BY DEF Contexts, AddMessage, ResetWithSummary, SetVolatile, ClearVolatile,
       TransitionTo

\* The plain states the actions name, and the locals of no turn.
LEMMA NamedStates ==
    /\ InitialState \in WorkflowStates
    /\ \A n \in StateNames \ Transient : <<n>> \in WorkflowStates
    /\ NoTurn \in TurnLocals
    /\ NoState \notin WorkflowStates
<1>1. \A n \in StateNames \ Transient : <<n>> \in WorkflowStates
  BY PlainState
<1>2. InitialState \in WorkflowStates
  BY <1>1 DEF InitialState, StateNames, Transient
<1>3. NoTurn \in TurnLocals
  BY <1>2, BoundsAssumption DEF NoTurn, TurnLocals
<1>4. NoState \notin WorkflowStates
  BY StateNotEmpty DEF NoState
<1> QED BY <1>1, <1>2, <1>3, <1>4

\* The engine starts in the invariant.
LEMMA InitIInv == Init => IInv
<1> SUFFICES ASSUME Init PROVE IInv
  OBVIOUS
<1>1. TypeOK
  <2>1. context \in Contexts
    BY NamedStates DEF Init, NewContext, Contexts
  <2>2. events \in EventViews
    BY NamedStates DEF Init, EventViews, Texts
  <2>3. turn \in TurnLocals
    BY NamedStates DEF Init
  <2>4. designIterations \in 0..MaxIterations
        /\ reviewIterations \in 0..MaxIterations
    BY BoundsAssumption DEF Init
  <2> QED
    BY <2>1, <2>2, <2>3, <2>4 DEF Init, TypeOK, Results
<1>2. ControlOK /\ TurnOK
  BY BoundsAssumption
  DEF Init, ControlOK, TurnOK, NoTurn, Waiting, InTurn, Turns
<1>3. OneTicket /\ RegistryClean
  BY DEF Init, OneTicket, RegistryClean, Waiting
<1> QED BY <1>1, <1>2, <1>3 DEF IInv

\* run returning from anywhere keeps the invariant: only cancellation may
\* leave a ticket behind.
LEMMA StopKeeps ==
    ASSUME IInv,
           NEW r \in Results \ {"running"},
           Stop(r),
           context' \in Contexts,
           events' \in EventViews,
           designIterations' \in 0..MaxIterations,
           reviewIterations' \in 0..MaxIterations,
           justCompressed' \in BOOLEAN,
           cancelled' \in BOOLEAN,
           pc # "done",
           pc \in Waiting => r = "cancelled" \/ mailbox # NoState
    PROVE  IInv'
<1>1. TypeOK'
  BY NamedStates DEF IInv, TypeOK, Stop
<1>2. ControlOK'
  BY DEF Stop, ControlOK, Waiting
<1>3. TurnOK'
  BY BoundsAssumption DEF Stop, TurnOK, NoTurn, InTurn, Turns
<1>4. OneTicket'
  BY DEF IInv, OneTicket, Stop, Waiting
<1>5. RegistryClean'
  BY DEF IInv, OneTicket, RegistryClean, ControlOK, Stop
<1> QED BY <1>1, <1>2, <1>3, <1>4, <1>5 DEF IInv

\* While the engine runs and does not wait, nothing of an earlier escalation
\* is left.
LEMMA NoTicketLeft ==
    ASSUME IInv, pc \notin Waiting, pc # "done"
    PROVE  entry = FALSE /\ handler = NoState /\ mailbox = NoState
BY DEF IInv, RegistryClean, ControlOK, TypeOK

\* handle_escalation opens exactly one ticket.
LEMMA EscalateKeeps ==
    ASSUME IInv,
           NEW cause \in Causes, NEW c \in Contexts,
           Escalate(cause, c),
           pc \in {"loop", "llm"},
           turn' \in TurnLocals,
           turn'.call = turn.call,
           cause \in {"stream", "parse"} => turn.call \in Turns,
           turn'.parseRetries > MaxParseRetries => cause = "parse",
           justCompressed' \in BOOLEAN,
           UNCHANGED <<designIterations, reviewIterations, events, cancelled>>
    PROVE  IInv'
<1>1. entry = FALSE /\ handler = NoState /\ mailbox = NoState
  BY NoTicketLeft DEF Waiting
<1>2. TypeOK'
  BY NamedStates, ContextOperators
  DEF IInv, TypeOK, Escalate, Causes, Waiting, StateNames, Transient
<1>3. ControlOK'
  BY DEF IInv, ControlOK, Escalate, Waiting, Causes, Limits
<1>4. TurnOK'
  BY DEF IInv, TurnOK, Escalate, Waiting, InTurn, Causes, Limits
<1>5. OneTicket' /\ RegistryClean'
  BY <1>1 DEF OneTicket, RegistryClean, Escalate, Waiting
<1> QED BY <1>2, <1>3, <1>4, <1>5 DEF IInv

\* A step of the running engine that neither escalates nor returns leaves the
\* registry alone and only has to answer for its own locals.
LEMMA WorkKeeps ==
    ASSUME IInv,
           pc \notin Waiting, pc # "done",
           pc' \in {"loop", "summary"} \cup InTurn,
           context' \in Contexts,
           pc' = "summary" => Head(state') = "CompressingContext",
           events' \in EventViews,
           designIterations' \in 0..MaxIterations,
           reviewIterations' \in 0..MaxIterations,
           justCompressed' \in BOOLEAN,
           turn' \in TurnLocals,
           pc' \in InTurn => turn'.call \in Turns,
           turn'.call \in {"design", "designReview"} =>
               designIterations' < MaxIterations,
           turn'.call = "review" => reviewIterations' < MaxIterations,
           turn'.parseRetries <= MaxParseRetries,
           escalation \in {"stream", "parse"} => turn'.call \in Turns,
           UNCHANGED <<escalation, registry, cancelled, result>>
    PROVE  IInv'
<1>1. entry = FALSE /\ handler = NoState /\ mailbox = NoState
  BY NoTicketLeft
<1>2. TypeOK'
  BY DEF IInv, TypeOK, registry
<1>3. ControlOK'
  BY DEF IInv, ControlOK, Waiting, InTurn
<1>4. TurnOK'
  BY BoundsAssumption DEF IInv, TypeOK, TurnOK, TurnLocals
<1>5. OneTicket' /\ RegistryClean'
  BY <1>1 DEF OneTicket, RegistryClean, registry, Waiting, InTurn
<1> QED BY <1>2, <1>3, <1>4, <1>5 DEF IInv

-----------------------------------------------------------------------------
(* The arms of run's loop. *)

LEMMA StartCompressionKeeps == IInv /\ StartCompression => IInv'
<1> SUFFICES ASSUME IInv, StartCompression PROVE IInv'
  OBVIOUS
<1> DEFINE target == <<"CompressingContext">> \o state
<1>1. context \in Contexts /\ state \in WorkflowStates
  BY ContextOperators DEF IInv, TypeOK, state
<1>2. target \in WorkflowStates
  BY <1>1, WrappedState DEF Transient
<1>3. context' \in Contexts
  BY <1>1, <1>2, ContextOperators DEF StartCompression
<1>4. events' \in EventViews
  BY <1>2 DEF StartCompression, IInv, TypeOK, EventViews
<1> QED
  BY <1>3, <1>4, WorkKeeps, BoundsAssumption
  DEF StartCompression, IInv, TypeOK, TurnOK, ControlOK, TurnLocals, Waiting,
      InTurn, locals

\* What each arm starts from.
LEMMA ArmFacts ==
    ASSUME IInv, NEW names, Arm(names)
    PROVE  /\ pc = "loop" /\ Head(state) \in names
           /\ context \in Contexts /\ state \in WorkflowStates
           /\ justCompressed' \in BOOLEAN
           /\ UNCHANGED <<designIterations, reviewIterations, cancelled>>
           /\ designIterations \in 0..MaxIterations
           /\ reviewIterations \in 0..MaxIterations
           /\ turn.parseRetries <= MaxParseRetries
<1>1. pc = "loop" /\ Head(state) \in names /\ justCompressed' \in BOOLEAN
  BY DEF Arm
<1>2. UNCHANGED <<designIterations, reviewIterations, cancelled>>
  BY DEF Arm
<1>3. context \in Contexts /\ state \in WorkflowStates
  BY ContextOperators DEF IInv, TypeOK, state
<1>4. turn.parseRetries <= MaxParseRetries
  BY <1>1, BoundsAssumption DEF IInv, TypeOK, TurnOK, TurnLocals, Waiting
<1> QED
  BY <1>1, <1>2, <1>3, <1>4 DEF IInv, TypeOK

\* A turn starts in a typed context, below its limit.
LEMMA StartTurnKeeps ==
    ASSUME IInv,
           NEW call \in Turns, NEW c \in Contexts,
           StartTurn(call, c),
           pc \in {"loop", "llm"},
           call \in {"design", "designReview"} => designIterations < MaxIterations,
           call = "review" => reviewIterations < MaxIterations,
           justCompressed' \in BOOLEAN,
           events' \in EventViews,
           UNCHANGED <<designIterations, reviewIterations, cancelled>>
    PROVE  IInv'
<1>1. turn' \in TurnLocals /\ turn'.call = call /\ turn'.parseRetries = 0
  BY ContextOperators, BoundsAssumption DEF StartTurn, TurnLocals
<1> QED
  BY <1>1, WorkKeeps, BoundsAssumption
  DEF StartTurn, IInv, TypeOK, Waiting, InTurn

LEMMA InitArmKeeps == IInv /\ InitArm => IInv'
<1> SUFFICES ASSUME IInv, InitArm PROVE IInv'
  OBVIOUS
<1>1. <<"Planning">> \in WorkflowStates
  BY NamedStates DEF StateNames, Phases, Transient
<1>2. context' \in Contexts
  BY <1>1, ArmFacts, ContextOperators DEF InitArm
<1>3. events' \in EventViews
  BY <1>1 DEF InitArm, IInv, TypeOK, EventViews
<1> QED
  BY <1>2, <1>3, ArmFacts, WorkKeeps
  DEF InitArm, IInv, TypeOK, TurnOK, Waiting, InTurn

LEMMA PhaseArmsKeep ==
    IInv /\ (PlanningArm \/ DesigningArm \/ ImplementingArm \/ ReviewingArm)
        => IInv'
<1> SUFFICES ASSUME IInv PROVE
        /\ PlanningArm => IInv'
        /\ DesigningArm => IInv'
        /\ ImplementingArm => IInv'
        /\ ReviewingArm => IInv'
  OBVIOUS
<1> USE DEF Turns
<1>1. ASSUME PlanningArm PROVE IInv'
  BY <1>1, ArmFacts, StartTurnKeeps DEF PlanningArm, IInv, TypeOK
<1>2. ASSUME DesigningArm PROVE IInv'
  <2>1. CASE designIterations >= MaxIterations
    BY <1>2, <2>1, ArmFacts, EscalateKeeps, BoundsAssumption
    DEF DesigningArm, IInv, TypeOK, TurnLocals, Causes, Limits
  <2>2. CASE designIterations < MaxIterations
    BY <1>2, <2>2, ArmFacts, StartTurnKeeps, BoundsAssumption
    DEF DesigningArm, IInv, TypeOK
  <2> QED BY <2>1, <2>2, BoundsAssumption DEF IInv, TypeOK
<1>3. ASSUME ImplementingArm PROVE IInv'
  BY <1>3, ArmFacts, StartTurnKeeps DEF ImplementingArm, IInv, TypeOK
<1>4. ASSUME ReviewingArm PROVE IInv'
  <2>1. CASE reviewIterations >= MaxIterations
    BY <1>4, <2>1, ArmFacts, EscalateKeeps, BoundsAssumption
    DEF ReviewingArm, IInv, TypeOK, TurnLocals, Causes, Limits
  <2>2. CASE reviewIterations < MaxIterations
    BY <1>4, <2>2, ArmFacts, StartTurnKeeps, BoundsAssumption
    DEF ReviewingArm, IInv, TypeOK
  <2> QED BY <2>1, <2>2, BoundsAssumption DEF IInv, TypeOK
<1> QED BY <1>1, <1>2, <1>3, <1>4

LEMMA OtherArmsKeep ==
    IInv /\ (FinalArm \/ ToolCallingArm \/ CompressingArm) => IInv'
<1> SUFFICES ASSUME IInv PROVE
        /\ FinalArm => IInv'
        /\ ToolCallingArm => IInv'
        /\ CompressingArm => IInv'
  OBVIOUS
<1>1. ASSUME FinalArm PROVE IInv'
  BY <1>1, ArmFacts, StopKeeps
  DEF FinalArm, IInv, TypeOK, Waiting, Results
<1>2. ASSUME ToolCallingArm PROVE IInv'
  BY <1>2, ArmFacts, StopKeeps
  DEF ToolCallingArm, IInv, TypeOK, Waiting, Results
<1>3. ASSUME CompressingArm PROVE IInv'
  BY <1>3, ArmFacts, WorkKeeps
  DEF CompressingArm, IInv, TypeOK, TurnOK, Waiting, InTurn, state
<1> QED BY <1>1, <1>2, <1>3

LEMMA SummaryArrivesKeeps == IInv /\ SummaryArrives => IInv'
<1> SUFFICES ASSUME IInv, SummaryArrives PROVE IInv'
  OBVIOUS
<1>1. context \in Contexts /\ state \in WorkflowStates
  BY ContextOperators DEF IInv, TypeOK, state
<1>2. Tail(state) \in WorkflowStates
  BY <1>1, ReturnState DEF IInv, ControlOK, SummaryArrives, Transient
<1>3. context' \in Contexts
  BY <1>1, <1>2, ContextOperators DEF SummaryArrives
<1>4. events' \in EventViews
  BY <1>2 DEF SummaryArrives, IInv, TypeOK, EventViews, Texts
<1> QED
  BY <1>3, <1>4, WorkKeeps, BoundsAssumption
  DEF SummaryArrives, IInv, TypeOK, TurnOK, TurnLocals, Waiting, InTurn

-----------------------------------------------------------------------------
(* What calls to the model and the search come back with. *)

\* An arm's end: the next state is a named one.
LEMMA MoveOnKeeps ==
    ASSUME IInv,
           NEW c \in Contexts,
           NEW t \in WorkflowStates,
           NEW said \in Texts,
           MoveOn(c, t, said),
           pc = "llm",
           designIterations' \in 0..MaxIterations,
           reviewIterations' \in 0..MaxIterations,
           UNCHANGED <<justCompressed, cancelled>>
    PROVE  IInv'
<1>1. CASE RefuseTransition(t) /\ UNCHANGED context
           /\ events' = [events EXCEPT !.text = said]
  <2>1. events' \in EventViews
    BY <1>1 DEF IInv, TypeOK, EventViews
  <2> QED
    BY <1>1, <2>1, StopKeeps
    DEF RefuseTransition, IInv, TypeOK, Waiting, Results
<1>2. CASE /\ context' = TransitionTo(c, t)
           /\ events' = [state |-> t, text |-> said,
                         completed |-> t = <<"Completed">>]
           /\ pc' = "loop"
           /\ turn' = NoTurn
           /\ UNCHANGED <<escalation, registry, result>>
  <2>1. events' \in EventViews /\ context' \in Contexts
    BY <1>2, ContextOperators DEF EventViews
  <2>2. turn' \in TurnLocals /\ turn'.call = "none" /\ turn'.parseRetries = 0
    BY <1>2, NamedStates DEF NoTurn
  <2>3. escalation = "none"
    BY DEF IInv, ControlOK, Waiting
  <2> QED
    BY <1>2, <2>1, <2>2, <2>3, WorkKeeps, BoundsAssumption
    DEF IInv, TypeOK, Waiting, InTurn
<1> QED BY <1>1, <1>2 DEF MoveOn

\* The text a turn hands back, whoever worded it, keeps the invariant: the
\* arm moves on, starts the review of the design, or counts a rejection.
LEMMA TurnReturnsKeeps ==
    ASSUME IInv,
           NEW text, NEW said \in Texts,
           TurnReturns(text, said),
           pc = "llm",
           UNCHANGED cancelled
    PROVE  IInv'
<1>1. PICK c \in AddMessage(ClearVolatile(context)) :
        \/ /\ turn.call = "plan"
           /\ MoveOn(c, <<"Designing">>, said)
           /\ UNCHANGED locals
        \/ /\ turn.call = "design"
           /\ StartTurn("designReview", c)
           /\ events' = [events EXCEPT !.text = said]
           /\ UNCHANGED locals
        \/ /\ turn.call = "designReview" /\ text = "approve"
           /\ MoveOn(c, <<"Implementing">>, said)
           /\ UNCHANGED locals
        \/ /\ turn.call = "designReview" /\ text = "reject"
           /\ context' = c
           /\ designIterations' = designIterations + 1
           /\ events' = [events EXCEPT !.text = said]
           /\ pc' = "loop"
           /\ turn' = NoTurn
           /\ UNCHANGED <<reviewIterations, justCompressed, escalation,
                          registry, result>>
        \/ /\ turn.call = "implement"
           /\ MoveOn(c, <<"Reviewing">>, said)
           /\ UNCHANGED locals
        \/ /\ turn.call = "review" /\ text = "approve"
           /\ MoveOn(c, <<"Completed">>, said)
           /\ UNCHANGED locals
        \/ /\ turn.call = "review" /\ text = "reject"
           /\ MoveOn(c, <<"Implementing">>, said)
           /\ reviewIterations' = IF CanMoveTo(<<"Implementing">>)
                                  THEN reviewIterations + 1
                                  ELSE reviewIterations
           /\ UNCHANGED <<designIterations, justCompressed>>
  BY DEF TurnReturns
<1>2. c \in Contexts
  BY ContextOperators DEF IInv, TypeOK
<1>3. \A n \in {"Designing", "Implementing", "Reviewing", "Completed"} :
          <<n>> \in WorkflowStates
  BY NamedStates DEF StateNames, Phases, Transient
<1>4. /\ designIterations \in 0..MaxIterations
      /\ reviewIterations \in 0..MaxIterations
      /\ justCompressed \in BOOLEAN
      /\ escalation = "none"
      /\ [events EXCEPT !.text = said] \in EventViews
  BY DEF IInv, TypeOK, ControlOK, Waiting, EventViews
<1>5. CASE /\ \/ turn.call = "plan" /\ MoveOn(c, <<"Designing">>, said)
              \/ turn.call = "designReview" /\ MoveOn(c, <<"Implementing">>, said)
              \/ turn.call = "implement" /\ MoveOn(c, <<"Reviewing">>, said)
              \/ turn.call = "review" /\ MoveOn(c, <<"Completed">>, said)
           /\ UNCHANGED locals
  BY <1>2, <1>3, <1>4, <1>5, MoveOnKeeps DEF locals
<1>6. CASE /\ turn.call = "design"
           /\ StartTurn("designReview", c)
           /\ events' = [events EXCEPT !.text = said]
           /\ UNCHANGED locals
  BY <1>2, <1>4, <1>6, StartTurnKeeps DEF locals, IInv, TurnOK, Turns
<1>7. CASE /\ turn.call = "designReview"
           /\ context' = c
           /\ designIterations' = designIterations + 1
           /\ events' = [events EXCEPT !.text = said]
           /\ pc' = "loop"
           /\ turn' = NoTurn
           /\ UNCHANGED <<reviewIterations, justCompressed, escalation,
                          registry, result>>
  <2>1. designIterations' \in 0..MaxIterations
    BY <1>4, <1>7, BoundsAssumption DEF IInv, TurnOK
  <2>2. turn' \in TurnLocals /\ turn'.call = "none" /\ turn'.parseRetries = 0
    BY <1>7, NamedStates DEF NoTurn
  <2> QED
    BY <1>2, <1>4, <1>7, <2>1, <2>2, WorkKeeps, BoundsAssumption
    DEF Waiting, InTurn
<1>8. CASE /\ turn.call = "review"
           /\ MoveOn(c, <<"Implementing">>, said)
           /\ reviewIterations' = IF CanMoveTo(<<"Implementing">>)
                                  THEN reviewIterations + 1
                                  ELSE reviewIterations
           /\ UNCHANGED <<designIterations, justCompressed>>
  <2>1. reviewIterations' \in 0..MaxIterations
    BY <1>4, <1>8, BoundsAssumption DEF IInv, TurnOK
  <2> QED BY <1>2, <1>3, <1>4, <1>8, <2>1, MoveOnKeeps
<1> QED BY <1>1, <1>5, <1>6, <1>7, <1>8

LEMMA AgentTextKeeps == IInv /\ (AgentSpeaks \/ ToolLimitReached) => IInv'
BY TurnReturnsKeeps
DEF AgentSpeaks, ToolLimitReached, TextsOf, Texts, ReviewTurns

LEMMA ReviewPanicsKeeps == IInv /\ ReviewPanics => IInv'
<1> SUFFICES ASSUME IInv, ReviewPanics PROVE IInv'
  OBVIOUS
<1>1. events' \in EventViews
  BY DEF ReviewPanics, IInv, TypeOK, EventViews, Texts
<1> QED
  BY <1>1, StopKeeps
  DEF ReviewPanics, IInv, TypeOK, Waiting, Results, locals

\* A tool call wraps the state the turn started in and counts against its
\* limit.
LEMMA AgentCallsToolKeeps == IInv /\ AgentCallsTool => IInv'
<1> SUFFICES ASSUME IInv, AgentCallsTool PROVE IInv'
  OBVIOUS
<1> DEFINE calling == <<"ToolCalling">> \o turn.currentState
<1>1. calling \in WorkflowStates
  BY WrappedState DEF IInv, TypeOK, TurnLocals, Transient
<1>2. CASE RefuseTransition(calling) /\ UNCHANGED context
  BY <1>2, StopKeeps
  DEF AgentCallsTool, RefuseTransition, IInv, TypeOK, Waiting, Results, locals
<1>3. CASE /\ \E c \in AddMessage(context) :
                  context' = TransitionTo(c, calling)
           /\ turn' = [turn EXCEPT !.toolCalls = @ + 1, !.parseRetries = 0]
           /\ pc' = "search"
           /\ UNCHANGED <<escalation, registry, result>>
  <2>1. context' \in Contexts
    BY <1>1, <1>3, ContextOperators DEF IInv, TypeOK
  <2>2. /\ turn' \in TurnLocals
        /\ turn'.call = turn.call
        /\ turn'.parseRetries = 0
    <3>1. turn.toolCalls + 1 \in 0..MaxToolCalls
      BY BoundsAssumption DEF AgentCallsTool, IInv, TypeOK, TurnLocals
    <3>2. 0 \in 0..(MaxParseRetries + 1)
      BY BoundsAssumption
    <3>3. turn \in TurnLocals
      BY DEF IInv, TypeOK
    <3> QED BY <1>3, <3>1, <3>2, <3>3 DEF TurnLocals
  <2> QED
    BY <1>3, <2>1, <2>2, WorkKeeps, BoundsAssumption
    DEF AgentCallsTool, IInv, TypeOK, TurnOK, Waiting, InTurn, locals
<1> QED BY <1>2, <1>3 DEF AgentCallsTool

LEMMA SearchSucceedsKeeps == IInv /\ SearchSucceeds => IInv'
<1> SUFFICES ASSUME IInv, SearchSucceeds PROVE IInv'
  OBVIOUS
<1>1. context' \in Contexts
  BY ContextOperators DEF SearchSucceeds, IInv, TypeOK, TurnLocals
<1>2. turn.parseRetries <= MaxParseRetries
  BY BoundsAssumption
  DEF SearchSucceeds, IInv, TypeOK, TurnOK, TurnLocals, Waiting
<1> QED
  BY <1>1, <1>2, WorkKeeps
  DEF SearchSucceeds, IInv, TypeOK, TurnOK, Waiting, InTurn, locals

LEMMA OutputUnparseableKeeps == IInv /\ OutputUnparseable => IInv'
<1> SUFFICES ASSUME IInv, OutputUnparseable PROVE IInv'
  OBVIOUS
<1>1. turn.parseRetries \in 0..MaxParseRetries
  BY BoundsAssumption
  DEF OutputUnparseable, IInv, TypeOK, TurnOK, TurnLocals, Waiting
<1>2. /\ turn' \in TurnLocals
      /\ turn'.call = turn.call
      /\ turn'.parseRetries = turn.parseRetries + 1
  BY <1>1, BoundsAssumption DEF OutputUnparseable, IInv, TypeOK, TurnLocals
<1>3. turn.call \in Turns
  BY DEF OutputUnparseable, IInv, TurnOK, InTurn
<1>4. CASE Escalate("parse", ClearVolatile(context))
  BY <1>2, <1>3, <1>4, ContextOperators, EscalateKeeps
  DEF OutputUnparseable, IInv, TypeOK, Causes, locals
<1>5. CASE /\ turn.parseRetries + 1 <= MaxParseRetries
           /\ context' \in AddMessage(context)
           /\ UNCHANGED <<pc, escalation, registry, result>>
  <2>1. context' \in Contexts
    BY <1>5, ContextOperators DEF IInv, TypeOK
  <2> QED
    BY <1>2, <1>3, <1>5, <2>1, WorkKeeps
    DEF OutputUnparseable, IInv, TypeOK, TurnOK, Waiting, InTurn, locals
<1> QED BY <1>4, <1>5 DEF OutputUnparseable

LEMMA StreamBreaksKeeps == IInv /\ StreamBreaks => IInv'
<1> SUFFICES ASSUME IInv, StreamBreaks PROVE IInv'
  OBVIOUS
<1>1. turn.call \in Turns /\ ~(turn.parseRetries > MaxParseRetries)
  BY DEF StreamBreaks, IInv, TurnOK, InTurn, Waiting
<1> QED
  BY <1>1, ContextOperators, EscalateKeeps
  DEF StreamBreaks, IInv, TypeOK, Causes, locals

LEMMA CallFailsKeeps == IInv /\ CallFails => IInv'
BY StopKeeps
DEF CallFails, IInv, TypeOK, Waiting, InTurn, Results, locals

-----------------------------------------------------------------------------
(* The pause for a human, and cancellation. *)

LEMMA AnnounceWaitingKeeps == IInv /\ AnnounceWaiting => IInv'
<1> SUFFICES ASSUME IInv, AnnounceWaiting PROVE IInv'
  OBVIOUS
<1>1. <<"AwaitingHumanInput">> \in WorkflowStates
  BY NamedStates DEF StateNames, Transient
<1>2. context' \in Contexts /\ events' \in EventViews
  BY <1>1, ContextOperators DEF AnnounceWaiting, IInv, TypeOK, EventViews
<1>3. TypeOK'
  BY <1>2 DEF AnnounceWaiting, IInv, TypeOK, Waiting, locals, registry
<1>4. ControlOK' /\ TurnOK'
  BY DEF AnnounceWaiting, IInv, ControlOK, TurnOK, Waiting, InTurn, locals
<1>5. OneTicket' /\ RegistryClean'
  BY DEF AnnounceWaiting, IInv, OneTicket, RegistryClean, Waiting, registry
<1> QED BY <1>3, <1>4, <1>5 DEF IInv

\* The answer is the ticket: once it is taken nothing of it is left.
LEMMA ResumeKeeps == IInv /\ Resume => IInv'
<1> SUFFICES ASSUME IInv, Resume PROVE IInv'
  OBVIOUS
<1>1. /\ entry = FALSE /\ handler = NoState
      /\ mailbox \in WorkflowStates
  BY DEF Resume, IInv, TypeOK, OneTicket
<1>2. CASE /\ RefuseTransition(mailbox)
           /\ UNCHANGED <<context, events, designIterations, reviewIterations>>
  BY <1>2, StopKeeps
  DEF Resume, RefuseTransition, IInv, TypeOK, Results
<1>3. CASE /\ \E c \in AddMessage(context) : context' = TransitionTo(c, mailbox)
           /\ events' = [events EXCEPT !.state = mailbox]
           /\ ContinueAfter(escalation)
           /\ mailbox' = NoState
           /\ UNCHANGED <<entry, handler, result>>
  <2>1. context' \in Contexts /\ events' \in EventViews
    BY <1>1, <1>3, ContextOperators DEF IInv, TypeOK, EventViews
  <2>2. escalation \in Causes
    BY DEF Resume, IInv, TypeOK, ControlOK, Waiting
  <2>3. /\ designIterations' \in 0..MaxIterations
        /\ designIterations' <= designIterations
        /\ reviewIterations' \in 0..MaxIterations
        /\ reviewIterations' <= reviewIterations
    BY <1>3, BoundsAssumption DEF ContinueAfter, IInv, TypeOK
  <2>4. /\ turn' \in TurnLocals
        /\ turn'.call = turn.call
        /\ turn'.parseRetries \in 0..MaxParseRetries
    <3>1. CASE escalation = "parse"
      BY <1>3, <3>1, BoundsAssumption
      DEF ContinueAfter, IInv, TypeOK, TurnLocals
    <3>2. CASE escalation # "parse"
      <4>1. ~(turn.parseRetries > MaxParseRetries)
        BY <3>2 DEF IInv, TurnOK
      <4>2. turn' = turn
        BY <1>3, <3>2 DEF ContinueAfter
      <4> QED
        BY <4>1, <4>2, BoundsAssumption DEF IInv, TypeOK, TurnLocals
    <3> QED BY <3>1, <3>2
  <2>5. /\ pc' \in {"loop", "llm"}
        /\ pc' = "llm" => turn.call \in Turns
        /\ escalation' = "none"
    BY <1>3, <2>2 DEF ContinueAfter, IInv, TurnOK, Causes
  <2>6. justCompressed' = justCompressed /\ cancelled' = cancelled
    BY DEF Resume
  <2>7. TypeOK'
    BY <1>1, <1>3, <2>1, <2>3, <2>4, <2>5, <2>6 DEF IInv, TypeOK, InTurn
  <2>8. ControlOK'
    BY <1>3, <2>5 DEF IInv, ControlOK, Resume, Waiting
  <2>9. TurnOK'
    <3>1. /\ turn.call \in {"design", "designReview"} =>
                 designIterations' < MaxIterations
          /\ turn.call = "review" => reviewIterations' < MaxIterations
      BY <2>3, BoundsAssumption DEF IInv, TypeOK, TurnOK
    <3>2. ~(turn'.parseRetries > MaxParseRetries)
      BY <2>4, BoundsAssumption
    <3> QED
      BY <2>4, <2>5, <3>1, <3>2 DEF TurnOK, InTurn
  <2>10. OneTicket' /\ RegistryClean'
    BY <1>1, <1>3, <2>5 DEF OneTicket, RegistryClean, Waiting
  <2> QED BY <2>7, <2>8, <2>9, <2>10 DEF IInv
<1> QED BY <1>2, <1>3 DEF Resume

\* The handler takes the ticket out of the map into its own hands.
LEMMA TakeEntryKeeps == IInv /\ TakeEntry => IInv'
<1> SUFFICES ASSUME IInv, TakeEntry PROVE IInv'
  OBVIOUS
<1>1. handler' \in WorkflowStates /\ handler' # NoState
  BY ResumeAssumption, NamedStates DEF TakeEntry, IInv, TurnOK
<1>2. entry = TRUE /\ entry' = FALSE /\ mailbox = NoState /\ mailbox' = NoState
  BY DEF TakeEntry, IInv, TypeOK, OneTicket
<1>3. TypeOK'
  BY <1>1, <1>2 DEF TakeEntry, IInv, TypeOK, locals
<1>4. ControlOK' /\ TurnOK'
  BY DEF TakeEntry, IInv, ControlOK, TurnOK, Waiting, InTurn, locals, state
<1>5. OneTicket' /\ RegistryClean'
  BY <1>1, <1>2 DEF TakeEntry, IInv, OneTicket, RegistryClean
<1> QED BY <1>3, <1>4, <1>5 DEF IInv

\* ... and from there into the channel, if there is still a receiver.
LEMMA SendAnswerKeeps == IInv /\ SendAnswer => IInv'
<1> SUFFICES ASSUME IInv, SendAnswer PROVE IInv'
  OBVIOUS
<1>1. entry = FALSE /\ handler # NoState /\ handler' = NoState
      /\ mailbox = NoState /\ entry' = entry
  BY DEF SendAnswer, IInv, TypeOK, OneTicket
<1>2. mailbox' = IF pc \in Waiting THEN handler ELSE NoState
  BY <1>1 DEF SendAnswer
<1>3. TypeOK'
  BY <1>1, <1>2 DEF SendAnswer, IInv, TypeOK, locals
<1>4. ControlOK' /\ TurnOK'
  BY DEF SendAnswer, IInv, ControlOK, TurnOK, Waiting, InTurn, locals, state
<1>5. OneTicket' /\ RegistryClean'
  BY <1>1, <1>2 DEF SendAnswer, OneTicket, RegistryClean
<1> QED BY <1>3, <1>4, <1>5 DEF IInv

LEMMA CancelKeeps == IInv /\ Cancel => IInv'
BY StopKeeps DEF Cancel, IInv, TypeOK, Results, locals

\* A step that leaves everything IInv mentions as it is.
LEMMA StutterKeeps ==
    ASSUME IInv, cancelled' \in BOOLEAN,
           UNCHANGED <<context, locals, turn, pc, escalation, registry, events,
                       result>>
    PROVE  IInv'
<1>1. TypeOK'
  BY DEF IInv, TypeOK, locals, registry
<1>2. ControlOK' /\ TurnOK'
  BY DEF IInv, ControlOK, TurnOK, Waiting, InTurn, locals, state
<1>3. OneTicket' /\ RegistryClean'
  BY DEF IInv, OneTicket, RegistryClean, Waiting, registry
<1> QED BY <1>1, <1>2, <1>3 DEF IInv

-----------------------------------------------------------------------------
(* The theorems. *)

\* No step of the engine, of an intervention or of the client leaves IInv.
LEMMA Step == IInv /\ [Next]_vars => IInv'
<1> SUFFICES ASSUME IInv, [Next]_vars PROVE IInv'
  OBVIOUS
<1>1. CASE LoopStep
  BY <1>1, StartCompressionKeeps, InitArmKeeps, PhaseArmsKeep, OtherArmsKeep
  DEF LoopStep
<1>2. CASE CallReturns
  BY <1>2, SummaryArrivesKeeps, AgentTextKeeps, ReviewPanicsKeeps,
     AgentCallsToolKeeps, SearchSucceedsKeeps, OutputUnparseableKeeps,
     StreamBreaksKeeps, CallFailsKeeps
  DEF CallReturns
<1>3. CASE AnnounceWaiting
  BY <1>3, AnnounceWaitingKeeps
<1>4. CASE Resume
  BY <1>4, ResumeKeeps
<1>5. CASE Cancel
  BY <1>5, CancelKeeps
<1>6. CASE TakeEntry
  BY <1>6, TakeEntryKeeps
<1>7. CASE SendAnswer
  BY <1>7, SendAnswerKeeps
<1>8. CASE Disconnect
  BY <1>8, StutterKeeps DEF Disconnect
<1>9. CASE UNCHANGED vars
  BY <1>9, StutterKeeps DEF vars, IInv, TypeOK
<1> QED
  BY <1>1, <1>2, <1>3, <1>4, <1>5, <1>6, <1>7, <1>8, <1>9
  DEF Next, EngineStep, Terminated

\* IInv is an invariant of the engine.
THEOREM Invariance == Spec => []IInv
BY InitIInv, Step, PTL DEF Spec

\* Type correctness: in particular no iteration, tool-call or retry counter
\* ever passes its limit, whatever the agents answer and humans choose.
THEOREM TypeCorrect == Spec => []TypeOK
BY Invariance, PTL DEF IInv

\* At most one intervention is accepted for one escalation, and an accepted
\* one is never lost while the engine waits.
THEOREM SingleTicket == Spec => []OneTicket
BY Invariance, PTL DEF IInv

\* Only a workflow cancelled during its wait leaves an entry or an answer
\* behind.
THEOREM CleanRegistry == Spec => []RegistryClean
BY Invariance, PTL DEF IInv

-----------------------------------------------------------------------------
(* After WorkflowCompleted. *)

\* Once the client is told that the workflow is complete the engine is on its
\* way through the loop to the arm that ends it, or has ended.
CompletionEnds ==
    events.completed =>
        \/ pc = "loop" /\ state = <<"Completed">>
        \/ pc = "done" /\ result \in {"ok", "cancelled"}

\* Completed is neither compressed nor resumed: its arm is the only one open.
LEMMA CompletedStops ==
    ASSUME pc = "loop", state = <<"Completed">>, LoopStep
    PROVE  FinalArm
<1>1. Head(state) = "Completed"
  OBVIOUS
<1> QED
  BY <1>1
  DEF LoopStep, StartCompression, InitArm, PlanningArm, DesigningArm,
      ImplementingArm, ReviewingArm, ToolCallingArm, CompressingArm, Arm,
      MustCompress, Phases

\* Only the end of an arm announces completion, and only of Completed.
LEMMA MoveOnCompletes ==
    ASSUME NEW c \in Contexts, NEW t, NEW said, MoveOn(c, t, said),
           events \in EventViews, ~events.completed
    PROVE  CompletionEnds'
<1>1. CASE /\ context' = TransitionTo(c, t)
           /\ events'.completed = (t = <<"Completed">>)
           /\ pc' = "loop"
  BY <1>1 DEF CompletionEnds, TransitionTo, Contexts, state
<1>2. CASE events' = [events EXCEPT !.text = said]
  BY <1>2 DEF CompletionEnds, EventViews
<1> QED BY <1>1, <1>2 DEF MoveOn

LEMMA TurnReturnsCompletes ==
    ASSUME IInv, NEW text, NEW said, TurnReturns(text, said),
           ~events.completed
    PROVE  CompletionEnds'
<1>1. context \in Contexts /\ events \in EventViews
  BY DEF IInv, TypeOK
<1>2. \A c \in AddMessage(ClearVolatile(context)) : c \in Contexts
  BY <1>1, ContextOperators
<1>3. CASE events' = [events EXCEPT !.text = said]
  BY <1>1, <1>3 DEF CompletionEnds, EventViews
<1>4. CASE \E c \in Contexts, t \in {<<"Designing">>, <<"Implementing">>,
                                     <<"Reviewing">>, <<"Completed">>} :
               MoveOn(c, t, said)
  BY <1>1, <1>4, MoveOnCompletes
<1> QED BY <1>2, <1>3, <1>4 DEF TurnReturns

\* A step that comes before the completion keeps it to the end of an arm.
LEMMA CompletionStep == IInv /\ CompletionEnds /\ [Next]_vars => CompletionEnds'
<1> SUFFICES ASSUME IInv, CompletionEnds, [Next]_vars PROVE CompletionEnds'
  OBVIOUS
<1>1. /\ events \in EventViews
      /\ \A n, x : /\ [events EXCEPT !.state = n].completed = events.completed
                   /\ [events EXCEPT !.text = x].completed = events.completed
                   /\ [events EXCEPT !.state = n, !.text = x].completed
                          = events.completed
  BY DEF IInv, TypeOK, EventViews
<1>2. CASE LoopStep
  <2>1. CASE events.completed
    <3>1. FinalArm
      BY <1>2, <2>1, CompletedStops
      DEF CompletionEnds, LoopStep, StartCompression, InitArm, PlanningArm,
          DesigningArm, ImplementingArm, ReviewingArm, FinalArm,
          ToolCallingArm, CompressingArm, Arm
    <3> QED BY <3>1 DEF FinalArm, Stop, CompletionEnds
  <2>2. CASE ~events.completed
    <3>1. events' = events \/ \E n : events' = [events EXCEPT !.state = n]
      BY <1>2
      DEF LoopStep, StartCompression, InitArm, PlanningArm, DesigningArm,
          ImplementingArm, ReviewingArm, FinalArm, ToolCallingArm,
          CompressingArm
    <3>2. events'.completed = events.completed
      BY <1>1, <3>1
    <3> QED BY <2>2, <3>2 DEF CompletionEnds
  <2> QED BY <2>1, <2>2
<1>3. CASE AgentSpeaks \/ ToolLimitReached
  <2>1. ~events.completed
    BY <1>3 DEF AgentSpeaks, ToolLimitReached, CompletionEnds
  <2> QED
    BY <1>3, <2>1, TurnReturnsCompletes DEF AgentSpeaks, ToolLimitReached
<1>4. CASE SummaryArrives \/ ReviewPanics \/ AgentCallsTool \/ SearchSucceeds
           \/ OutputUnparseable \/ StreamBreaks \/ CallFails
           \/ AnnounceWaiting \/ Resume
  <2>1. ~events.completed
    BY <1>4
    DEF SummaryArrives, ReviewPanics, AgentCallsTool, SearchSucceeds,
        OutputUnparseable, StreamBreaks, CallFails, InTurn, AnnounceWaiting,
        Resume, CompletionEnds
  <2>2. \/ events' = events
        \/ \E n : events' = [events EXCEPT !.state = n]
        \/ \E x : events' = [events EXCEPT !.text = x]
        \/ \E n, x : events' = [events EXCEPT !.state = n, !.text = x]
    <3>1. CASE SummaryArrives
      BY <3>1 DEF SummaryArrives
    <3>2. CASE ReviewPanics
      BY <3>2 DEF ReviewPanics
    <3>3. CASE AnnounceWaiting \/ Resume
      BY <3>3 DEF AnnounceWaiting, Resume
    <3>4. CASE AgentCallsTool \/ SearchSucceeds \/ OutputUnparseable
               \/ StreamBreaks \/ CallFails
      BY <3>4 DEF AgentCallsTool, SearchSucceeds, OutputUnparseable,
                  StreamBreaks, CallFails
    <3> QED BY <1>4, <3>1, <3>2, <3>3, <3>4
  <2>3. CASE events' = events \/ \E n : events' = [events EXCEPT !.state = n]
    BY <1>1, <2>1, <2>3 DEF CompletionEnds
  <2>4. CASE \E x : events' = [events EXCEPT !.text = x]
    BY <1>1, <2>1, <2>4 DEF CompletionEnds
  <2>5. CASE \E n, x : events' = [events EXCEPT !.state = n, !.text = x]
    <3>1. PICK n, x : events' = [events EXCEPT !.state = n, !.text = x]
      BY <2>5
    <3>2. ~events'.completed
      BY <1>1, <2>1, <3>1 DEF EventViews
    <3> QED BY <3>2 DEF CompletionEnds
  <2> QED BY <2>2, <2>3, <2>4, <2>5
<1>5. CASE Cancel
  BY <1>5 DEF Cancel, Stop, CompletionEnds
<1>6. CASE TakeEntry \/ SendAnswer \/ Disconnect \/ UNCHANGED vars
  BY <1>6
  DEF TakeEntry, SendAnswer, Disconnect, vars, CompletionEnds, state
<1> QED
  BY <1>2, <1>3, <1>4, <1>5, <1>6
  DEF Next, EngineStep, CallReturns, Terminated

\* What a step after the completion may still do: end the run.
LEMMA NothingAfter ==
    ASSUME IInv, CompletionEnds, events.completed, [Next]_vars
    PROVE  UNCHANGED events /\ result' \in {"running", "ok", "cancelled"}
<1>1. /\ pc \in {"loop", "done"}
      /\ pc = "loop" => state = <<"Completed">> /\ result = "running"
      /\ pc = "done" => result \in {"ok", "cancelled"}
  BY DEF CompletionEnds, IInv, ControlOK
<1>2. CASE LoopStep
  <2>1. pc = "loop"
    BY <1>2
    DEF LoopStep, StartCompression, InitArm, PlanningArm, DesigningArm,
        ImplementingArm, ReviewingArm, FinalArm, ToolCallingArm,
        CompressingArm, Arm
  <2>2. FinalArm
    BY <1>1, <1>2, <2>1, CompletedStops
  <2> QED BY <2>2 DEF FinalArm, Stop
<1>3. ~(CallReturns \/ AnnounceWaiting \/ Resume)
  BY <1>1
  DEF CallReturns, SummaryArrives, AgentSpeaks, ToolLimitReached, ReviewPanics,
      AgentCallsTool, SearchSucceeds, OutputUnparseable, StreamBreaks,
      CallFails, InTurn, AnnounceWaiting, Resume
<1>4. CASE Cancel
  BY <1>4 DEF Cancel, Stop
<1>5. CASE TakeEntry \/ SendAnswer \/ Disconnect \/ UNCHANGED vars
  BY <1>1, <1>5 DEF TakeEntry, SendAnswer, Disconnect, vars
<1> QED
  BY <1>2, <1>3, <1>4, <1>5 DEF Next, EngineStep, Terminated

\* workflow_completed is true and the client's last event, whatever humans
\* resume with: afterwards the run only ends, well or cancelled.
THEOREM CompletionLast == Spec => CompletionIsLast
<1>1. Init => CompletionEnds
  BY DEF Init, CompletionEnds
<1>2. IInv /\ CompletionEnds /\ [Next]_vars =>
          [events.completed =>
               UNCHANGED events /\ result' \in {"running", "ok", "cancelled"}]_vars
  BY NothingAfter
<1> QED
  BY <1>1, <1>2, Invariance, CompletionStep, PTL DEF Spec, CompletionIsLast

-----------------------------------------------------------------------------
(* The engine implements the safety part of Lifecycle. *)

LEMMA LifecycleInit == Init => LC!Init
BY DEF Init, LC!Init, Waiting

\* Work between two escalations is invisible to the life cycle.
LEMMA WorkStutters ==
    ASSUME pc \notin Waiting, pc # "done",
           pc' \notin Waiting, pc' # "done",
           UNCHANGED <<registry, cancelled>>
    PROVE  UNCHANGED LC!vars
BY DEF registry, LC!vars

\* run returning outside a wait ends the workflow with no ticket about.
LEMMA StopEnds ==
    ASSUME IInv, NEW r, Stop(r), pc \notin Waiting, pc # "done",
           UNCHANGED cancelled
    PROVE  LC!End
<1>1. entry = FALSE /\ handler = NoState /\ mailbox = NoState
  BY NoTicketLeft
<1> QED BY <1>1 DEF Stop, LC!End, Waiting

\* An escalation asks its question.
LEMMA EscalateAsks ==
    ASSUME IInv, NEW cause, NEW c, Escalate(cause, c),
           pc \notin Waiting, pc # "done", UNCHANGED cancelled
    PROVE  LC!Ask
<1>1. entry = FALSE /\ handler = NoState /\ mailbox = NoState
  BY NoTicketLeft
<1> QED BY <1>1 DEF Escalate, LC!Ask, Waiting

\* An arm that moves on works on or, refused, ends.
LEMMA MoveOnMaps ==
    ASSUME IInv, NEW c, NEW t, NEW said, MoveOn(c, t, said), pc = "llm",
           UNCHANGED cancelled
    PROVE  LC!End \/ UNCHANGED LC!vars
BY StopEnds, WorkStutters DEF MoveOn, RefuseTransition, Waiting

LEMMA TurnReturnsMaps ==
    ASSUME IInv, NEW text, NEW said, TurnReturns(text, said), pc = "llm",
           UNCHANGED cancelled
    PROVE  LC!End \/ UNCHANGED LC!vars
<1>1. \/ \E c, t : MoveOn(c, t, said)
      \/ pc' \in {"loop", "llm"} /\ UNCHANGED registry
  BY DEF TurnReturns, StartTurn
<1> QED BY <1>1, MoveOnMaps, WorkStutters DEF Waiting

LEMMA LoopStepMaps ==
    IInv /\ LoopStep => LC!Ask \/ LC!End \/ UNCHANGED LC!vars
<1> SUFFICES ASSUME IInv, LoopStep
             PROVE  LC!Ask \/ LC!End \/ UNCHANGED LC!vars
  OBVIOUS
<1>1. pc = "loop" /\ UNCHANGED cancelled
  BY DEF LoopStep, StartCompression, InitArm, PlanningArm, DesigningArm,
         ImplementingArm, ReviewingArm, FinalArm, ToolCallingArm,
         CompressingArm, Arm
<1>2. CASE StartCompression \/ InitArm \/ CompressingArm
  BY <1>1, <1>2, WorkStutters
  DEF StartCompression, InitArm, CompressingArm, Waiting
<1>3. CASE PlanningArm \/ ImplementingArm
  BY <1>1, <1>3, WorkStutters
  DEF PlanningArm, ImplementingArm, StartTurn, Waiting
<1>4. CASE DesigningArm \/ ReviewingArm
  <2>1. \/ \E cause, c : Escalate(cause, c)
        \/ \E call, c : StartTurn(call, c)
    BY <1>4 DEF DesigningArm, ReviewingArm
  <2> QED BY <1>1, <2>1, EscalateAsks, WorkStutters DEF StartTurn, Waiting
<1>5. CASE FinalArm \/ ToolCallingArm
  BY <1>1, <1>5, StopEnds DEF FinalArm, ToolCallingArm, Waiting
<1> QED BY <1>2, <1>3, <1>4, <1>5 DEF LoopStep

LEMMA CallReturnsMaps ==
    IInv /\ CallReturns => LC!Ask \/ LC!End \/ UNCHANGED LC!vars
<1> SUFFICES ASSUME IInv, CallReturns
             PROVE  LC!Ask \/ LC!End \/ UNCHANGED LC!vars
  OBVIOUS
<1>1. CASE SummaryArrives \/ SearchSucceeds
  BY <1>1, WorkStutters DEF SummaryArrives, SearchSucceeds, Waiting
<1>2. CASE AgentSpeaks \/ ToolLimitReached
  BY <1>2, TurnReturnsMaps DEF AgentSpeaks, ToolLimitReached
<1>3. CASE ReviewPanics \/ CallFails
  BY <1>3, StopEnds DEF ReviewPanics, CallFails, Waiting, InTurn
<1>4. CASE AgentCallsTool
  BY <1>4, StopEnds, WorkStutters
  DEF AgentCallsTool, RefuseTransition, Waiting
<1>5. CASE OutputUnparseable
  BY <1>5, EscalateAsks, WorkStutters DEF OutputUnparseable, Waiting
<1>6. CASE StreamBreaks
  BY <1>6, EscalateAsks DEF StreamBreaks, Waiting
<1> QED BY <1>1, <1>2, <1>3, <1>4, <1>5, <1>6 DEF CallReturns

LEMMA ResumeMaps == IInv /\ Resume => LC!TakeAnswer
<1> SUFFICES ASSUME IInv, Resume PROVE LC!TakeAnswer
  OBVIOUS
<1>1. /\ entry = FALSE /\ handler = NoState /\ mailbox # NoState
      /\ entry' = entry /\ handler' = handler /\ mailbox' = NoState
  BY DEF Resume, RefuseTransition, Stop, IInv, TypeOK, OneTicket
<1>2. pc = "awaiting" /\ pc' \in {"loop", "llm", "done"}
      /\ UNCHANGED cancelled
  BY DEF Resume, RefuseTransition, Stop, ContinueAfter
<1> QED BY <1>1, <1>2 DEF LC!TakeAnswer, Waiting

LEMMA CancelMaps == IInv /\ Cancel => LC!Abort
<1> SUFFICES ASSUME IInv, Cancel PROVE LC!Abort
  OBVIOUS
<1>1. /\ cancelled /\ UNCHANGED cancelled
      /\ pc # "done" /\ pc' = "done"
      /\ entry' = entry /\ handler' = handler /\ mailbox' = NoState
  BY DEF Cancel, Stop
<1>2. cancelled \in BOOLEAN
  BY DEF IInv, TypeOK
<1> QED BY <1>1, <1>2 DEF LC!Abort, Waiting

LEMMA InterventionMaps ==
    /\ IInv /\ TakeEntry => LC!Answer
    /\ IInv /\ SendAnswer => LC!LoseAnswer \/ UNCHANGED LC!vars
<1>1. ASSUME IInv, TakeEntry PROVE LC!Answer
  <2>1. handler' # NoState
    BY <1>1, ResumeAssumption, NamedStates DEF TakeEntry, IInv, TurnOK
  <2> QED BY <1>1, <2>1 DEF TakeEntry, LC!Answer
<1>2. ASSUME IInv, SendAnswer
      PROVE  LC!LoseAnswer \/ UNCHANGED LC!vars
  <2>1. entry = FALSE /\ handler # NoState /\ mailbox = NoState
    BY <1>2 DEF SendAnswer, IInv, TypeOK, OneTicket
  <2>2. entry' = FALSE /\ handler' = NoState /\ UNCHANGED <<pc, cancelled>>
    BY <1>2, <2>1 DEF SendAnswer
  <2>3. CASE pc \in Waiting
    <3>1. mailbox' = handler
      BY <1>2, <2>3 DEF SendAnswer
    <3> QED BY <2>1, <2>2, <3>1 DEF LC!vars
  <2>4. CASE pc \notin Waiting
    <3>1. mailbox' = NoState
      BY <1>2, <2>1, <2>4 DEF SendAnswer
    <3>2. pc = "done"
      BY <1>2, <2>1, <2>4 DEF IInv, RegistryClean, ControlOK
    <3> QED BY <2>1, <2>2, <3>1, <3>2 DEF LC!LoseAnswer, Waiting
  <2> QED BY <2>3, <2>4
<1> QED BY <1>1, <1>2

LEMMA LifecycleStep == IInv /\ [Next]_vars => [LC!Next]_LC!vars
<1> SUFFICES ASSUME IInv, [Next]_vars PROVE LC!Next \/ UNCHANGED LC!vars
  OBVIOUS
<1>1. CASE LoopStep \/ CallReturns
  BY <1>1, LoopStepMaps, CallReturnsMaps DEF LC!Next
<1>2. CASE AnnounceWaiting
  BY <1>2 DEF AnnounceWaiting, LC!vars, registry, Waiting
<1>3. CASE Resume \/ Cancel
  BY <1>3, ResumeMaps, CancelMaps DEF LC!Next
<1>4. CASE TakeEntry \/ SendAnswer
  BY <1>4, InterventionMaps DEF LC!Next
<1>5. CASE Disconnect
  <2>1. /\ cancelled = FALSE /\ cancelled' = TRUE
        /\ UNCHANGED <<pc, entry, handler, mailbox>>
    BY <1>5 DEF Disconnect, IInv, TypeOK, registry
  <2> QED BY <2>1 DEF LC!Next, LC!Leave
<1>6. CASE UNCHANGED vars
  BY <1>6 DEF vars, registry, LC!vars
<1> QED
  BY <1>1, <1>2, <1>3, <1>4, <1>5, <1>6 DEF Next, EngineStep, Terminated

\* Whatever agents, humans and clients do, the engine asks one question at a
\* time, takes one answer to each, and never works on without it.
THEOREM SafeLifecycle == Spec => LC!SafeSpec
BY Invariance, LifecycleInit, LifecycleStep, PTL DEF Spec, LC!SafeSpec
=============================================================================
