--------------------------- MODULE EngineResumeProofs ---------------------------
(***************************************************************************)
(* What Engine guarantees when humans resume with care.  Two assumptions   *)
(* on the resume states, each as weak as its theorems need:                *)
(*   SamePhaseResume - a broken turn is resumed in the phase it belongs    *)
(*     to, an iteration limit anywhere the documentation allows;           *)
(*   FinalResume - no resume state leads to Escalated or                   *)
(*     AwaitingHumanInput again.                                           *)
(***************************************************************************)
EXTENDS EngineProofs

PhaseOf ==
    [plan |-> "Planning", design |-> "Designing", designReview |-> "Designing",
     implement |-> "Implementing", review |-> "Reviewing"]

Plain(names) == {<<n>> : n \in names}

SamePhaseResume ==
    /\ LimitResume \subseteq Plain(Resumable)
    /\ \A t \in Turns : TurnResume[t] \subseteq {<<PhaseOf[t]>>}

Broken == escalation \in {"stream", "parse"}
OwnPhase == <<PhaseOf[turn.call]>>
Compressed == {<<"CompressingContext">> \o <<p>> : p \in Phases}

\* At each await the workflow is where the code that continues expects it.
Place ==
    /\ pc = "loop" =>
           state \in Plain({"Init", "Completed"} \cup Phases) \cup Compressed
    /\ pc = "summary" => state \in Compressed
    /\ pc = "llm" => state = OwnPhase
    /\ pc = "search" => state = <<"ToolCalling">> \o OwnPhase
    /\ pc = "escalating" => state = <<"Escalated">>
    /\ pc = "awaiting" => state = <<"AwaitingHumanInput">>
    /\ pc \in InTurn \/ Broken => turn.currentState = OwnPhase

\* An answer on its way names a state SamePhaseResume allows.
Answers ==
    \A s \in {handler, mailbox} :
        pc \in Waiting /\ s # NoState =>
            s \in IF Broken THEN {OwnPhase} ELSE Plain(Resumable)

\* The client is told, a running search aside, whose end is not announced.
Told ==
    /\ pc \in {"loop", "llm"} => events.state = state
    /\ pc = "search" => events.state = turn.currentState

Outcome ==
    /\ result # "invalid"
    /\ result = "ok" => state = <<"Completed">>

PInv == Place /\ Answers /\ Told /\ Outcome

-----------------------------------------------------------------------------
(* Transitions between the states Place names. *)

LEMMA NamedHeads ==
    /\ \A n \in StateNames : Head(<<n>>) = n
    /\ \A n \in Transient, p \in Phases :
           /\ Head(<<n>> \o <<p>>) = n
           /\ Tail(<<n>> \o <<p>>) = <<p>>
<1>1. \A n \in StateNames : Head(<<n>>) = n
  OBVIOUS
<1>2. \A p \in Phases : <<p>> \in WorkflowStates
  BY PlainState DEF StateNames, Phases, Transient
<1> QED BY <1>1, <1>2, WrappedState

LEMMA ArmTransitions ==
    /\ CanTransitionTo(<<"Planning">>, <<"Designing">>)
    /\ CanTransitionTo(<<"Designing">>, <<"Implementing">>)
    /\ CanTransitionTo(<<"Implementing">>, <<"Reviewing">>)
    /\ CanTransitionTo(<<"Reviewing">>, <<"Completed">>)
    /\ CanTransitionTo(<<"Reviewing">>, <<"Implementing">>)
    /\ \A n \in Resumable :
           CanTransitionTo(<<"AwaitingHumanInput">>, <<n>>)
    /\ \A p \in Phases :
           CanTransitionTo(<<p>>, <<"ToolCalling">> \o <<p>>)
BY NamedHeads DEF CanTransitionTo, Edges, StateNames, Phases, Transient, Resumable

\* Every turn has its phase.
LEMMA TurnPhase == \A t \in Turns : PhaseOf[t] \in Phases
BY DEF Turns, PhaseOf, Phases

-----------------------------------------------------------------------------
(* One lemma per kind of step. *)

\* run returns.
LEMMA StopsInPlace ==
    ASSUME NEW r, Stop(r), r # "invalid",
           r = "ok" => state' = <<"Completed">>
    PROVE  PInv'
BY DEF Stop, PInv, Place, Answers, Told, Outcome, Waiting, InTurn, Broken

\* A turn starts in its phase.
LEMMA StartsInPlace ==
    ASSUME IInv, PInv, NEW call \in Turns, NEW c \in Contexts,
           StartTurn(call, c), pc \in {"loop", "llm"},
           c.state = <<PhaseOf[call]>>, events'.state = c.state
    PROVE  PInv'
<1>1. escalation = "none" /\ escalation' = "none"
  BY DEF IInv, ControlOK, StartTurn, Waiting
<1>2. turn'.call = call /\ turn'.currentState = c.state
  BY DEF StartTurn
<1>3. Place' /\ Told'
  BY <1>1, <1>2
  DEF StartTurn, Place, Told, InTurn, Broken, OwnPhase, state
<1>4. Answers' /\ Outcome'
  BY DEF StartTurn, Answers, Outcome, Waiting, IInv, ControlOK, PInv
<1> QED BY <1>3, <1>4 DEF PInv

\* A question is asked about a turn, or about a limit.
LEMMA AsksInPlace ==
    ASSUME IInv, PInv, NEW cause \in Causes, NEW c \in Contexts,
           Escalate(cause, c), pc \in {"loop", "llm"},
           pc = "loop" => cause \in Limits,
           turn'.call = turn.call, turn'.currentState = turn.currentState,
           UNCHANGED events
    PROVE  PInv'
<1>1. handler' = NoState /\ mailbox' = NoState
  BY NoTicketLeft DEF Escalate, Waiting
<1>2. Answers' /\ Told' /\ Outcome'
  BY <1>1
  DEF Escalate, Answers, Told, Outcome, IInv, ControlOK, PInv, InTurn, Waiting
<1>3. state' = <<"Escalated">>
  BY ContextOperators, NamedStates
  DEF Escalate, state, StateNames, Transient
<1>4. Place'
  BY <1>3 DEF Escalate, Place, PInv, Broken, OwnPhase, InTurn, Limits
<1> QED BY <1>2, <1>4 DEF PInv

\* The arms at the top of the loop.
LEMMA LoopInPlace == IInv /\ PInv /\ LoopStep => PInv'
<1> SUFFICES ASSUME IInv, PInv, LoopStep PROVE PInv'
  OBVIOUS
<1>1. /\ pc = "loop" /\ context \in Contexts
      /\ state \in Plain({"Init", "Completed"} \cup Phases) \cup Compressed
      /\ events.state = state /\ result = "running" /\ escalation = "none"
  BY DEF LoopStep, StartCompression, InitArm, PlanningArm, DesigningArm,
         ImplementingArm, ReviewingArm, FinalArm, ToolCallingArm,
         CompressingArm, Arm, PInv, Place, Told, IInv, TypeOK, ControlOK,
         Waiting
<1>2. \A n : Head(state) = n /\ n # "CompressingContext" => state = <<n>>
  BY <1>1, NamedHeads DEF Plain, Compressed, StateNames, Phases, Transient
<1>3. CASE StartCompression
  <2>1. PICK p \in Phases : state = <<p>>
    BY <1>2, <1>3 DEF StartCompression, MustCompress, Phases
  <2>2. /\ state' = <<"CompressingContext">> \o <<p>>
        /\ events'.state = state'
    BY <1>1, <1>3, <2>1
    DEF StartCompression, TransitionTo, Contexts, state, IInv, TypeOK,
        EventViews
  <2> QED
    BY <1>1, <1>3, <2>2
    DEF StartCompression, PInv, Place, Answers, Told, Outcome, Compressed,
        Waiting, InTurn, Broken
<1>4. CASE InitArm
  <2>1. state' = <<"Planning">> /\ events'.state = state'
    BY <1>1, <1>4
    DEF InitArm, TransitionTo, AddMessage, Contexts, state, IInv, TypeOK,
        EventViews
  <2>2. state' \in Plain(Phases)
    BY <2>1 DEF Plain, Phases
  <2> QED
    BY <1>1, <1>4, <2>1, <2>2
    DEF InitArm, Arm, PInv, Place, Answers, Told, Outcome, Plain, Waiting,
        InTurn, Broken
<1>5. CASE PlanningArm
  BY <1>1, <1>2, <1>5, StartsInPlace
  DEF PlanningArm, Arm, PhaseOf, Turns, state
<1>6. CASE DesigningArm
  <2>1. state = <<"Designing">> /\ UNCHANGED events
    BY <1>2, <1>6 DEF DesigningArm, Arm
  <2> QED
    BY <1>1, <1>6, <2>1, StartsInPlace, AsksInPlace
    DEF DesigningArm, PhaseOf, Turns, Causes, Limits, state
<1>7. CASE ImplementingArm
  BY <1>1, <1>2, <1>7, StartsInPlace
  DEF ImplementingArm, Arm, PhaseOf, Turns, state
<1>8. CASE ReviewingArm
  <2>1. state = <<"Reviewing">> /\ UNCHANGED events
    BY <1>2, <1>8 DEF ReviewingArm, Arm
  <2> QED
    BY <1>1, <1>8, <2>1, StartsInPlace, AsksInPlace
    DEF ReviewingArm, PhaseOf, Turns, Causes, Limits, state
<1>9. CASE FinalArm
  <2>1. state = <<"Completed">>
    BY <1>1, <1>2, <1>9
    DEF FinalArm, Arm, Plain, Compressed, Phases
  <2> QED
    BY <1>9, <2>1, StopsInPlace DEF FinalArm, state
<1>10. CASE ToolCallingArm
  BY <1>1, <1>10, NamedHeads
  DEF ToolCallingArm, Arm, Plain, Compressed, Phases
<1>11. CASE CompressingArm
  <2>1. state \in Compressed
    BY <1>1, <1>11, NamedHeads DEF CompressingArm, Arm, Plain, Phases
  <2> QED
    BY <1>1, <1>11, <2>1
    DEF CompressingArm, Arm, PInv, Place, Answers, Told, Outcome, Waiting,
        InTurn, Broken, state
<1> QED
  BY <1>3, <1>4, <1>5, <1>6, <1>7, <1>8, <1>9, <1>10, <1>11 DEF LoopStep

LEMMA SummaryInPlace == IInv /\ PInv /\ SummaryArrives => PInv'
<1> SUFFICES ASSUME IInv, PInv, SummaryArrives PROVE PInv'
  OBVIOUS
<1>1. PICK p \in Phases : state = <<"CompressingContext">> \o <<p>>
  BY DEF SummaryArrives, PInv, Place, Compressed
<1>2. Tail(state) = <<p>>
  BY <1>1, NamedHeads DEF Transient
<1>3. state' = <<p>> /\ events'.state = state'
  BY <1>2
  DEF SummaryArrives, ResetWithSummary, TransitionTo, Contexts, state, IInv,
      TypeOK, EventViews
<1>4. result = "running" /\ escalation = "none"
  BY DEF SummaryArrives, IInv, ControlOK, Waiting
<1> QED
  BY <1>3, <1>4
  DEF SummaryArrives, PInv, Place, Answers, Told, Outcome, Plain, Waiting,
      InTurn, Broken

\* An arm's turn has ended in its phase, which may move on to t.
LEMMA MovesInPlace ==
    ASSUME IInv, PInv, pc = "llm",
           NEW c \in Contexts, NEW said,
           NEW n \in {"Designing", "Implementing", "Reviewing", "Completed"},
           CanMoveTo(<<n>>), MoveOn(c, <<n>>, said)
    PROVE  PInv'
<1>1. /\ context' = TransitionTo(c, <<n>>)
      /\ events'.state = <<n>>
      /\ pc' = "loop"
      /\ UNCHANGED <<escalation, registry, result>>
  BY DEF MoveOn, RefuseTransition
<1>2. state' = <<n>>
  BY <1>1 DEF TransitionTo, Contexts, state
<1>3. escalation' = "none" /\ result' = "running"
  BY <1>1 DEF IInv, ControlOK, Waiting
<1>4. state' \in Plain({"Init", "Completed"} \cup Phases)
  BY <1>2 DEF Plain, Phases
<1> QED
  BY <1>1, <1>2, <1>3, <1>4
  DEF PInv, Place, Answers, Told, Outcome, Waiting, InTurn, Broken

LEMMA TurnReturnsInPlace ==
    ASSUME IInv, PInv, pc = "llm", NEW text, NEW said, TurnReturns(text, said)
    PROVE  PInv'
<1>1. /\ context \in Contexts /\ turn.call \in Turns /\ state = OwnPhase
      /\ events.state = state /\ events \in EventViews
      /\ escalation = "none" /\ result = "running"
  BY DEF IInv, TypeOK, ControlOK, TurnOK, PInv, Place, Told, Waiting, InTurn
<1>2. \A c \in AddMessage(ClearVolatile(context)) :
          c \in Contexts /\ c.state = state
  BY <1>1, ContextOperators DEF state
<1>3. [events EXCEPT !.text = said].state = events.state
  BY <1>1 DEF EventViews
<1>4. CASE turn.call = "plan"
  BY <1>1, <1>2, <1>4, MovesInPlace, ArmTransitions
  DEF TurnReturns, OwnPhase, PhaseOf, CanMoveTo
<1>5. CASE turn.call = "design"
  <2>1. PICK c \in AddMessage(ClearVolatile(context)) :
            /\ StartTurn("designReview", c)
            /\ events' = [events EXCEPT !.text = said]
    BY <1>5 DEF TurnReturns
  <2>2. c \in Contexts /\ c.state = <<PhaseOf["designReview"]>>
    BY <1>1, <1>2, <1>5 DEF OwnPhase, PhaseOf
  <2>3. events'.state = c.state
    BY <1>1, <1>2, <1>3, <2>1
  <2> QED BY <2>1, <2>2, <2>3, StartsInPlace DEF Turns
<1>6. CASE turn.call = "designReview"
  <2>1. CASE \E c \in AddMessage(ClearVolatile(context)) :
                 MoveOn(c, <<"Implementing">>, said)
    BY <1>1, <1>2, <1>6, <2>1, MovesInPlace, ArmTransitions
    DEF OwnPhase, PhaseOf, CanMoveTo
  <2>2. CASE /\ context' \in AddMessage(ClearVolatile(context))
             /\ events' = [events EXCEPT !.text = said]
             /\ pc' = "loop"
             /\ UNCHANGED <<escalation, registry, result>>
    <3>1. state' = <<"Designing">> /\ events'.state = state'
      BY <1>1, <1>2, <1>3, <1>6, <2>2 DEF OwnPhase, PhaseOf, state
    <3>2. state' \in Plain({"Init", "Completed"} \cup Phases)
      BY <3>1 DEF Plain, Phases
    <3> QED
      BY <1>1, <2>2, <3>1, <3>2
      DEF PInv, Place, Answers, Told, Outcome, Waiting, InTurn, Broken
  <2> QED BY <1>6, <2>1, <2>2 DEF TurnReturns
<1>7. CASE turn.call = "implement"
  BY <1>1, <1>2, <1>7, MovesInPlace, ArmTransitions
  DEF TurnReturns, OwnPhase, PhaseOf, CanMoveTo
<1>8. CASE turn.call = "review"
  BY <1>1, <1>2, <1>8, MovesInPlace, ArmTransitions
  DEF TurnReturns, OwnPhase, PhaseOf, CanMoveTo
<1> QED
  BY <1>1, <1>4, <1>5, <1>6, <1>7, <1>8 DEF Turns

LEMMA AgentCallsToolInPlace == IInv /\ PInv /\ AgentCallsTool => PInv'
<1> SUFFICES ASSUME IInv, PInv, AgentCallsTool PROVE PInv'
  OBVIOUS
<1> DEFINE calling == <<"ToolCalling">> \o turn.currentState
<1>1. /\ context \in Contexts /\ turn \in TurnLocals /\ turn.call \in Turns
      /\ state = OwnPhase /\ turn.currentState = OwnPhase
      /\ events.state = state
      /\ escalation = "none" /\ result = "running"
  BY DEF AgentCallsTool, IInv, TypeOK, ControlOK, TurnOK, PInv, Place, Told,
         Waiting, InTurn
<1>2. CanMoveTo(calling)
  BY <1>1, TurnPhase, ArmTransitions DEF OwnPhase, CanMoveTo
<1>3. PICK c \in AddMessage(context) : context' = TransitionTo(c, calling)
  BY <1>2 DEF AgentCallsTool, RefuseTransition
<1>4. /\ pc' = "search" /\ UNCHANGED <<escalation, registry, events, result>>
      /\ turn' = [turn EXCEPT !.toolCalls = @ + 1, !.parseRetries = 0]
  BY <1>2 DEF AgentCallsTool, RefuseTransition
<1>5. turn'.call = turn.call /\ turn'.currentState = turn.currentState
  BY <1>1, <1>4 DEF TurnLocals
<1>6. state' = calling
  BY <1>1, <1>3, ContextOperators DEF TransitionTo, Contexts, state
<1> QED
  BY <1>1, <1>4, <1>5, <1>6
  DEF PInv, Place, Answers, Told, Outcome, Waiting, InTurn, Broken, OwnPhase,
      registry

LEMMA SearchSucceedsInPlace == IInv /\ PInv /\ SearchSucceeds => PInv'
<1> SUFFICES ASSUME IInv, PInv, SearchSucceeds PROVE PInv'
  OBVIOUS
<1>1. /\ context \in Contexts /\ turn \in TurnLocals
      /\ turn.currentState = OwnPhase
      /\ events.state = turn.currentState
      /\ escalation = "none" /\ result = "running"
  BY DEF SearchSucceeds, IInv, TypeOK, ControlOK, PInv, Place, Told, Waiting,
         InTurn
<1>2. state' = turn.currentState
  BY <1>1, ContextOperators DEF SearchSucceeds, TransitionTo, Contexts, state
<1> QED
  BY <1>1, <1>2
  DEF SearchSucceeds, PInv, Place, Answers, Told, Outcome, Waiting, InTurn,
      Broken, OwnPhase, registry

LEMMA OutputUnparseableInPlace == IInv /\ PInv /\ OutputUnparseable => PInv'
<1> SUFFICES ASSUME IInv, PInv, OutputUnparseable PROVE PInv'
  OBVIOUS
<1>1. /\ context \in Contexts /\ turn \in TurnLocals
      /\ escalation = "none" /\ result = "running"
  BY DEF OutputUnparseable, IInv, TypeOK, ControlOK, Waiting
<1>2. turn'.call = turn.call /\ turn'.currentState = turn.currentState
  BY <1>1 DEF OutputUnparseable, TurnLocals
<1>3. CASE Escalate("parse", ClearVolatile(context))
  BY <1>1, <1>2, <1>3, ContextOperators, AsksInPlace
  DEF OutputUnparseable, Causes
<1>4. CASE /\ context' \in AddMessage(context)
           /\ UNCHANGED <<pc, escalation, registry, result>>
  <2>1. state' = state
    BY <1>1, <1>4, ContextOperators DEF state
  <2> QED
    BY <1>1, <1>2, <1>4, <2>1
    DEF OutputUnparseable, PInv, Place, Answers, Told, Outcome, Waiting,
        InTurn, Broken, OwnPhase, registry
<1> QED BY <1>3, <1>4 DEF OutputUnparseable

LEMMA CallReturnsInPlace == IInv /\ PInv /\ CallReturns => PInv'
<1> SUFFICES ASSUME IInv, PInv, CallReturns PROVE PInv'
  OBVIOUS
<1>1. CASE AgentSpeaks \/ ToolLimitReached
  BY <1>1, TurnReturnsInPlace DEF AgentSpeaks, ToolLimitReached
<1>2. CASE ReviewPanics \/ CallFails
  BY <1>2, StopsInPlace DEF ReviewPanics, CallFails
<1>3. CASE StreamBreaks
  <2>1. ClearVolatile(context) \in Contexts
    BY ContextOperators DEF IInv, TypeOK
  <2> QED BY <1>3, <2>1, AsksInPlace DEF StreamBreaks, Causes
<1> QED
  BY <1>1, <1>2, <1>3, SummaryInPlace, AgentCallsToolInPlace,
     SearchSucceedsInPlace, OutputUnparseableInPlace
  DEF CallReturns

\* The answer is one SamePhaseResume allows, so no transition to it is refused.
LEMMA ResumeInPlace == IInv /\ PInv /\ Resume => PInv'
<1> SUFFICES ASSUME IInv, PInv, Resume PROVE PInv'
  OBVIOUS
<1>1. /\ pc = "awaiting" /\ mailbox # NoState
      /\ context \in Contexts /\ turn \in TurnLocals /\ events \in EventViews
      /\ state = <<"AwaitingHumanInput">>
      /\ escalation \in Causes /\ result = "running"
      /\ Broken => turn.call \in Turns /\ turn.currentState = OwnPhase
      /\ mailbox \in IF Broken THEN {OwnPhase} ELSE Plain(Resumable)
  BY DEF Resume, IInv, TypeOK, ControlOK, TurnOK, PInv, Place, Answers,
         Broken, Waiting
<1>2. mailbox \in Plain(Resumable)
  BY <1>1, TurnPhase DEF Plain, Resumable, OwnPhase
<1>3. CanMoveTo(mailbox)
  BY <1>1, <1>2, ArmTransitions DEF CanMoveTo, Plain
<1>4. /\ \E c \in AddMessage(context) : context' = TransitionTo(c, mailbox)
      /\ events' = [events EXCEPT !.state = mailbox]
      /\ ContinueAfter(escalation)
      /\ UNCHANGED result
  BY <1>3 DEF Resume, RefuseTransition
<1>5. state' = mailbox /\ events'.state = mailbox
  BY <1>1, <1>4, ContextOperators DEF TransitionTo, Contexts, EventViews, state
<1>6. turn'.call = turn.call /\ turn'.currentState = turn.currentState
  BY <1>1, <1>4 DEF ContinueAfter, TurnLocals
<1>7. CASE Broken
  BY <1>1, <1>4, <1>5, <1>6, <1>7
  DEF ContinueAfter, PInv, Place, Answers, Told, Outcome, Waiting, InTurn,
      Broken, OwnPhase, Limits
<1>8. CASE ~Broken
  <2>1. mailbox \in Plain({"Init", "Completed"} \cup Phases)
    BY <1>2 DEF Plain, Resumable
  <2> QED
    BY <1>1, <1>4, <1>5, <1>8, <2>1
    DEF ContinueAfter, PInv, Place, Answers, Told, Outcome, Waiting, InTurn,
        Broken, Causes, Limits
<1> QED BY <1>7, <1>8

LEMMA AnnounceInPlace == IInv /\ PInv /\ AnnounceWaiting => PInv'
<1> SUFFICES ASSUME IInv, PInv, AnnounceWaiting PROVE PInv'
  OBVIOUS
<1>1. state' = <<"AwaitingHumanInput">>
  BY DEF AnnounceWaiting, TransitionTo, Contexts, state, IInv, TypeOK
<1> QED
  BY <1>1
  DEF AnnounceWaiting, PInv, Place, Answers, Told, Outcome, Waiting, InTurn,
      Broken, OwnPhase, registry, IInv, ControlOK

\* The handler takes the entry, hands the answer over, a client leaves.
LEMMA OutsideInPlace ==
    ASSUME SamePhaseResume, IInv, PInv,
           TakeEntry \/ SendAnswer \/ Disconnect
    PROVE  PInv'
<1>1. UNCHANGED <<context, turn, pc, escalation, events, result>>
  BY DEF TakeEntry, SendAnswer, Disconnect
<1>2. Place' /\ Told' /\ Outcome'
  BY <1>1
  DEF PInv, Place, Told, Outcome, Broken, OwnPhase, state
<1>3. Answers'
  <2>1. CASE TakeEntry
    <3>1. handler' \in IF Broken THEN TurnResume[turn.call] ELSE LimitResume
      BY <2>1 DEF TakeEntry, Broken
    <3>2. pc \in Waiting =>
              handler' \in IF Broken THEN {OwnPhase} ELSE Plain(Resumable)
      BY <3>1 DEF SamePhaseResume, Broken, OwnPhase, IInv, TurnOK
    <3>3. mailbox' = mailbox
      BY <2>1 DEF TakeEntry
    <3> QED
      BY <1>1, <3>2, <3>3 DEF PInv, Answers, Broken, OwnPhase
  <2>2. CASE SendAnswer
    BY <1>1, <2>2 DEF SendAnswer, PInv, Answers, Broken, OwnPhase
  <2>3. CASE Disconnect
    BY <1>1, <2>3 DEF Disconnect, PInv, Answers, Broken, OwnPhase, registry
  <2> QED BY <2>1, <2>2, <2>3
<1> QED BY <1>2, <1>3 DEF PInv

LEMMA InitPInv == Init => PInv
<1>1. InitialState \in Plain({"Init", "Completed"} \cup Phases)
  BY DEF InitialState, Plain
<1> QED
  BY <1>1
  DEF Init, NewContext, PInv, Place, Answers, Told, Outcome, Waiting, InTurn,
      Broken, state

LEMMA InPlace ==
    ASSUME SamePhaseResume PROVE IInv /\ PInv /\ [Next]_vars => PInv'
<1> SUFFICES ASSUME IInv, PInv, [Next]_vars PROVE PInv'
  OBVIOUS
<1>1. CASE EngineStep
  BY <1>1, LoopInPlace, CallReturnsInPlace, AnnounceInPlace, ResumeInPlace,
     StopsInPlace
  DEF EngineStep, Cancel
<1>2. CASE TakeEntry \/ SendAnswer \/ Disconnect
  BY <1>2, OutsideInPlace
<1>3. CASE UNCHANGED vars
  BY <1>3
  DEF vars, locals, registry, PInv, Place, Answers, Told, Outcome, Broken,
      OwnPhase, state
<1> QED BY <1>1, <1>2, <1>3 DEF Next, Terminated

-----------------------------------------------------------------------------
(* The theorems. *)

\* At every await the workflow is in the state the code behind it expects, and
\* the client knows that state, when broken turns are resumed in their phase.
LEMMA InPlaceAlways ==
    ASSUME SamePhaseResume PROVE Spec => [](IInv /\ PInv)
<1>1. Init => IInv /\ PInv
  BY InitIInv, InitPInv
<1>2. IInv /\ PInv /\ [Next]_vars => (IInv /\ PInv)'
  BY Step, InPlace
<1> QED BY <1>1, <1>2, PTL DEF Spec

\* No transition the engine attempts is refused by can_transition_to.
THEOREM TransitionsValid ==
    ASSUME SamePhaseResume PROVE Spec => []NoInvalidTransition
<1>1. PInv => NoInvalidTransition
  BY DEF PInv, Outcome, NoInvalidTransition
<1> QED BY <1>1, InPlaceAlways, PTL

\* The client has been told the state the engine is in.
THEOREM ClientInformed ==
    ASSUME SamePhaseResume PROVE Spec => []ClientSeesState
<1>1. PInv => ClientSeesState
  BY DEF PInv, Told, ClientSeesState
<1> QED BY <1>1, InPlaceAlways, PTL

-----------------------------------------------------------------------------
(* The decision gates. *)

LEMMA NamesDiffer ==
    ASSUME NEW n \in StateNames, NEW m \in StateNames, <<n>> = <<m>>
    PROVE  n = m
BY NamedHeads

\* A turn crosses a gate only with a text that reads as an approval.
LEMMA TurnCrosses ==
    ASSUME IInv, PInv, pc = "llm", NEW text, NEW said,
           TurnReturns(text, said), CrossesGate
    PROVE  text = "approve" /\ events'.text = said
<1> USE DEF CrossesGate, Crosses
<1>1. context \in Contexts /\ turn.call \in Turns /\ state = OwnPhase
  BY DEF IInv, TypeOK, TurnOK, PInv, Place, InTurn
<1>2. state' # state
  BY NamesDiffer DEF StateNames, Phases
<1>3. \A c \in AddMessage(ClearVolatile(context)) :
          c \in Contexts /\ c.state = state
  BY <1>1, ContextOperators DEF state
<1>4. \A c \in Contexts : \A t : TransitionTo(c, t).state = t
  BY DEF TransitionTo, Contexts
<1>5. turn.call \in ReviewTurns
  <2>1. turn.call \notin {"plan", "implement"}
    BY <1>1, NamesDiffer DEF OwnPhase, PhaseOf, StateNames, Phases
  <2>2. turn.call # "design"
    BY <1>2, <1>3 DEF TurnReturns, StartTurn, state
  <2> QED BY <1>1, <2>1, <2>2 DEF Turns, ReviewTurns
<1>6. ~(turn.call = "review" /\ text = "reject")
  <2>1. SUFFICES ASSUME turn.call = "review", text = "reject" PROVE FALSE
    OBVIOUS
  <2>2. state' = <<"Implementing">>
    BY <1>2, <1>3, <1>4, <2>1 DEF TurnReturns, MoveOn, state
  <2>3. state = <<"Reviewing">>
    BY <1>1, <2>1 DEF OwnPhase, PhaseOf
  <2> QED BY <2>2, <2>3, NamesDiffer DEF StateNames, Phases
<1>7. ~(turn.call = "designReview" /\ text = "reject")
  BY <1>2, <1>3 DEF TurnReturns, state
<1>8. PICK c, n : text = "approve" /\ MoveOn(c, n, said)
  BY <1>5, <1>6, <1>7 DEF TurnReturns, ReviewTurns
<1> QED BY <1>2, <1>8 DEF MoveOn, state

LEMMA OnlyTurnsCross ==
    IInv /\ PInv /\ Next /\ CrossesGate => AgentSpeaks \/ ToolLimitReached
<1> SUFFICES ASSUME IInv, PInv, Next, CrossesGate,
                    ~(AgentSpeaks \/ ToolLimitReached)
             PROVE  FALSE
  OBVIOUS
<1>1. /\ state' # state
      /\ state \in {<<"Designing">>, <<"Reviewing">>}
      /\ state' \in {<<"Implementing">>, <<"Completed">>}
  BY NamesDiffer DEF CrossesGate, Crosses, StateNames, Phases
<1>2. /\ \A n \in StateNames : Head(<<n>>) = n
      /\ Head(state) \in {"Designing", "Reviewing"}
      /\ Head(state') \in {"Implementing", "Completed"}
  BY <1>1, NamedHeads DEF StateNames, Phases
<1>3. context \in Contexts
  BY DEF IInv, TypeOK
<1>4. \A c \in Contexts : \A t : TransitionTo(c, t).state = t
  BY DEF TransitionTo, Contexts
<1>5. ~LoopStep
  <2>1. ~StartCompression
    <3>1. state \in WorkflowStates
      BY <1>3, ContextOperators DEF state
    <3>2. Head(<<"CompressingContext">> \o state) = "CompressingContext"
      BY <3>1, WrappedState DEF Transient
    <3>3. ASSUME StartCompression
          PROVE  state' = <<"CompressingContext">> \o state
      BY <1>3, <1>4, <3>3 DEF StartCompression, state
    <3> QED BY <1>2, <3>2, <3>3
  <2>2. ~(InitArm \/ ToolCallingArm \/ FinalArm \/ CompressingArm)
    BY <1>2
    DEF InitArm, ToolCallingArm, FinalArm, CompressingArm, Arm
  <2>3. ~(PlanningArm \/ ImplementingArm)
    BY <1>2 DEF PlanningArm, ImplementingArm, Arm
  <2>4. ~(DesigningArm \/ ReviewingArm)
    <3>1. <<"Escalated">> # state'
      BY <1>2 DEF StateNames
    <3> QED
      BY <1>1, <1>3, <1>4, <3>1
      DEF DesigningArm, ReviewingArm, Escalate, StartTurn, state
  <2> QED BY <2>1, <2>2, <2>3, <2>4 DEF LoopStep
<1>6. ~CallReturns
  <2>1. ~SummaryArrives
    BY <1>2 DEF SummaryArrives, IInv, ControlOK
  <2>2. ~(ReviewPanics \/ CallFails)
    BY <1>1 DEF ReviewPanics, CallFails, state
  <2>3. ~AgentCallsTool
    <3>1. turn.currentState \in WorkflowStates
      BY DEF IInv, TypeOK, TurnLocals
    <3>2. Head(<<"ToolCalling">> \o turn.currentState) = "ToolCalling"
      BY <3>1, WrappedState DEF Transient
    <3>3. ASSUME AgentCallsTool, UNCHANGED context PROVE FALSE
      BY <1>1, <3>3 DEF state
    <3>4. ASSUME NEW c \in AddMessage(context),
                 context' = TransitionTo(c, <<"ToolCalling">> \o turn.currentState)
          PROVE  state' = <<"ToolCalling">> \o turn.currentState
      BY <1>3, <1>4, <3>4, ContextOperators DEF state
    <3> QED BY <1>2, <3>2, <3>3, <3>4 DEF AgentCallsTool
  <2>4. ~SearchSucceeds
    <3>1. ASSUME SearchSucceeds
          PROVE  Head(state) = "ToolCalling"
      <4>1. turn.call \in Turns /\ state = <<"ToolCalling">> \o OwnPhase
        BY <3>1 DEF SearchSucceeds, IInv, TurnOK, PInv, Place, InTurn
      <4> QED
        BY <4>1, TurnPhase, NamedHeads DEF OwnPhase, Transient
    <3> QED BY <1>2, <3>1
  <2>5. ~(OutputUnparseable \/ StreamBreaks)
    <3>1. <<"Escalated">> # state'
      BY <1>2 DEF StateNames
    <3> QED
      BY <1>1, <1>3, <1>4, <3>1, ContextOperators
      DEF OutputUnparseable, StreamBreaks, Escalate, state
  <2> QED BY <2>1, <2>2, <2>3, <2>4, <2>5 DEF CallReturns
<1>7. ~(AnnounceWaiting \/ Resume)
  <2>1. ASSUME AnnounceWaiting \/ Resume
        PROVE  Head(state) \in {"Escalated", "AwaitingHumanInput"}
    BY <1>2, <2>1 DEF AnnounceWaiting, Resume, PInv, Place, StateNames
  <2> QED BY <1>2, <2>1
<1>8. ~(Cancel \/ TakeEntry \/ SendAnswer \/ Disconnect \/ Terminated)
  BY <1>1
  DEF Cancel, TakeEntry, SendAnswer, Disconnect, Terminated, vars, state
<1> QED BY <1>5, <1>6, <1>7, <1>8 DEF Next, EngineStep

LEMMA GatesHold ==
    IInv /\ PInv /\ [Next]_vars
        => [CrossesGate => events'.text \in {"approve", "notice"}]_vars
<1> SUFFICES ASSUME IInv, PInv, Next, CrossesGate
             PROVE  events'.text \in {"approve", "notice"}
  OBVIOUS
<1>1. AgentSpeaks \/ ToolLimitReached
  BY OnlyTurnsCross
<1> QED BY <1>1, TurnCrosses DEF AgentSpeaks, ToolLimitReached

\* A phase under review is only left for the next one with a text that reads
\* as an approval, when broken turns are resumed in their phase.
THEOREM GatesStrict ==
    ASSUME SamePhaseResume PROVE Spec => RejectNeverAdvances
BY InPlaceAlways, GatesHold, PTL DEF Spec, RejectNeverAdvances

-----------------------------------------------------------------------------
(* Ok means Completed: a weaker assumption is enough. *)

\* The state holds no other than the states work goes on in.
Final(s) == \A i \in 1..Len(s) : s[i] \notin {"Escalated", "AwaitingHumanInput"}

FinalResume ==
    /\ \A s \in LimitResume : Final(s)
    /\ \A t \in Turns : \A s \in TurnResume[t] : Final(s)

FInv ==
    /\ pc \in {"loop", "summary"} \cup InTurn => Final(state)
    /\ Final(turn.currentState) /\ Final(handler) /\ Final(mailbox)
    /\ result = "ok" => state = <<"Completed">>

LEMMA FinalStates ==
    /\ Final(NoState)
    /\ \A n \in StateNames \ {"Escalated", "AwaitingHumanInput"} : Final(<<n>>)
    /\ \A n \in Transient, s \in WorkflowStates : Final(s) => Final(<<n>> \o s)
    /\ \A s \in WorkflowStates :
           Final(s) /\ Head(s) \in Transient => Final(Tail(s))
<1>1. Final(NoState)
  BY DEF Final, NoState
<1>2. \A n \in StateNames \ {"Escalated", "AwaitingHumanInput"} : Final(<<n>>)
  BY DEF Final
<1>3. ASSUME NEW n \in Transient, NEW s \in WorkflowStates, Final(s)
      PROVE  Final(<<n>> \o s)
  <2> DEFINE w == <<n>> \o s
  <2>1. s \in Seq(StateNames) /\ n \in StateNames
    BY DEF WorkflowStates, StateNames
  <2>2. /\ Len(w) = Len(s) + 1 /\ w[1] = n /\ Len(s) \in Nat
        /\ \A i \in 2..Len(w) : w[i] = s[i - 1]
    BY <2>1
  <2>3. ASSUME NEW i \in 1..Len(w)
        PROVE  w[i] \notin {"Escalated", "AwaitingHumanInput"}
    <3>1. CASE i = 1
      BY <2>2, <3>1 DEF Transient
    <3>2. CASE i # 1
      <4>1. i - 1 \in 1..Len(s) /\ w[i] = s[i - 1]
        BY <2>2, <3>2
      <4> QED BY <1>3, <4>1 DEF Final
    <3> QED BY <3>1, <3>2
  <2> QED BY <2>3 DEF Final
<1>4. ASSUME NEW s \in WorkflowStates, Final(s), Head(s) \in Transient
      PROVE  Final(Tail(s))
  <2> DEFINE t == Tail(s)
  <2>1. s \in Seq(StateNames) /\ Len(s) \in Nat \ {0}
    BY DEF WorkflowStates
  <2>2. Len(t) = Len(s) - 1 /\ \A i \in 1..Len(t) : t[i] = s[i + 1]
    BY <2>1
  <2>3. ASSUME NEW i \in 1..Len(t)
        PROVE  t[i] \notin {"Escalated", "AwaitingHumanInput"}
    <3>1. i + 1 \in 1..Len(s) /\ t[i] = s[i + 1]
      BY <2>1, <2>2
    <3> QED BY <1>4, <3>1 DEF Final
  <2> QED BY <2>3 DEF Final
<1> QED BY <1>1, <1>2, <1>3, <1>4

\* run returns, and not by way of FinalArm.
LEMMA StopsFinal ==
    ASSUME IInv, FInv, NEW r, Stop(r), r # "ok"
    PROVE  FInv'
<1>1. Final(turn'.currentState) /\ Final(mailbox')
  BY FinalStates DEF Stop, NoTurn, InitialState, StateNames
<1> QED BY <1>1 DEF Stop, FInv, InTurn

\* The engine works on and neither returns nor touches the registry.
LEMMA WorksFinal ==
    ASSUME IInv, FInv, Final(turn'.currentState),
           result = "running", UNCHANGED <<result, registry>>,
           pc' \in {"loop", "summary"} \cup InTurn => Final(state')
    PROVE  FInv'
BY DEF FInv, registry

LEMMA LoopFinal == IInv /\ FInv /\ LoopStep => FInv'
<1> SUFFICES ASSUME IInv, FInv, LoopStep PROVE FInv'
  OBVIOUS
<1>1. /\ context \in Contexts /\ state \in WorkflowStates
      /\ Final(state) /\ Final(turn.currentState) /\ result = "running"
  BY ContextOperators
  DEF LoopStep, StartCompression, InitArm, PlanningArm, DesigningArm,
      ImplementingArm, ReviewingArm, FinalArm, ToolCallingArm,
      CompressingArm, Arm, FInv, IInv, TypeOK, ControlOK, state
<1>2. \A c \in Contexts : \A t : TransitionTo(c, t).state = t
  BY DEF TransitionTo, Contexts
<1>3. CASE StartCompression
  <2>1. state' = <<"CompressingContext">> \o state
    BY <1>1, <1>2, <1>3 DEF StartCompression, state
  <2>2. Final(state')
    BY <1>1, <2>1, FinalStates DEF Transient
  <2> QED
    BY <1>1, <1>3, <2>2, WorksFinal DEF StartCompression
<1>4. CASE InitArm
  <2>1. state' = <<"Planning">>
    BY <1>1, <1>4, ContextOperators, NamedStates
    DEF InitArm, state, StateNames, Phases, Transient
  <2>2. Final(state')
    BY <2>1, FinalStates DEF StateNames, Phases
  <2> QED BY <1>1, <1>4, <2>2, WorksFinal DEF InitArm
<1>5. CASE \E call : StartTurn(call, context)
  <2>1. Final(turn'.currentState) /\ state' = state
    BY <1>1, <1>5 DEF StartTurn, state
  <2> QED BY <1>1, <1>5, <2>1, WorksFinal DEF StartTurn
<1>6. CASE \E cause : Escalate(cause, context) /\ UNCHANGED turn
  BY <1>1, <1>6 DEF Escalate, FInv, InTurn
<1>7. CASE FinalArm
  <2>1. Len(state) \in Nat \ {0} /\ Head(state) = state[1]
    BY <1>1 DEF WorkflowStates
  <2>2. Head(state) = "Completed"
    BY <1>1, <1>7, <2>1 DEF FinalArm, Arm, Final
  <2>3. state = <<"Completed">>
    BY <1>1, <2>2, LoneState DEF Transient
  <2>4. Final(turn'.currentState) /\ Final(mailbox')
    BY <1>7, FinalStates DEF FinalArm, Stop, NoTurn, InitialState, StateNames
  <2> QED
    BY <1>7, <2>3, <2>4 DEF FinalArm, Stop, FInv, InTurn, state
<1>8. CASE ToolCallingArm
  BY <1>8, StopsFinal DEF ToolCallingArm
<1>9. CASE CompressingArm
  BY <1>1, <1>9, WorksFinal DEF CompressingArm, state
<1> QED
  BY <1>3, <1>4, <1>5, <1>6, <1>7, <1>8, <1>9
  DEF LoopStep, PlanningArm, DesigningArm, ImplementingArm, ReviewingArm

\* Whatever a turn returns, its arm goes on in a named phase or stops.
LEMMA TurnReturnsFinal ==
    ASSUME IInv, FInv, pc = "llm", NEW text, NEW said, TurnReturns(text, said)
    PROVE  FInv'
<1>1. /\ context \in Contexts /\ Final(state)
      /\ Final(turn.currentState) /\ result = "running"
  BY DEF FInv, IInv, TypeOK, ControlOK, InTurn
<1>2. \A c \in AddMessage(ClearVolatile(context)) :
          c \in Contexts /\ c.state = state
  BY <1>1, ContextOperators DEF state
<1>3. PICK c \in AddMessage(ClearVolatile(context)) :
        \/ \E n \in {"Designing", "Implementing", "Reviewing", "Completed"} :
               MoveOn(c, <<n>>, said)
        \/ StartTurn("designReview", c)
        \/ /\ context' = c /\ pc' = "loop" /\ turn' = NoTurn
           /\ UNCHANGED <<registry, result>>
  BY DEF TurnReturns
<1>4. Final(NoTurn.currentState)
  BY FinalStates DEF NoTurn, InitialState, StateNames
<1>5. CASE \E n \in {"Designing", "Implementing", "Reviewing", "Completed"} :
               MoveOn(c, <<n>>, said)
  <2>1. PICK n \in {"Designing", "Implementing", "Reviewing", "Completed"} :
            MoveOn(c, <<n>>, said)
    BY <1>5
  <2>2. CASE RefuseTransition(<<n>>)
    BY <2>2, StopsFinal DEF RefuseTransition
  <2>3. CASE /\ context' = TransitionTo(c, <<n>>)
             /\ turn' = NoTurn
             /\ UNCHANGED <<registry, result>>
    <3>1. state' = <<n>>
      BY <1>2, <2>3 DEF TransitionTo, Contexts, state
    <3>2. Final(state')
      BY <3>1, FinalStates DEF StateNames, Phases
    <3> QED BY <1>1, <1>4, <2>3, <3>2, WorksFinal
  <2> QED BY <2>1, <2>2, <2>3 DEF MoveOn
<1>6. CASE StartTurn("designReview", c)
  <2>1. Final(turn'.currentState) /\ Final(state')
    BY <1>1, <1>2, <1>6 DEF StartTurn, state
  <2> QED BY <1>1, <1>6, <2>1, WorksFinal DEF StartTurn
<1>7. CASE /\ context' = c /\ turn' = NoTurn
           /\ UNCHANGED <<registry, result>>
  BY <1>1, <1>2, <1>4, <1>7, WorksFinal DEF state
<1> QED BY <1>3, <1>5, <1>6, <1>7

LEMMA CallReturnsFinal == IInv /\ FInv /\ CallReturns => FInv'
<1> SUFFICES ASSUME IInv, FInv, CallReturns PROVE FInv'
  OBVIOUS
<1>1. /\ context \in Contexts /\ state \in WorkflowStates
      /\ turn \in TurnLocals
      /\ Final(state) /\ Final(turn.currentState) /\ result = "running"
  BY ContextOperators
  DEF CallReturns, SummaryArrives, AgentSpeaks, ToolLimitReached,
      ReviewPanics, AgentCallsTool, SearchSucceeds, OutputUnparseable,
      StreamBreaks, CallFails, FInv, IInv, TypeOK, ControlOK, InTurn, state
<1>2. \A c \in Contexts : \A t : TransitionTo(c, t).state = t
  BY DEF TransitionTo, Contexts
<1>3. CASE SummaryArrives
  <2>1. state' = Tail(state)
    BY <1>1, <1>2, <1>3, ContextOperators DEF SummaryArrives, state
  <2>2. Final(state')
    BY <1>1, <1>3, <2>1, FinalStates
    DEF SummaryArrives, IInv, ControlOK, Transient
  <2> QED BY <1>1, <1>3, <2>2, WorksFinal DEF SummaryArrives
<1>4. CASE AgentSpeaks \/ ToolLimitReached
  BY <1>4, TurnReturnsFinal DEF AgentSpeaks, ToolLimitReached
<1>5. CASE ReviewPanics \/ CallFails
  BY <1>5, StopsFinal DEF ReviewPanics, CallFails
<1>6. CASE AgentCallsTool
  <2> DEFINE calling == <<"ToolCalling">> \o turn.currentState
  <2>1. turn.currentState \in WorkflowStates /\ Final(calling)
    BY <1>1, FinalStates DEF TurnLocals, Transient
  <2>2. CASE RefuseTransition(calling)
    BY <2>2, StopsFinal DEF RefuseTransition
  <2>3. CASE /\ \E c \in AddMessage(context) :
                    context' = TransitionTo(c, calling)
             /\ turn' = [turn EXCEPT !.toolCalls = @ + 1, !.parseRetries = 0]
             /\ UNCHANGED <<registry, result>>
    <3>1. state' = calling
      <4>1. PICK c \in AddMessage(context) : context' = TransitionTo(c, calling)
        BY <2>3
      <4>2. c \in Contexts
        BY <1>1, ContextOperators
      <4> QED BY <4>1, <4>2 DEF TransitionTo, Contexts, state
    <3>2. turn'.currentState = turn.currentState
      BY <1>1, <2>3 DEF TurnLocals
    <3> QED BY <1>1, <2>1, <2>3, <3>1, <3>2, WorksFinal
  <2> QED BY <1>6, <2>2, <2>3 DEF AgentCallsTool
<1>7. CASE SearchSucceeds
  <2>1. state' = turn.currentState
    BY <1>1, <1>2, <1>7, ContextOperators DEF SearchSucceeds, state
  <2> QED BY <1>1, <1>7, <2>1, WorksFinal DEF SearchSucceeds
<1>8. CASE OutputUnparseable
  <2>1. turn'.currentState = turn.currentState
    BY <1>1, <1>8 DEF OutputUnparseable, TurnLocals
  <2>2. CASE Escalate("parse", ClearVolatile(context))
    BY <1>1, <2>1, <2>2 DEF Escalate, FInv, InTurn
  <2>3. CASE /\ context' \in AddMessage(context)
             /\ UNCHANGED <<registry, result>>
    BY <1>1, <2>1, <2>3, ContextOperators, WorksFinal DEF state
  <2> QED BY <1>8, <2>2, <2>3 DEF OutputUnparseable
<1>9. CASE StreamBreaks
  BY <1>1, <1>9 DEF StreamBreaks, Escalate, FInv, InTurn
<1> QED
  BY <1>3, <1>4, <1>5, <1>6, <1>7, <1>8, <1>9 DEF CallReturns

LEMMA HumanFinal ==
    ASSUME FinalResume, IInv, FInv,
           AnnounceWaiting \/ Resume \/ TakeEntry \/ SendAnswer \/ Disconnect
    PROVE  FInv'
<1>1. CASE AnnounceWaiting
  BY <1>1
  DEF AnnounceWaiting, FInv, InTurn, registry, IInv, ControlOK, Waiting
<1>2. CASE Resume
  <2>1. CASE RefuseTransition(mailbox)
    BY <2>1, StopsFinal DEF RefuseTransition
  <2>2. CASE /\ \E c \in AddMessage(context) : context' = TransitionTo(c, mailbox)
             /\ ContinueAfter(escalation)
             /\ mailbox' = NoState
             /\ UNCHANGED <<handler, result>>
    <3>1. state' = mailbox
      <4>1. PICK c \in AddMessage(context) : context' = TransitionTo(c, mailbox)
        BY <2>2
      <4>2. c \in Contexts
        BY ContextOperators DEF IInv, TypeOK
      <4> QED BY <4>1, <4>2 DEF TransitionTo, Contexts, state
    <3>2. turn'.currentState = turn.currentState
      BY <2>2 DEF ContinueAfter, IInv, TypeOK, TurnLocals
    <3>3. result = "running"
      BY <1>2 DEF Resume, IInv, ControlOK
    <3> QED BY <2>2, <3>1, <3>2, <3>3, FinalStates DEF FInv
  <2> QED BY <1>2, <2>1, <2>2 DEF Resume
<1>3. CASE TakeEntry
  <2>1. Final(handler')
    BY <1>3 DEF TakeEntry, FinalResume, IInv, TurnOK
  <2> QED BY <1>3, <2>1 DEF TakeEntry, FInv, state
<1>4. CASE SendAnswer
  BY <1>4, FinalStates DEF SendAnswer, FInv, state
<1>5. CASE Disconnect
  BY <1>5 DEF Disconnect, FInv, registry, state
<1> QED BY <1>1, <1>2, <1>3, <1>4, <1>5

LEMMA FinalStep ==
    ASSUME FinalResume PROVE IInv /\ FInv /\ [Next]_vars => FInv'
<1> SUFFICES ASSUME IInv, FInv, [Next]_vars PROVE FInv'
  OBVIOUS
<1>1. CASE Cancel
  BY <1>1, StopsFinal DEF Cancel
<1>2. CASE UNCHANGED vars
  BY <1>2 DEF vars, registry, FInv, state
<1> QED
  BY <1>1, <1>2, LoopFinal, CallReturnsFinal, HumanFinal
  DEF Next, EngineStep, Terminated

\* run returns Ok in Completed only, when no human sends the workflow back to
\* Escalated or AwaitingHumanInput; the documented resume states do not.
THEOREM OkOnlyCompleted ==
    ASSUME FinalResume PROVE Spec => []OkMeansCompleted
<1>1. Init => FInv
  BY FinalStates
  DEF Init, NewContext, NoTurn, InitialState, FInv, StateNames, state
<1>2. FInv => OkMeansCompleted
  BY DEF FInv, OkMeansCompleted
<1>3. IInv /\ FInv /\ [Next]_vars => (IInv /\ FInv)'
  BY Step, FinalStep
<1> QED BY <1>1, <1>2, <1>3, InitIInv, PTL DEF Spec
=============================================================================
