-------------------------------- MODULE Engine --------------------------------
(***************************************************************************)
(* One run of the workflow engine: Engine::run, the tool loop of           *)
(* execute_with_tool_support and the human-in-the-loop pause of            *)
(* handle_escalation (src/engine/mod.rs), with the intervention handler    *)
(* that answers it and the client whose departure cancels it               *)
(* (src/server/router.rs).                                                 *)
(*                                                                         *)
(* A step runs from one await that another task can observe to the next.   *)
(* The awaits inside emit are not steps of their own, except between the   *)
(* two events of an escalation: nothing but cancellation can happen at     *)
(* them, and what cancellation drops there is local to the workflow.       *)
(***************************************************************************)
EXTENDS Context

CONSTANTS
    MaxIterations,  \* MAX_ITERATIONS
    MaxToolCalls,   \* MAX_TOOL_CALLS_PER_TURN
    MaxParseRetries,\* MAX_PARSE_RETRIES
    LimitResume,    \* resume states a human picks after an iteration limit
    TurnResume      \* ... and after an agent's turn has escalated, per turn

\* An agent's turn in one arm of run: one call of execute_with_tool_support.
Turns == {"plan", "design", "designReview", "implement", "review"}
ReviewTurns == {"designReview", "review"}

ASSUME BoundsAssumption ==
    /\ MaxIterations \in Nat
    /\ MaxToolCalls \in Nat
    /\ MaxParseRetries \in Nat

ASSUME ResumeAssumption ==
    /\ \A s \in LimitResume : s \in WorkflowStates
    /\ \A t \in Turns : \A s \in TurnResume[t] : s \in WorkflowStates

VARIABLES
    context,          \* the ContextGraph
    designIterations, reviewIterations, justCompressed,  \* locals of run
    turn,             \* locals of execute_with_tool_support
    pc,               \* the await the engine stands at
    escalation,       \* the cause of the escalation being handled
    entry,            \* the escalation's task_id is in active_interventions
    handler,          \* resume_state held by an intervene request that has
                      \* removed the entry and not yet sent
    mailbox,          \* the escalation's channel, of capacity one
    events,           \* what the emitted events told the client
    cancelled,        \* the client is gone and the token is cancelled
    result            \* what run returned

locals == <<designIterations, reviewIterations, justCompressed>>
registry == <<entry, handler, mailbox>>
vars == <<context, locals, turn, pc, escalation, registry, events,
          cancelled, result>>

NoState == << >>      \* no resume state: an empty handler or mailbox
NoTurn == [call |-> "none", currentState |-> InitialState,
           toolCalls |-> 0, parseRetries |-> 0]

Limits == {"designLimit", "reviewLimit"}
Waiting == {"escalating", "awaiting"}
InTurn == {"llm", "search"}
Results == {"running", "ok", "cancelled", "error", "invalid", "panicked"}
Texts == {"none", "plain", "approve", "reject", "notice"}

TurnLocals ==
    [call : Turns \cup {"none"}, currentState : WorkflowStates,
     toolCalls : 0..MaxToolCalls, parseRetries : 0..(MaxParseRetries + 1)]
EventViews == [state : WorkflowStates, text : Texts, completed : BOOLEAN]
Causes == {"stream", "parse"} \cup Limits

TypeOK ==
    /\ context \in Contexts
    /\ designIterations \in 0..MaxIterations
    /\ reviewIterations \in 0..MaxIterations
    /\ justCompressed \in BOOLEAN
    /\ turn \in TurnLocals
    /\ pc \in {"loop", "summary", "done"} \cup InTurn \cup Waiting
    /\ escalation \in {"none"} \cup Causes
    /\ entry \in BOOLEAN
    /\ handler \in WorkflowStates \cup {NoState}
    /\ mailbox \in WorkflowStates \cup {NoState}
    /\ events \in EventViews
    /\ cancelled \in BOOLEAN
    /\ result \in Results

Init ==
    /\ context = NewContext
    /\ designIterations = 0
    /\ reviewIterations = 0
    /\ justCompressed = FALSE
    /\ turn = NoTurn
    /\ pc = "loop"
    /\ escalation = "none"
    /\ entry = FALSE
    /\ handler = NoState
    /\ mailbox = NoState
    /\ events = [state |-> InitialState, text |-> "none", completed |-> FALSE]
    /\ cancelled = FALSE
    /\ result = "running"

-----------------------------------------------------------------------------
(* Common parts of the steps. *)

state == context.state
CanMoveTo(t) == CanTransitionTo(state, t)

\* run returns r: its locals, the escalation's receiver and whatever the
\* channel still holds are dropped.  A registered entry is not removed.
Stop(r) ==
    /\ pc' = "done"
    /\ result' = r
    /\ turn' = NoTurn
    /\ escalation' = "none"
    /\ mailbox' = NoState
    /\ UNCHANGED <<entry, handler>>

\* The `?` behind a transition that can_transition_to refuses.
RefuseTransition(t) ==
    /\ ~CanMoveTo(t)
    /\ Stop("invalid")

\* handle_escalation up to its first event: the new task_id is registered and
\* the state is Escalated, which every state may become.
Escalate(cause, c) ==
    /\ context' = TransitionTo(c, <<"Escalated">>)
    /\ entry' = TRUE
    /\ escalation' = cause
    /\ pc' = "escalating"
    /\ UNCHANGED <<handler, mailbox, result>>

\* execute_with_tool_support starts in the state the context c is in.
StartTurn(call, c) ==
    /\ turn' = [call |-> call, currentState |-> c.state,
                toolCalls |-> 0, parseRetries |-> 0]
    /\ context' = c
    /\ pc' = "llm"
    /\ UNCHANGED <<escalation, registry, result>>

\* The end of an arm: the agent's text is announced and the arm moves to t,
\* with WorkflowCompleted when that is Completed.
MoveOn(c, t, said) ==
    \/ /\ CanMoveTo(t)
       /\ context' = TransitionTo(c, t)
       /\ events' = [state |-> t, text |-> said,
                     completed |-> t = <<"Completed">>]
       /\ pc' = "loop"
       /\ turn' = NoTurn
       /\ UNCHANGED <<escalation, registry, result>>
    \/ /\ RefuseTransition(t)
       /\ events' = [events EXCEPT !.text = said]
       /\ UNCHANGED context

-----------------------------------------------------------------------------
(* The loop of run: the compression check and one action per arm. *)

\* Defect: the check is made in every state.
MustCompress_Anywhere ==
    /\ ~justCompressed
    /\ context.over

MustCompress ==
    /\ ~justCompressed
    /\ Head(state) \in Phases
    /\ context.over

StartCompression ==
    /\ pc = "loop"
    /\ MustCompress
    /\ LET target == <<"CompressingContext">> \o state
       IN  /\ context' = TransitionTo(context, target)
           /\ events' = [events EXCEPT !.state = target]
    /\ UNCHANGED <<locals, turn, pc, escalation, registry, cancelled, result>>

\* The match arm of the named variants.
Arm(names) ==
    /\ pc = "loop"
    /\ ~MustCompress
    /\ Head(state) \in names
    /\ justCompressed' = FALSE
    /\ UNCHANGED <<designIterations, reviewIterations, cancelled>>

InitArm ==
    /\ Arm({"Init"})
    /\ context' \in AddMessage(TransitionTo(context, <<"Planning">>))
    /\ events' = [events EXCEPT !.state = <<"Planning">>]
    /\ UNCHANGED <<turn, pc, escalation, registry, result>>

PlanningArm ==
    /\ Arm({"Planning"})
    /\ StartTurn("plan", context)
    /\ UNCHANGED events

\* Defect: the limit is tested with > instead of >=.
DesigningArm_OneMore ==
    /\ Arm({"Designing"})
    /\ designIterations <= MaxIterations
    /\ StartTurn("design", context)
    /\ UNCHANGED events

\* Defect: at the limit the design is taken as it is.
DesigningArm_GivesUp ==
    /\ Arm({"Designing"})
    /\ IF designIterations >= MaxIterations
       THEN MoveOn(context, <<"Implementing">>, events.text)
       ELSE StartTurn("design", context) /\ UNCHANGED events

DesigningArm ==
    /\ Arm({"Designing"})
    /\ \/ /\ designIterations >= MaxIterations
          /\ Escalate("designLimit", context)
          /\ UNCHANGED turn
       \/ /\ designIterations < MaxIterations
          /\ StartTurn("design", context)
    /\ UNCHANGED events

ImplementingArm ==
    /\ Arm({"Implementing"})
    /\ StartTurn("implement", context)
    /\ UNCHANGED events

ReviewingArm ==
    /\ Arm({"Reviewing"})
    /\ \/ /\ reviewIterations >= MaxIterations
          /\ Escalate("reviewLimit", context)
          /\ UNCHANGED turn
       \/ /\ reviewIterations < MaxIterations
          /\ StartTurn("review", context)
    /\ UNCHANGED events

\* Completed ends the run; so do, with a warning, the two states the arms'
\* comments call unreachable.
FinalArm ==
    /\ Arm({"Completed", "Escalated", "AwaitingHumanInput"})
    /\ Stop("ok")
    /\ UNCHANGED <<context, events>>

ToolCallingArm ==
    /\ Arm({"ToolCalling"})
    /\ Stop("invalid")
    /\ UNCHANGED <<context, events>>

CompressingArm ==
    /\ Arm({"CompressingContext"})
    /\ pc' = "summary"
    /\ UNCHANGED <<context, turn, escalation, registry, events, result>>

\* Defect: just_compressed is not set.
SummaryArrives_Unguarded ==
    /\ pc = "summary"
    /\ \E c \in ResetWithSummary(context) :
           context' = TransitionTo(c, Tail(state))
    /\ events' = [events EXCEPT !.state = Tail(state), !.text = "plain"]
    /\ pc' = "loop"
    /\ UNCHANGED <<locals, turn, escalation, registry, cancelled, result>>

\* Defect: the return from compression is not announced.
SummaryArrives_Silent ==
    /\ pc = "summary"
    /\ \E c \in ResetWithSummary(context) :
           context' = TransitionTo(c, Tail(state))
    /\ justCompressed' = TRUE
    /\ pc' = "loop"
    /\ UNCHANGED <<designIterations, reviewIterations, turn, escalation,
                   registry, events, cancelled, result>>

SummaryArrives ==
    /\ pc = "summary"
    /\ \E c \in ResetWithSummary(context) :
           context' = TransitionTo(c, Tail(state))
    /\ events' = [events EXCEPT !.state = Tail(state), !.text = "plain"]
    /\ justCompressed' = TRUE
    /\ pc' = "loop"
    /\ UNCHANGED <<designIterations, reviewIterations, turn, escalation,
                   registry, cancelled, result>>

-----------------------------------------------------------------------------
(* The tool loop: what a call to the model or the search may come back with. *)

\* The texts a turn may hand back, by the decision a review of them parses to.
\* A Reject and a RequestRevision are handled alike, so one stands for both.
TextsOf(call) ==
    IF call \in ReviewTurns THEN {"approve", "reject"} ELSE {"plain"}

\* execute_with_tool_support returns a text that reads as `text`; `said` is
\* what the client sees of it.
TurnReturns(text, said) ==
    \E c \in AddMessage(ClearVolatile(context)) :
        \/ /\ turn.call = "plan"
           /\ MoveOn(c, <<"Designing">>, said)
           /\ UNCHANGED locals
        \/ /\ turn.call = "design"
           /\ StartTurn("designReview", c)
           /\ events' = [events EXCEPT !.text = said]
           /\ UNCHANGED locals
        \/ /\ turn.call = "designReview" /\ text = "approve"
           /\ MoveOn(c, <<"Implementing">>, said)
           /\ UNCHANGED locals
        \/ /\ turn.call = "designReview" /\ text = "reject"
           /\ context' = c
           /\ designIterations' = designIterations + 1
           /\ events' = [events EXCEPT !.text = said]
           /\ pc' = "loop"
           /\ turn' = NoTurn
           /\ UNCHANGED <<reviewIterations, justCompressed, escalation,
                          registry, result>>
        \/ /\ turn.call = "implement"
           /\ MoveOn(c, <<"Reviewing">>, said)
           /\ UNCHANGED locals
        \/ /\ turn.call = "review" /\ text = "approve"
           /\ MoveOn(c, <<"Completed">>, said)
           /\ UNCHANGED locals
        \/ /\ turn.call = "review" /\ text = "reject"
           /\ MoveOn(c, <<"Implementing">>, said)
           /\ reviewIterations' = IF CanMoveTo(<<"Implementing">>)
                                  THEN reviewIterations + 1
                                  ELSE reviewIterations
           /\ UNCHANGED <<designIterations, justCompressed>>

AgentSpeaks ==
    /\ pc = "llm"
    /\ \E text \in TextsOf(turn.call) : TurnReturns(text, text)
    /\ UNCHANGED cancelled

\* One tool call too many: the turn hands back a notice quoting the query.  As
\* a review it is parsed like any text, so it reads as the query's words do.
ToolLimitReached ==
    /\ pc = "llm"
    /\ turn.toolCalls + 1 > MaxToolCalls
    /\ \E text \in TextsOf(turn.call) : TurnReturns(text, "notice")
    /\ UNCHANGED cancelled

\* Cutting the reason of a Reject or a RequestRevision at byte 197 panics
\* inside a multi-byte character.
ReviewPanics ==
    /\ pc = "llm"
    /\ turn.call \in ReviewTurns
    /\ \E said \in {"reject", "notice"} :
           /\ said = "notice" => turn.toolCalls + 1 > MaxToolCalls
           /\ events' = [events EXCEPT !.text = said]
    /\ Stop("panicked")
    /\ UNCHANGED <<context, locals, cancelled>>

\* The speech before a tool call is kept when there is one.
AgentCallsTool ==
    /\ pc = "llm"
    /\ turn.toolCalls + 1 <= MaxToolCalls
    /\ LET calling == <<"ToolCalling">> \o turn.currentState
       IN  \/ /\ CanMoveTo(calling)
              /\ \E c \in AddMessage(context) :
                     context' = TransitionTo(c, calling)
              /\ turn' = [turn EXCEPT !.toolCalls = @ + 1, !.parseRetries = 0]
              /\ pc' = "search"
              /\ UNCHANGED <<escalation, registry, result>>
           \/ /\ RefuseTransition(calling)
              /\ UNCHANGED context
    /\ UNCHANGED <<locals, events, cancelled>>

\* Defect: the state stays ToolCalling.
SearchSucceeds_NoReturn ==
    /\ pc = "search"
    /\ context' = SetVolatile(context)
    /\ pc' = "llm"
    /\ UNCHANGED <<locals, turn, escalation, registry, events, cancelled,
                   result>>

SearchSucceeds ==
    /\ pc = "search"
    /\ context' = TransitionTo(SetVolatile(context), turn.currentState)
    /\ pc' = "llm"
    /\ UNCHANGED <<locals, turn, escalation, registry, events, cancelled,
                   result>>

OutputUnparseable ==
    /\ pc = "llm"
    /\ turn' = [turn EXCEPT !.parseRetries = @ + 1]
    /\ \/ /\ turn.parseRetries + 1 > MaxParseRetries
          /\ Escalate("parse", ClearVolatile(context))
       \/ /\ turn.parseRetries + 1 <= MaxParseRetries
          /\ context' \in AddMessage(context)
          /\ UNCHANGED <<pc, escalation, registry, result>>
    /\ UNCHANGED <<locals, events, cancelled>>

StreamBreaks ==
    /\ pc = "llm"
    /\ Escalate("stream", ClearVolatile(context))
    /\ UNCHANGED <<locals, turn, events, cancelled>>

\* Defect: the wait for a human times out like any call.
CallFails_WaitTooLong ==
    /\ pc \in InTurn \cup {"summary", "awaiting"}
    /\ Stop("error")
    /\ UNCHANGED <<context, locals, events, cancelled>>

\* Any other failure of the model, a failed search, and any failure of the
\* summary, a broken stream included, leave run through `?`.
CallFails ==
    /\ pc \in InTurn \cup {"summary"}
    /\ Stop("error")
    /\ UNCHANGED <<context, locals, events, cancelled>>

-----------------------------------------------------------------------------
(* The rest of handle_escalation, and the human's side of it. *)

\* Defect: handle_escalation returns to the loop instead of waiting itself.
AnnounceWaiting_InLoop ==
    /\ pc = "escalating"
    /\ context' = TransitionTo(context, <<"AwaitingHumanInput">>)
    /\ events' = [events EXCEPT !.state = <<"AwaitingHumanInput">>]
    /\ pc' = "loop"
    /\ UNCHANGED <<locals, turn, escalation, registry, cancelled, result>>

AnnounceWaiting ==
    /\ pc = "escalating"
    /\ context' = TransitionTo(context, <<"AwaitingHumanInput">>)
    /\ events' = [events EXCEPT !.state = <<"AwaitingHumanInput">>]
    /\ pc' = "awaiting"
    /\ UNCHANGED <<locals, turn, escalation, registry, cancelled, result>>

\* Where the escalation's caller continues once the human has answered.
ContinueAfter(cause) ==
    /\ pc' = IF cause \in Limits THEN "loop" ELSE "llm"
    /\ designIterations' = IF cause = "designLimit" THEN 0 ELSE designIterations
    /\ reviewIterations' = IF cause = "reviewLimit" THEN 0 ELSE reviewIterations
    /\ turn' = IF cause = "parse"
                THEN [turn EXCEPT !.parseRetries = 0] ELSE turn
    /\ escalation' = "none"

Resume ==
    /\ pc = "awaiting"
    /\ mailbox # NoState
    /\ \/ /\ CanMoveTo(mailbox)
          /\ \E c \in AddMessage(context) : context' = TransitionTo(c, mailbox)
          /\ events' = [events EXCEPT !.state = mailbox]
          /\ ContinueAfter(escalation)
          /\ mailbox' = NoState
          /\ UNCHANGED <<entry, handler, result>>
       \/ /\ RefuseTransition(mailbox)
          /\ UNCHANGED <<context, events, designIterations, reviewIterations>>
    /\ UNCHANGED <<justCompressed, cancelled>>

\* Defect: the sender is looked up, not removed.
TakeEntry_Get ==
    /\ entry
    /\ handler = NoState
    /\ handler' \in LimitResume
    /\ UNCHANGED <<context, locals, turn, pc, escalation, entry, mailbox,
                   events, cancelled, result>>

\* intervene_handler: DashMap::remove, which at most one request can win ...
TakeEntry ==
    /\ entry
    /\ handler = NoState
    /\ entry' = FALSE
    /\ handler' \in IF escalation \in {"stream", "parse"}
                    THEN TurnResume[turn.call]
                    ELSE LimitResume
    /\ UNCHANGED <<context, locals, turn, pc, escalation, mailbox, events,
                   cancelled, result>>

\* Defect: the channel has no buffer for an answer that comes before recv.
SendAnswer_Unbuffered ==
    /\ handler # NoState
    /\ handler' = NoState
    /\ mailbox' = IF pc = "awaiting" THEN handler ELSE mailbox
    /\ UNCHANGED <<context, locals, turn, pc, escalation, entry, events,
                   cancelled, result>>

\* ... then the send, which fails when the engine has dropped the receiver.
SendAnswer ==
    /\ handler # NoState
    /\ handler' = NoState
    /\ mailbox' = IF pc \in Waiting THEN handler ELSE mailbox
    /\ UNCHANGED <<context, locals, turn, pc, escalation, entry, events,
                   cancelled, result>>

-----------------------------------------------------------------------------
(* Cancellation. *)

\* The client closes its stream; the monitor task cancels the token.
Disconnect ==
    /\ ~cancelled
    /\ pc # "done"
    /\ cancelled' = TRUE
    /\ UNCHANGED <<context, locals, turn, pc, escalation, registry, events,
                   result>>

\* Defect: the wait for a human is outside the select!.
Cancel_NotWhileWaiting ==
    /\ cancelled
    /\ pc \notin Waiting \cup {"done"}
    /\ Stop("cancelled")
    /\ UNCHANGED <<context, locals, events, cancelled>>

\* The cancelled branch of a select!, which may win at any await.
Cancel ==
    /\ cancelled
    /\ pc # "done"
    /\ Stop("cancelled")
    /\ UNCHANGED <<context, locals, events, cancelled>>

-----------------------------------------------------------------------------
LoopStep ==
    \/ StartCompression \/ InitArm \/ PlanningArm \/ DesigningArm
    \/ ImplementingArm \/ ReviewingArm \/ FinalArm \/ ToolCallingArm
    \/ CompressingArm

CallReturns ==
    \/ SummaryArrives \/ AgentSpeaks \/ ToolLimitReached \/ ReviewPanics
    \/ AgentCallsTool \/ SearchSucceeds \/ OutputUnparseable \/ StreamBreaks
    \/ CallFails

EngineStep == LoopStep \/ CallReturns \/ AnnounceWaiting \/ Resume \/ Cancel

\* Only a finished workflow may stand still.
Terminated == pc = "done" /\ UNCHANGED vars

Next == EngineStep \/ TakeEntry \/ SendAnswer \/ Disconnect \/ Terminated

\* The runtime keeps polling a task that can go on, every call to the model
\* or the search ends (both clients time out), and a handler that holds the
\* sender finishes.  A connected client is assumed to read its events; module
\* Server drops that.  Nothing makes a human answer or a client leave.
\* A cancelled select! returns no later than its next pending await.
Fairness == WF_vars(EngineStep) /\ WF_vars(Cancel) /\ WF_vars(SendAnswer)

Spec == Init /\ [][Next]_vars /\ Fairness

-----------------------------------------------------------------------------
(* Properties. *)

\* While a workflow waits for a human there is exactly one way to wake it: its
\* task_id is registered, or one handler holds the sender, or the answer is in
\* the channel.  No second intervention can be accepted for one escalation,
\* and none that was accepted is lost, even when it comes before the engine
\* has reached recv (handle_escalation, intervene_handler).
OneTicket ==
    /\ pc \in Waiting => entry \/ handler # NoState \/ mailbox # NoState
    /\ entry => handler = NoState /\ mailbox = NoState
    /\ handler # NoState => mailbox = NoState

\* A workflow that no longer waits has left nothing in active_interventions
\* and no answer in flight, unless it was cancelled in the middle of its wait:
\* then the entry stays, as nothing but intervene_handler removes it.
RegistryClean ==
    pc \notin Waiting =>
        /\ mailbox = NoState
        /\ entry \/ handler # NoState => result = "cancelled"

\* run has returned exactly when it stands at no await any more; a wait, and
\* nothing else, has a cause; a summary is only asked for in CompressingContext.
ControlOK ==
    /\ pc = "done" <=> result # "running"
    /\ pc \in Waiting <=> escalation # "none"
    /\ pc = "summary" => Head(state) = "CompressingContext"

\* A turn is under way when its locals are used; a design or review turn only
\* runs below its iteration limit; parse_retries is over its limit only while
\* a human is asked about it.
TurnOK ==
    /\ pc \in InTurn => turn.call \in Turns
    /\ escalation \in {"stream", "parse"} => turn.call \in Turns
    /\ turn.call \in {"design", "designReview"} =>
           designIterations < MaxIterations
    /\ turn.call = "review" => reviewIterations < MaxIterations
    /\ turn.parseRetries > MaxParseRetries =>
           pc \in Waiting /\ escalation = "parse"

\* The inductive invariant behind TypeOK, OneTicket, RegistryClean and the
\* refinement: no limit of the engine is overrun and no ticket is lost or
\* doubled (engine/mod.rs, intervene_handler).
IInv == TypeOK /\ ControlOK /\ TurnOK /\ OneTicket /\ RegistryClean

\* run returns Ok only for a completed workflow: the arms whose comments say
\* they should not be reached are not (engine/mod.rs 376-387).
OkMeansCompleted == result = "ok" => state = <<"Completed">>

\* workflow_completed is true and the last event: once it is out, the run can
\* only end, with Ok unless the client has left, and tells nothing more.  The
\* loop still goes round once, past the compression check (engine/mod.rs 342).
CompletionIsLast ==
    [][events.completed =>
           UNCHANGED events /\ result' \in {"running", "ok", "cancelled"}]_vars

\* can_transition_to never refuses a transition the engine attempts.
NoInvalidTransition == result # "invalid"

\* Whenever the engine is between two actions the client has been told the
\* state it is in: the last StateChanged names it.
ClientSeesState == pc \in {"loop", "llm"} => events.state = state

Crosses(a, b) == state = <<a>> /\ state' = <<b>>
CrossesGate ==
    Crosses("Designing", "Implementing") \/ Crosses("Reviewing", "Completed")

\* The decision gates: a phase under review is only left for the next one when
\* the text the turn ended with reads as an approval, never on a rejection.
RejectNeverAdvances ==
    [][CrossesGate => events'.text \in {"approve", "notice"}]_vars

\* The reviewer itself approved: the text was its own.
OnlyReviewerApproves == [][CrossesGate => events'.text # "notice"]_vars

\* The agent call after a successful search has the results in the volatile
\* slot, as set_volatile_context promises.
SearchResultsReachAgent ==
    [][pc = "search" /\ pc' = "llm" => context'.volatile = "results"]_vars

\* The retry, tool-call and iteration limits and the compression guard leave
\* no way to go on for ever: the engine ends or asks a human, again and again.
NoRunaway == []<>(pc \in {"awaiting", "done"})

\* Once an intervention holds the ticket the engine leaves its wait, however
\* the send and the engine's way to recv interleave.
AnswerWakes == pc \in Waiting /\ ~entry ~> pc \notin Waiting

\* When the client has gone the workflow ends, wherever it stands, a wait for
\* a human included.
CancelEnds == cancelled ~> pc = "done"

-----------------------------------------------------------------------------
(* What the server may rely on, whatever the agents do. *)

LC == INSTANCE Lifecycle WITH
    status <- IF pc \in Waiting THEN "asking"
              ELSE IF pc = "done" THEN "ended" ELSE "working",
    ticket <- IF entry THEN "open"
              ELSE IF handler # NoState \/ mailbox # NoState THEN "answered"
              ELSE "none",
    gone <- cancelled

\* The engine, its escalations and the intervention handler together implement
\* the life cycle: one question at a time, one accepted answer to each, an end
\* after the client has gone (handle_escalation, intervene_handler, run).
ImplementsLifecycle == LC!Spec
=============================================================================
