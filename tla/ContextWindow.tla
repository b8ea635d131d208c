----------------------------- MODULE ContextWindow -----------------------------
(***************************************************************************)
(* The message history the agents share and what of it each is sent:       *)
(* pruned_messages and reset_with_summary (src/domain/context.rs),         *)
(* build_messages (src/agents/mod.rs), and the steps of the engine that    *)
(* write and compress the history (src/engine/mod.rs).  Context is this    *)
(* history seen from Engine; here the workflow's state is reduced to what  *)
(* the loop does next with the history: run an agent on it, compress it,   *)
(* or, in Init, put the task to it.                                        *)
(*                                                                         *)
(* A message is its sender and its length.  Only reset_with_summary writes *)
(* as System, so a System message is a checkpoint summary.                 *)
(***************************************************************************)
EXTENDS Integers, Sequences, FiniteSetsExt, SequencesExt

CONSTANTS
    Budget,       \* MAX_CONTEXT_LENGTH
    Lengths,      \* the lengths of the messages that are written
    MaxMessages   \* bound: messages before an agent must end its turn

Agents == {"Orchestrator", "Architect", "Programmer", "DevilsAdvocate"}
Senders == Agents \cup {"Human", "System"}

ASSUME WindowAssumption ==
    /\ Budget \in Nat
    /\ Lengths \subseteq Nat
    /\ MaxMessages \in Nat

VARIABLES
    messages,         \* the history, oldest first
    state,            \* the state's variant, "Phase" standing for the phases
    me,               \* the agent at work, "none" at the top of run's loop
    justCompressed

vars == <<messages, state, me, justCompressed>>

Messages == [sender : Senders, length : Nat]

\* The states a human may ask for, where a run goes on, and all of them.
Resumable == {"Phase", "CompressingContext"}
States == Resumable \cup {"Init"}

TypeOK ==
    /\ messages \in Seq(Messages)
    /\ state \in States
    /\ me \in Agents \cup {"none"}
    /\ justCompressed \in BOOLEAN

Init ==
    /\ messages = << >>
    /\ state = "Init"
    /\ me = "none"
    /\ justCompressed = FALSE

-----------------------------------------------------------------------------
(* pruned_messages *)

\* The length of the messages at the given places of h.
LengthAt(h, places) == MapThenSumSet(LAMBDA i : h[i].length, places)
TotalContentLength(h) == LengthAt(h, DOMAIN h)
Over(h) == TotalContentLength(h) > Budget

Checkpoints(h) == {i \in DOMAIN h : h[i].sender = "System"}

\* Defect: an older message may fit where a newer one does not.
Recent_PassesOver(h) ==
    LET room == Budget - LengthAt(h, Checkpoints(h))
        small == {i \in DOMAIN h \ Checkpoints(h) : h[i].length <= room}
    IN  {i \in small : LengthAt(h, {j \in small : j >= i}) <= room}

\* Defect: a message that fills the budget exactly is left out.
Recent_NotExactly(h) ==
    LET others == DOMAIN h \ Checkpoints(h)
        used(i) == LengthAt(h, Checkpoints(h))
                       + LengthAt(h, {j \in others : j >= i})
    IN  {i \in others : used(i) < Budget}

\* Defect: the checkpoints are not charged to the budget.
Recent_CheckpointsFree(h) ==
    LET others == DOMAIN h \ Checkpoints(h)
    IN  {i \in others : LengthAt(h, {j \in others : j >= i}) <= Budget}

\* Backward from the newest message, up to the first that does not fit into
\* what the checkpoints have left of the budget.
Recent(h) ==
    LET others == DOMAIN h \ Checkpoints(h)
        used(i) == LengthAt(h, Checkpoints(h))
                       + LengthAt(h, {j \in others : j >= i})
    IN  {i \in others : used(i) <= Budget}

\* The places of the messages that are kept; their order stays.
PrunedMessages(h) ==
    IF Budget = 0 \/ ~Over(h) THEN DOMAIN h
    ELSE Checkpoints(h) \cup Recent(h)

-----------------------------------------------------------------------------
(* build_messages: the roles of what an agent is sent. *)

\* The places of the messages that are kept, in order.
KeptInOrder(h) == SetToSortSeq(PrunedMessages(h), <)

\* The agent's own messages are the assistant's, everybody else's the user's.
History(h, agent) ==
    [k \in 1..Cardinality(PrunedMessages(h)) |->
        IF h[KeptInOrder(h)[k]].sender = agent THEN "assistant" ELSE "user"]

\* Defect: there is no trigger.
BuildMessages_NoTrigger(h, results, agent) ==
    <<"system">> \o History(h, agent) \o (IF results THEN <<"user">> ELSE << >>)

\* The system prompt, the history, the search results if there are any, and
\* a trigger when the agent would otherwise have the last word.
BuildMessages(h, results, agent) ==
    LET sent == <<"system">> \o History(h, agent)
                    \o (IF results THEN <<"user">> ELSE << >>)
    IN  IF sent[Len(sent)] = "assistant" THEN Append(sent, "user") ELSE sent

-----------------------------------------------------------------------------
(* The engine's steps *)

Add(h, sender) == {Append(h, [sender |-> sender, length |-> n]) : n \in Lengths}

\* Only the number of messages within one turn has no bound in the code.
Bounded == Len(messages) < MaxMessages

\* At the top of the loop, in a phase, the history is longer than the budget.
MustCompress ==
    /\ me = "none"
    /\ state = "Phase"
    /\ ~justCompressed
    /\ Over(messages)

\* The Init arm: the task is added, to the empty history of a run that starts
\* or to the summary after a compression whose return_to is Init.
TaskArrives ==
    /\ me = "none"
    /\ state = "Init"
    /\ messages' \in Add(messages, "Orchestrator")
    /\ state' = "Phase"
    /\ justCompressed' = FALSE
    /\ UNCHANGED me

\* A phase is compressed when it must be and returned to; a human who resumes
\* in CompressingContext has the history compressed however short it is, and
\* the workflow return to any state, to another compression as well.
CompressesTo(target) ==
    \/ MustCompress /\ target = "Phase"
    \/ me = "none" /\ state = "CompressingContext" /\ target \in States

\* Defect: the summary is put before the history, which stays.
Compress_KeepsHistory ==
    /\ \E target \in States : CompressesTo(target) /\ state' = target
    /\ \E summary \in Add(<< >>, "System") : messages' = summary \o messages
    /\ justCompressed' = TRUE
    /\ UNCHANGED me

\* The summary takes the place of the history.
Compress ==
    /\ \E target \in States : CompressesTo(target) /\ state' = target
    /\ messages' \in Add(<< >>, "System")
    /\ justCompressed' = TRUE
    /\ UNCHANGED me

\* The loop goes past the compression check into the arm of a phase.
EntersArm ==
    /\ me = "none"
    /\ state = "Phase"
    /\ ~MustCompress

\* Defect: just_compressed is not reset when the loop goes on.
StartPhase_StaysCompressed ==
    /\ EntersArm
    /\ me' \in Agents
    /\ UNCHANGED <<messages, state, justCompressed>>

\* The arm of a phase calls its agent.
StartPhase ==
    /\ EntersArm
    /\ me' \in Agents
    /\ justCompressed' = FALSE
    /\ UNCHANGED <<messages, state>>

\* The arm finds its iteration limit reached; a human answers.
LimitReached ==
    /\ EntersArm
    /\ Bounded
    /\ messages' \in Add(messages, "Human")
    /\ state' \in Resumable
    /\ justCompressed' = FALSE
    /\ UNCHANGED me

\* Defect: a text is kept although no agent is at work.
Says_OutsideTurn ==
    /\ messages # << >>
    /\ Bounded
    /\ messages' \in Add(messages, me)
    /\ UNCHANGED <<state, me, justCompressed>>

\* The speech before a tool call.  A call made in CompressingContext is refused
\* and ends the run, is one too many and changes no state, or leads, by way of
\* the return_to that admits it, back to the phase.
Says ==
    /\ me # "none"
    /\ Bounded
    /\ messages' \in Add(messages, me)
    /\ state' \in {state, "Phase"}
    /\ UNCHANGED <<me, justCompressed>>

\* An unparseable output is kept, with a message that says so.
OutputUnparseable ==
    /\ me # "none"
    /\ Bounded
    /\ \E h \in Add(messages, me) : messages' \in Add(h, "Orchestrator")
    /\ UNCHANGED <<state, me, justCompressed>>

\* Defect: the human's message starts a new history.
HumanAnswers_Afresh ==
    /\ me # "none"
    /\ messages' \in Add(<< >>, "Human")
    /\ UNCHANGED <<state, me, justCompressed>>

\* A human answers the escalation of a turn, which goes on in the state the
\* human chose.
HumanAnswers ==
    /\ me # "none"
    /\ Bounded
    /\ messages' \in Add(messages, "Human")
    /\ state' \in Resumable
    /\ UNCHANGED <<me, justCompressed>>

\* The turn's text is kept.  After the architect's the reviewer's turn begins
\* without a look at the length.  The other arms move to a phase, except the
\* reviewer's of a design that is not approved, which leaves the state.
TurnEnds ==
    /\ me # "none"
    /\ messages' \in Add(messages, me)
    /\ \/ /\ me = "Architect"
          /\ me' = "DevilsAdvocate"
          /\ UNCHANGED state
       \/ /\ me # "Architect"
          /\ me' = "none"
          /\ state' \in IF me = "DevilsAdvocate" THEN {state, "Phase"}
                        ELSE {"Phase"}
    /\ UNCHANGED justCompressed

Next ==
    \/ TaskArrives \/ Compress \/ StartPhase \/ LimitReached
    \/ Says \/ OutputUnparseable \/ HumanAnswers \/ TurnEnds

Spec == Init /\ [][Next]_vars

-----------------------------------------------------------------------------
(* Properties *)

\* A history has one checkpoint at most, and it is its head: a summary takes
\* the place of everything before it, older summaries included.
OneCheckpoint ==
    Checkpoints(messages) \subseteq IF messages = << >> THEN {} ELSE {1}

\* What is sent fits the budget, unless the checkpoint alone exceeds it: then
\* nothing else is sent (pruned_messages).
SentFits ==
    LET kept == PrunedMessages(messages)
    IN  Budget # 0 =>
            \/ LengthAt(messages, kept) <= Budget
            \/ kept = Checkpoints(messages)

\* What is left out is an unbroken stretch after the checkpoint: no agent sees
\* a message without everything said since.
NoGaps ==
    \A i \in PrunedMessages(messages) \ Checkpoints(messages) :
        i..Len(messages) \subseteq PrunedMessages(messages)

\* Nothing is left out that would fit: what is sent and the newest message
\* that is not together exceed the budget.
NothingWasted ==
    LET kept == PrunedMessages(messages)
        lost == DOMAIN messages \ kept
    IN  lost # {} => LengthAt(messages, kept \cup {Max(lost)}) > Budget

\* The first agent of a phase is sent the whole history: the check at the top
\* of the loop compresses it before pruning could lose a message unread.
PhaseStartsWhole ==
    [][me = "none" /\ me' # "none" =>
           PrunedMessages(messages) = DOMAIN messages]_vars

\* Context lets a message make the history exceed the budget but never lets
\* one make it fit again; only a summary does.
OnlySummaryShortens ==
    [][TotalContentLength(messages') < TotalContentLength(messages) =>
           Len(messages') = 1 /\ messages'[1].sender = "System"]_vars

\* The array an agent is sent starts with its system prompt and ends with a
\* message of the user, except that it is the bare prompt exactly when there is
\* no checkpoint and the newest message exceeds the budget by itself: then the
\* guard against a prefill, which looks for a last assistant, adds nothing.
BareOnlyIfTooLong ==
    me # "none" =>
        LET sent == BuildMessages(messages, FALSE, me)
            tooLong == /\ Budget # 0
                       /\ Checkpoints(messages) = {}
                       /\ messages[Len(messages)].length > Budget
        IN  /\ sent[1] = "system"
            /\ IF tooLong THEN Len(sent) = 1 ELSE sent[Len(sent)] = "user"

\* The array an agent is sent always ends with "user", as the comment in
\* build_messages says.
EndsWithUser ==
    me # "none" =>
        LET sent == BuildMessages(messages, FALSE, me)
        IN  sent[Len(sent)] = "user"

\* Truncation is signalled, as the comment of pruned_messages says of a marker:
\* what an agent is sent of a pruned history is not what it would be sent if
\* the messages that are kept were all there had been.
TruncationSignalled ==
    me # "none" /\ PrunedMessages(messages) # DOMAIN messages =>
        LET places == KeptInOrder(messages)
            kept == [k \in DOMAIN places |-> messages[places[k]]]
        IN  BuildMessages(messages, FALSE, me) # BuildMessages(kept, FALSE, me)
=============================================================================
