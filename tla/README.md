# lean-agents-rs in TLA+

A specification of the multi-agent workflow server in this repository: what
its engine, its human-in-the-loop pause and its HTTP layer do, which properties
hold of them, and which do not. Paths are relative to the repository's root;
`engine/mod.rs` and the like are under `src/`.

## 1. The system

A client posts a task to `/v1/agent/stream` and gets a stream of events. A
semaphore admits the task, an engine runs it through the phases *Planning,
Designing, Implementing, Reviewing, Completed*, calling one language-model agent
after the other; agents may ask for web searches; a reviewer agent approves or
rejects. When the engine cannot go on it *escalates*: it registers a `task_id`,
tells the client and waits until a human posts `/v1/agent/intervene` with a
message and the state to resume in. A client that closes its stream cancels its
workflow.

| component | state | operations | talks to |
|---|---|---|---|
| workflow state (`domain/state.rs`) | an enum, two variants of which carry the state they return to | `can_transition_to` | context |
| context graph (`domain/context.rs`) | messages, volatile slot, state, iteration | `transition_to`, `add_message`, `set_/clear_volatile_context`, `pruned_messages`, `reset_with_summary` | engine, agents |
| engine (`engine/mod.rs`) | context, iteration counters, compression guard, per-turn counters | `run` (one arm per state), `execute_with_tool_support`, `handle_escalation`, `emit` | everything below, by await |
| intervention registry (`server/state.rs`) | `active_interventions`: task_id → Sender | insert (engine), remove + send (handler) | engine and handler, concurrently |
| stream handler (`server/router.rs`) | semaphore, event channel, cancellation token | admit, spawn monitor and engine, stream | clients, engine |
| review decision (`domain/decision.rs`) | – | `parse_review_decision` | engine |
| parser (`parser/mod.rs`) | – | `parse_agent_output` | engine |
| agents (`agents/`) | prompts | `build_messages`, `execute` | engine, LLM client |
| LLM client (`client/llm.rs`) | retry counter, line buffer | `chat_completion`, `consume_stream` | model server |
| search clients (`client/search.rs`) | retry counter | `search`, fallback chain | search service |
| CLI (`tools/cli_client/client.py`) | where `stream_task` stands | stream, prompt, intervene | server |

What is hard here: three tasks per request share a channel and a token
(engine, monitor, response); the answer of a human races the engine's way to
`recv`, a second answer, and cancellation; a human may resume a workflow in a
state in which the code that continues does not expect to be; retry, tool-call
and iteration limits interact; blocking sends hold permits; the texts of agents
decide transitions. `PROJECT.json` lists these hazards one by one, at their
lines.

What makes each part correct:

* **engine** – ends or asks a human, always; returns `Ok` only when completed;
  advances a reviewed phase only on an approval; announces the state it is in.
* **escalation** – one ticket per question, exactly one answer accepted, none
  lost, none left behind.
* **server** – permits are accounted for; clients that leave release what they
  hold; every admitted workflow keeps to the life cycle; streams end.
* **context** – results put in the volatile slot reach the next agent call; what
  an agent is sent fits the budget, has no gaps and starts with the system prompt;
  it ends with a user message, and says so when it is truncated (section 4 on
  both); a phase starts with the whole history.
* **LLM client** – the text is what the response carries, however it arrives;
  nothing is read twice; every call ends.
* **search clients** – no client of the chain is skipped before it has failed
  for good; every search ends.
* **decision** – the last keyword decides, and nothing but an approval approves.
* **parser** – a tool call is found whatever its query contains; nothing the
  agent says is lost.
* **CLI** – whenever it asks its user, the server waits for that answer; no
  workflow waits for ever while the CLI, which asks, does not read.

## 2. Modules

| module | what it is |
|---|---|
| `WorkflowState` | the enum as paths of variant names, `CanTransitionTo` |
| `Context` | the context graph as the engine uses it |
| `Engine` | one workflow: `run`, tool loop, escalation, intervention, cancellation |
| `Lifecycle` | the abstract promise: works, asks one question at a time, takes one answer, ends after the client has left |
| `Server` | several workflows: semaphore, channels, monitors, responses |
| `LlmCall` | one call of the language model: retries, chunks, lines |
| `ContextWindow` | the message history: what is kept, sent and compressed |
| `SearchCall` | one search: retries inside a chain of clients |
| `AgentText` | an enumeration of the texts an agent may answer with, and `trim` |
| `OutputParser`, `ReviewDecision` | how such a text is parsed, how it is judged |
| `CliClient` | `Server` with command-line clients among its clients |
| `MCEngine`, `MCServer`, `MCClients`, `MCContextWindow`, `MCCliClient`, `MCTexts`, `MCAgents` | instances for TLC |
| `EngineProofs`, `EngineResumeProofs`, `ServerProofs`, `CliClientProofs`, `LlmCallProofs`, `ContextWindowProofs`, `SearchCallProofs`, `TextsProofs` | lemmas and theorems |

`Engine` refines `Lifecycle` (`ImplementsLifecycle`), and each request of
`Server` is checked against the same `Lifecycle` (`EachKeepsLifecycle`). So the
server's reduced engine – it emits, asks, ends – does not rest on an unstated
guess: both levels meet in one module. `CliClient` composes with `Server` by
conjunction: a step of a CLI is a step of the client of its request.
`LlmCall`, `SearchCall`, `OutputParser` and `ReviewDecision` are what stands
behind the alternatives an agent's turn has in `Engine`; `ContextWindow` is what
stands behind `Context`, whose `over` is its `Over(messages)`:
`OnlySummaryShortens` is the fact `Context` is built on, and `FollowsContext` proves that
the operators of `Context` are what the steps of `ContextWindow` come to.

An operator with `_` in its name, marked *Defect*, is no part of the model: it
is the form a plausible bug would give the definition after it. Putting it in
that definition's place must make TLC report the property `PROJECT.json` pairs
it with.

### Engine and the code

A step runs from one await another task can observe to the next. `pc` names
that await:

| `pc` | where the code stands |
|---|---|
| `loop` | top of `run`'s `select!` |
| `llm` | `agent.execute` in `execute_with_tool_support` |
| `search` | `search.search` in its inner `select!` |
| `summary` | `llm.chat_completion` in the CompressingContext arm |
| `escalating` | the emit of `WorkflowEscalated`, after the entry is registered |
| `awaiting` | `recv` of the escalation's channel |
| `done` | `run` has returned (or panicked); `result` says how |

`context` is the `ContextGraph`; `designIterations`, `reviewIterations` and
`justCompressed` are `run`'s locals; `turn` holds `current_state`, `tool_calls`
and `parse_retries` of the running turn and which agent it is; `escalation`
remembers which caller of `handle_escalation` continues after it. `entry`,
`handler` and `mailbox` are the three places a `Sender` or an answer can be in:
the registry, an intervention handler between `remove` and `send`, the
escalation's channel of capacity one. `events` is what the client can tell from
the stream: the last state announced, what the last agent text amounted to, and
whether completion was announced.

Each arm of `run` is an action (`PlanningArm`, `DesigningArm`, ...); an arm that
calls agents is split at the calls, and `TurnReturns` is the rest of the arm
once the agent has answered. What a call may come back with is an action each:
`AgentSpeaks`, `AgentCallsTool`, `ToolLimitReached`, `OutputUnparseable`,
`StreamBreaks`, `CallFails`, `ReviewPanics`, `SearchSucceeds`, `SummaryArrives`.
A `?` behind a transition is `RefuseTransition`.

Abstractions: messages are reduced to "their total length exceeds the budget",
the one thing the engine asks of them, and any message may make it so. Texts
are reduced to how they are parsed; `Reject` and `RequestRevision`, which the
engine handles alike, are one. The `iteration` counter of the context is left out: nothing
reads it. Awaits inside `emit` are merged into their step except between the two
events of an escalation, where an answer can arrive: elsewhere nothing but
cancellation can happen there, and what it drops is local to the workflow.
`recv` returning `None` is unreachable while the entry or a handler holds the
Sender and an accepted send precedes its drop, which is what `OneTicket` shows,
so there is no action for it. A resume state is whatever the constants
`LimitResume` and `TurnResume` offer.

### Server and the code

`http` follows one POST (`idle`, `queued` in `acquire_owned`, `streaming`,
`closed` when the response has ended, `gone` when the client left); `queue` is
the semaphore's (fair) queue; `task` is the engine task; `channel` the event
channel; `senders` who holds a `Sender` of it, the monitor's clone included;
`token` the cancellation token. `Send` blocks while the channel is full and the
receiver lives, and fails at once when it is gone. Whoever ends the engine task
– return, error, panic – drops its permit and Sender (`EndTask`). A blank task is
a 400 without effect and has no action, and neither has a 404 of `intervene`.
An answer needs the `task_id`, which only the client of that stream reads.

### LlmCall and the code

`phase` is where `chat_completion` stands: `sending` (in the retry loop),
`reading` (in `consume_stream`), `done`. A body is a sequence of pieces: what a
line is (content, `[DONE]`, anything passed over; a blank line has no such piece),
its characters, its end. `ChunkArrives` takes as much of what is pending as it likes,
decodes it on its own (`Decode`) and joins it to the buffer. `ReadLine` is a turn of
the inner `while`: it takes the first complete line out of the buffer, and
`TakeLine` does what the line says. The next chunk is asked for only when no
complete line is left, as in the code. A character of more than one byte is
two pieces, enough for a cut inside it; cuts elsewhere inside a line's prefix
change nothing, as the buffer is joined before it is read. A response may break
off, or the timeout strike, at any point of the reading (`BodyBreaks`). `Engine`
takes the three outcomes: a text (`AgentSpeaks` and its siblings), an empty
stream (`StreamBreaks`), any other error (`CallFails`).

### ContextWindow and the code

A message is its sender and its length, and a history a sequence of them. The
steps are those of the engine that write to the history – the task, the speech
before a tool call, an unparseable output and the notice about it, a human's
answer, the text that ends a turn – and the compression at the top of the loop.
`me` is the agent at work; `none` is the top of the loop, where `MustCompress`
is asked. `state` is the variant of the workflow's state as far as the loop goes on
differently with the history: `Init`, a phase, or `CompressingContext`. The last
can be what a human asks for in `resume_state`, after a limit or in the middle of a
turn, and carries a state to return to that may be any, itself included. So `Compress`
is the compression of a phase that exceeds the budget and also the one a human asks for,
of a history however short, several times in a row if so nested; after a return to
`Init` the task is put again, to the summary. A transition that is refused ends
the run and has no step here, and neither has an answer that ends it; nothing is sent
after either. `Recent` states pruning's backward scan by its result: the messages from
which to the newest the lengths fit what the checkpoints leave. As each message
counts, a stop at the first that does not fit and this set are the same, which
`NoGaps` and `NothingWasted` check. `BuildMessages` gives the roles of the array, on
which llama.cpp's refusal of a prefill depends. The results a search leaves in
the volatile slot are an argument of it; no agent call of the code ever sees
them set (`SearchResultsLost`).

### SearchCall and the code

`client` and `attempt` are the two loops, outer and inner. A failure of either
kind (no response, no success) is `RequestFails`; a success that does not parse leaves
the inner loop by its `?` (`BodyUnreadable`). `main.rs` builds a chain of one
client, the case `Clients = 1`; `sent` and `unreadable` are history.

### Texts, OutputParser, ReviewDecision and the code

The readers are functions of a text. `AgentText` has no step of the code: it enumerates
the texts of at most `MaxPieces` pieces of an alphabet, so that an invariant of
`TextSpec` is a statement about each of them (how a text comes about is `LlmCall`). The
pieces are chosen by what the algorithms tell apart. For the parser: braces, a quote,
a backslash, white space, anything else, and the opening of a search object as one
piece, since its letters cannot be built from few pieces. For the decision: a
keyword of each kind, ASCII letters, a long stretch of them, a character of three
bytes, white space. Both readers are defined on every text; two alphabets keep
the number of texts in bounds. `Scan` is one turn of `find_matching_brace`; what serde
accepts is stated as a grammar (`IsCall`), and the escapes of a JSON string are marked
external. `Bytes` counts the
bytes, so that the cut at byte 197 can fall inside a character. Positions found in the
lowercased text are used in the original; characters whose lower case has another
length, keywords of two words and the punctuation before a reason are left out.

### CliClient and the code

`cli` is where `stream_task` stands: `reading` the stream, `prompting` its user
until the intervention is answered, `done`. It reads one event at a time and none
while it prompts. `Answer` has no branch for a 404, after which the CLI reads on as
well, because `PromptAnswerable` shows that none can come. The read timeout of
600 s can strike a queued request only: once the response has begun, its pings
keep it alive. `Quit` is that, Ctrl-C and a lost server alike. After the workflow
has ended the CLI waits for a stream that does not close (`StreamStaysOpen`), so
`done` is reached by `Quit` only until then.

## 3. Runs

The limits of the code are 3/3/3 iterations, tool calls and parse retries;
runs named so use them. States are counted as distinct.

| run | instance | checks |
|---|---|---|
| `EngineTyped` | limits 1/1/1, resume states anything the type admits, each transient kind nested once; 278,295 states | `IInv`, `TypeOK`, `OneTicket`, `RegistryClean`, `NoRunaway`, `AnswerWakes`, `CancelEnds`, `ImplementsLifecycle` |
| `EngineSamePhase` | limits 3/3/3; a broken turn is resumed in its own phase, a limit in any documented state; 48,416 states | `OkMeansCompleted`, `NoInvalidTransition`, `ClientSeesState`, `RejectNeverAdvances`, `CompletionIsLast` |
| `ServerRuns` | 3 requests, 2 of them from CLIs, 2 permits, channels of one event; 165,288 states | `TypeOK`, `PermitsAccounted`, `CancelledMeansGone`, `CliConnected`, `PromptAnswerable`, `GoneReleases`, `QueueMoves`, `EachKeepsLifecycle`, `CliUnblocks` |
| `ClientCalls` | `LlmCall`: 3 retries; bodies of up to three lines, blank ones among them, cut off after any piece, in any chunks. `SearchCall`: 3 clients, 3 retries each; 46,248 states | `TypeOK`, `NothingTwice`, `AnswerIsWhole`, `CallEnds`, `NoClientSkipped`, `SearchEnds` |
| `SentAndRead` | `ContextWindow`: budget 3, messages of length 1, 2 and 4, three messages in a history before a turn must end. The readers: all texts of at most six pieces over either alphabet, queries of at most two pieces; 301,634 states | `TypeOK`, `OneCheckpoint`, `SentFits`, `NoGaps`, `NothingWasted`, `BareOnlyIfTooLong`, `PhaseStartsWhole`, `OnlySummaryShortens`, `CallFound`, `NothingLost`, `LastKeywordWins`, `ApprovalIsAWord` |

The last two put side by side two parts that share nothing: the two clients an agent's turn
awaits one at a time, and what an agent is sent and what is made of its answer. One part
stands still, at its beginning or its end, while the other moves, so the states of such
a run are the sum of those of its parts, and each property is checked on all the
behaviours of the part it is about. `MCClients` assumes what `SearchCall` expects of its
constants (`ChainAssumption`).

Why these bounds suffice for the question asked. Limits of one reach every side
of every comparison with a limit (below, at, above), so the liveness run uses
them; safety is run at the real values too. Three requests over two permits
make one wait while two run, and two wait while one permit circulates; a channel of
one event is full after every unread event, the case a channel of 64 meets
after 64. One level of nesting in a resume state shows what any level does, as
a return peels off one level (and the proofs do not bound it). Three lines put
content before and after `[DONE]`, and leave a line unfinished after either. With a
budget of 3, lengths of 1, 2 and 4 give messages that fit together, that fill the
budget exactly, that fit alone only, and that never fit, summaries among them;
`MaxMessages` bounds what a turn may add, which in the code tool calls, retries and humans do.
Six pieces hold a whole tool call with a query of two pieces and text on both
sides of it or braces around it, and three keywords with words between them. Two CLIs
and two permits let a third client wait for both their users, and one CLI for the other's
user and the third client.

Deadlock is checked in every run: `Terminated` is the only step that changes
nothing, and only a finished engine or call, or a server with no live task, may
take it.

### Fairness

* `EngineStep`: tokio polls a task that can go on; every model or search call
  ends, as both clients set a timeout (`client/llm.rs:177`, `client/search.rs:81`).
  Weak fairness is on the whole step, so no particular answer is promised.
* `Cancel`: a `select!` whose token is cancelled returns no later than its next
  pending await.
* `SendAnswer`: a handler that removed an entry runs on; its channel has room.
* `Admit`, `MonitorCancels`, `EngineDuty` in `Server`: the semaphore is fair
  (queue order is modelled), and the monitor and a task past its work run on.
* `LlmCall`: a timeout of 120 s covers each request with its body and a backoff
  ends, so the call takes its next step; which one is not promised.
* `SearchCall`: each request has a timeout of 30 s and a backoff ends.
* `CliFairness`: a CLI reads what has come, and a user who is asked answers
  unless the CLI is left. It is assumed in `CliClient` only: `CliUnblocks` is
  about what the program adds to a user who answers, and the other properties of
  `ServerRuns` hold for the third client, of whom nothing is assumed, as well.
* Elsewhere nothing forces a human to answer, a client to leave or to read, or, in
  `Server`, a workflow to end. `Engine` assumes that its events find room;
  `Server` drops that assumption, and blocks.
* `KindSpec` adds clients that read and workflows that end. It is used
  only where a property fails even so.

## 4. Where the code and its words part

Each of these runs checks one property that a comment or document states, and
TLC violates it.

| run | property | what happens |
|---|---|---|
| `SearchResultsLost` | `SearchResultsReachAgent` | `engine/mod.rs:634` stores the results, `:635` transitions, and `transition_to` clears the slot; no agent ever sees a search result |
| `RejectAdvances` | `RejectNeverAdvances` | a final review broken off and resumed in Designing rejects, and so moves Designing → Implementing |
| `NoticeApproves` | `OnlyReviewerApproves` | the tool-limit notice quotes the query and is parsed as the review |
| `ReasonPanics` | `ReasonIsCut` | `domain/decision.rs:164` slices the reason at byte 197, inside a character |
| `PromptBare` | `EndsWithUser` | when the newest message alone exceeds the budget and there is no checkpoint, pruning keeps nothing; the guard of `agents/mod.rs:75` looks for a last `assistant`, finds `system`, and the agent is sent its system prompt and nothing else |
| `TruncationSilent` | `TruncationSignalled` | no marker is prepended to a pruned history, against `domain/context.rs:114`: the agent is sent what it would be sent if the kept messages were all |
| `StreamStaysOpen` | `StreamCloses` | the monitor's Sender keeps the channel, and so the response, open until the client leaves |

`BareOnlyIfTooLong` says exactly when the array is bare and shows that it ends with the user
otherwise. `SearchResultsLost` is also why `EngineSamePhase` says nothing of the volatile slot, and
`RejectAdvances` why its humans resume a broken turn where it broke: after an
escalation in the middle of a turn the same turn goes on in the state the human chose, and
either passes a gate there or has its next transition refused, which ends the
workflow (`NoInvalidTransition` fails with `DocumentedTurn` too).

The models show more of what the code does that its documents leave out or put
otherwise; these have no run of their own:

* a workflow a human resumes in Completed ends without `workflow_completed`
  (`engine/mod.rs:388`); the change of state is announced (`ClientSeesState`);
* `design_iterations` is not reset when a design is approved, so after a return from
  the review limit to Designing an earlier design's rejections count against the new
  one (`engine/mod.rs:257`; `README.md:135` speaks of consecutive ones);
* a human who resumes after a limit in Escalated or AwaitingHumanInput makes `run` return `Ok`
  with nothing completed (`engine/mod.rs:376`); `EngineTyped` offers such states, and
  `OkOnlyCompleted` proves which resume states exclude it;
* what `current_state` holds at the start of a turn is stale once a human has moved the
  turn elsewhere (`engine/mod.rs:484`); of such a turn only the properties of `EngineTyped`
  are claimed, that it keeps the life cycle and leaves nothing behind;
* a tool call after other braces is speech: only the object at the first brace is
  tried (`parser/mod.rs:31`, the condition in `CallFound`);
* a character that straddles two chunks of a response is replaced (`client/llm.rs:108`,
  `Decode`; `NothingTwice` and `AnswerIsWhole` allow for it);
* a queued request has no response, not even a status, until it has its permit
  (`server/router.rs:63`), for as long as others wait for their humans.

## 5. Proofs

Every type invariant, safety invariant and action property that a passing run checks
is a theorem as well. TLC shows it on an instance, and searches for the step that would
break it; the proof shows it for every value of the constants.

`EngineProofs` proves of `Engine`, for all limits in Nat and all sets of
resume states of the enum, nested to any depth (`BoundsAssumption`,
`ResumeAssumption`, nothing else):

| theorem | says |
|---|---|
| `Invariance` | `Spec => []IInv` |
| `TypeCorrect`, `SingleTicket`, `CleanRegistry` | `[]TypeOK`, `[]OneTicket`, `[]RegistryClean` |
| `CompletionLast` | `CompletionIsLast` |
| `SafeLifecycle` | `Spec => LC!SafeSpec`: every initial state and every step maps to the abstract life cycle or a stutter |

`IInv` is the inductive invariant. `TypeOK` alone is not inductive: that an
iteration counter stays within its limit needs to know that a review turn only
runs below the limit, and that `parse_retries` exceeds its own only while a human is
asked (`TurnOK`). `OneTicket` needs that an engine waits exactly when an escalation
has a cause, and `RegistryClean` that a finished one has a result (`ControlOK`). The
proof has one lemma per action, and under it one step per conjunct the action
can disturb. That the engine only produces states of the enum rests on the lemmas
at the head of the module: wrapping a state in ToolCalling or CompressingContext
gives a state, and returning from one does. `CompletionLast` adds
`CompletionEnds`, inductive by itself: an engine that has announced completion is at
the top of its loop in Completed, where no arm but the last is open, or has
returned. It needs no assumption on the resume states, as an engine resumed in
Completed announces no completion.

`EngineResumeProofs` proves what holds for some humans only, each theorem under the
assumption it needs on the two sets of resume states and again for all limits:

| theorem | assumes | says |
|---|---|---|
| `TransitionsValid`, `ClientInformed`, `GatesStrict` | `SamePhaseResume`: a broken turn is resumed in its phase, a limit in a documented state | `[]NoInvalidTransition`, `[]ClientSeesState`, `RejectNeverAdvances` |
| `OkOnlyCompleted` | `FinalResume`: no resume state lets `run` return without completing | `[]OkMeansCompleted` |

The first three rest on `PInv`, inductive together with `IInv`: a turn runs in the
phase of its arm, or in the transient state it entered from it (`Place`); what a
handler or the mailbox holds is an answer to the question that was asked
(`Answers`); the last state announced is the state, except between the two events
of an escalation (`Told`). `Place` is what the code relies on without testing it: it makes
every transition at the end of an arm one that `can_transition_to` admits. The last one
rests on `FInv`: wherever the engine, a handler or the mailbox holds a
state, the innermost phase of it is one from which the loop goes on.

`ServerProofs` proves of `Server`, for any finite set of requests, any number of
permits and any channel capacity:

| theorem | says |
|---|---|
| `ServerInvariance` | `Spec => []SInv` |
| `PermitsConserved`, `TokensJustified` | `[]PermitsAccounted`, `[]CancelledMeansGone` |
| `ServerTyped` | `[]TypeOK`: no channel holds more than its capacity, no request stands in the queue twice |
| `QueueExact` | `[]Queue`: the requests in the queue are those that wait for a permit, each once |
| `EachSafeLifecycle` | for each request `r`, `Spec => LC(r)!SafeSpec` |

`SInv` joins the two properties with `Shapes`, the part of the type invariant the
argument needs, and `Stages`: a request not yet admitted has no task, and a
response ends only when no task can send to it. Without `Stages` a monitor might
cancel a workflow whose response has ended but whose client has not left, and
admission might start a second task on one permit. The counting rests on three
lemmas, one for a task that starts, one for a task that lives on, one for a task
that ends, whichever way it does. `EachSafeLifecycle` splits a step of request
`q` into what it does to `q`'s own life cycle (`OwnStep`) and to any other's,
which is nothing (`OthersStep`). `ServerTyped` and `QueueExact` rest on `TInv`, which
adds `Channels` (only a response being streamed has events to deliver) and `Queue`. That a
request stands in the queue once is what makes its removal, when its client leaves,
remove it for good.

`CliClientProofs` carries these results over to `CliSpec`, for any subset of the requests
as CLIs:

| theorem | says |
|---|---|
| `PromptsAnswerable` | `CliSpec => []PromptAnswerable` |
| `ClisConnected`, `CliPermitsConserved`, `CliTyped` | `[]CliConnected`, `[]PermitsAccounted`, `[]TypeOK` |
| `CliSafeLifecycle` | for each request `r`, `CliSpec => LC(r)!SafeSpec` |

A step of a CLI is a step of `Server` (or leaves the server as it is), so `TInv` is
kept. What `PromptAnswerable` needs beyond it is that a question still in the channel,
or read and not answered, belongs to a workflow that has not moved on: at most one
question is under way, it is open until the answer, and a connected CLI's workflow is not
cancelled.

`LlmCallProofs` proves of `LlmCall`, for all bodies whose lines begin with what they
are, any cuts into chunks and any number of retries:

| theorem | says |
|---|---|
| `CallInvariance`, `CallTyped` | `[]LInv`, `[]TypeOK` |
| `ReadOnce` | `[]NothingTwice` |
| `WholeAnswer` | `[]AnswerIsWhole` |

`LInv` ties the buffer to the body: the body is what has been read in whole lines, then
the buffer, then what is pending, the buffer up to the characters a cut has
spoilt (`Places`); and the text is what the lines read so far carry (`SoFar`). A lemma for each
kind of line says what reading it adds to what the body carries up to there.

`ContextWindowProofs` proves of `ContextWindow`, for every budget, all lengths of
messages and histories of any length:

| theorem | says |
|---|---|
| `CheckpointAlone`, `HistoryTyped` | `[]OneCheckpoint`, `[]TypeOK` |
| `PhasesStartWhole`, `SummariesShorten` | `PhaseStartsWhole`, `OnlySummaryShortens` |
| `BudgetKept`, `NothingSkipped`, `BudgetUsed` | `[]SentFits`, `[]NoGaps`, `[]NothingWasted` |
| `BareExactly` | `[]BareOnlyIfTooLong` |
| `FollowsContext` | every step is, to a context whose `over` is `Over(messages)`, an `AddMessage` or a `ResetWithSummary` of `Context` |

`CheckpointAlone` is inductive with what `WInv` adds: right after a compression there is
only the summary, and outside of Init there is a message. Every other step puts a message at
the end. The rest is about sums of lengths, which the model
writes as a fold and which call for induction. Two devices stand in for it. The
length of some messages is the number of their bytes, a set (`LengthCounts`), and sets can
be joined, compared and counted. And what holds of every finite set is shown at a smallest
one for which it fails (`SmallestSubset`), with the set in the place of the
induction hypothesis. From there `Recent` is a stretch that reaches to the newest message
(`RecentIsTail`), and the three properties of pruning follow. That pruning keeps nothing
exactly when the newest message exceeds the budget by itself (`NothingKept`) gives
`BareExactly`; wherever anything is kept, the last role is a user's or draws the trigger
(`PromptOrUser`). `FollowsContext` joins the
two models of the context graph, the one `Engine` is proved with and the one that has the
messages: a history becomes longer with each message and shorter with a summary only.

`TextsProofs` proves of texts of any length over the model's pieces:

| theorem | says |
|---|---|
| `LastDecides`, `WordApproves` | `[]LastKeywordWins`, `[]ApprovalIsAWord` |
| `CallIsFound` | `[]CallFound` |
| `OutputKept` | `[]NothingLost` |

The scan, the escapes of a string and what is visible of a text are recursive functions.
What each computes is settled as above, by the smallest place at which it would be otherwise
(`EscapedIs`, `ScanIs`, `SeenIs`). `CallScanned` is the heart of `CallIsFound`: along a
call the scan is within the string, and knows which character is escaped, exactly as the
grammar of the string says, so that its depth returns to 0 at the last brace and nowhere before.
`OutputKept` needs the converse too: what the parser takes for a call ends where the scan
does (`CallCloses`), and neither trimming nor joining changes what is visible (`SeenTrim`,
`SeenJoin`).

`SearchCallProofs` proves `ChainInOrder` (`[]NoClientSkipped`) for chains of any length
and any number of retries, under `SearchAssumption`, from `SearchInv`, which adds that the attempt counts the
requests of the client at hand.

Only model-checked: liveness (`NoRunaway`, `AnswerWakes`, `CancelEnds`,
`GoneReleases`, `QueueMoves`, `CallEnds`, `SearchEnds`, `CliUnblocks`, and the fairness half
of the two refinements), which the prover cannot treat.

## 6. Not modelled

* The wording of prompts and of messages, the JSON of events, how senders are
  displayed, logging and rendering: no property is about them.
* `main.rs`: environment variables and wiring; the limits read there are constants of
  the modules.
* The keep-alive of the response, except that it keeps the CLI's read timeout from
  striking.
* `tests/test_runner.py`, `test_cancel.sh` and the profiling script: drivers.
* What a crash of the server would lose: nothing is persisted, so there is nothing to
  recover, and a restart is a new initial state.
* Five hazards have no property, because no document settles what the code ought to do;
  the step of each is in the models. Whether a failed summary request should escalate
  like other agent calls (`engine/mod.rs:430`); whether a budget of 0 means no limit to
  the compression as well (`engine/mod.rs:127`); whether an approval in between should
  reset the rejections of a design (`engine/mod.rs:257`); whether a tool call after other
  braces should be found (`parser/mod.rs:31`); whether a character split over two chunks must
come through (`client/llm.rs:108`).

## 7. What is left

1. Reasons after characters whose lower case has another length (`decision.rs:116`), which
   needs widths of both cases.
2. The two readers on texts of both alphabets at once, and longer ones, by a
   definition of the texts that leaves out those that differ in names only.
