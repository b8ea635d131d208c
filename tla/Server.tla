-------------------------------- MODULE Server --------------------------------
(***************************************************************************)
(* The HTTP server around the engine: stream_handler with its semaphore,   *)
(* the event channel each workflow shares between its engine task, its     *)
(* monitor task and the SSE response, and intervene_handler                *)
(* (src/server/router.rs, src/server/state.rs).                            *)
(*                                                                         *)
(* The engine itself is reduced to what it does to that state: it emits    *)
(* events, asks a human, ends.  Engine has its detail; both keep to        *)
(* Lifecycle.  Each element of Requests is one POST to /v1/agent/stream.   *)
(***************************************************************************)
EXTENDS Naturals, Sequences, FiniteSets, SequencesExt

CONSTANTS
    Requests,     \* the POSTs
    MaxTasks,     \* MAX_CONCURRENT_TASKS, the semaphore's permits
    Capacity      \* events a workflow's channel holds (64)

ASSUME ServerAssumption ==
    /\ IsFiniteSet(Requests)
    /\ MaxTasks \in Nat
    /\ Capacity \in Nat \ {0}

VARIABLES
    http,      \* where each POST stands
    queue,     \* the requests waiting in acquire_owned, in order
    permits,   \* free permits
    task,      \* what the engine task of each request does
    channel,   \* the events waiting in its channel
    senders,   \* which tasks hold a Sender of that channel
    token,     \* its CancellationToken is cancelled
    ticket,    \* its escalation: see Lifecycle
    asked      \* its client has read the task_id of that escalation

vars == <<http, queue, permits, task, channel, senders, token, ticket, asked>>

\* The engine task is there, and holds its permit.
Waiting == {"escalating", "announced", "asking"}
Alive == {"working", "reporting"} \cup Waiting
Ended == {"ended", "panicked"}

\* The event that carries a task_id, and every other.
Events == {"question", "event"}

TypeOK ==
    /\ http \in [Requests -> {"idle", "queued", "streaming", "closed",
                              "gone"}]
    /\ queue \in Seq(Requests)
    /\ permits \in 0..MaxTasks
    /\ task \in [Requests -> {"none"} \cup Alive \cup Ended]
    /\ channel \in [Requests -> Seq(Events)]
    /\ \A r \in Requests : Len(channel[r]) <= Capacity
    /\ senders \in [Requests -> SUBSET {"engine", "monitor"}]
    /\ token \in [Requests -> BOOLEAN]
    /\ ticket \in [Requests -> {"none", "open", "answered"}]
    /\ asked \in [Requests -> BOOLEAN]

Init ==
    /\ http = [r \in Requests |-> "idle"]
    /\ queue = << >>
    /\ permits = MaxTasks
    /\ task = [r \in Requests |-> "none"]
    /\ channel = [r \in Requests |-> << >>]
    /\ senders = [r \in Requests |-> {}]
    /\ token = [r \in Requests |-> FALSE]
    /\ ticket = [r \in Requests |-> "none"]
    /\ asked = [r \in Requests |-> FALSE]

-----------------------------------------------------------------------------
(* stream_handler *)

\* A blank task is refused with 400 and changes nothing.  Any other request
\* queues for a permit; the semaphore is fair.
Post(r) ==
    /\ http[r] = "idle"
    /\ http' = [http EXCEPT ![r] = "queued"]
    /\ queue' = Append(queue, r)
    /\ UNCHANGED <<permits, task, channel, senders, token, ticket, asked>>

\* The permit is there: channel, monitor, engine task and the 200 response
\* come without another await.
Admit(r) ==
    /\ http[r] = "queued"
    /\ Head(queue) = r
    /\ permits > 0
    /\ queue' = Tail(queue)
    /\ permits' = permits - 1
    /\ http' = [http EXCEPT ![r] = "streaming"]
    /\ task' = [task EXCEPT ![r] = "working"]
    /\ senders' = [senders EXCEPT ![r] = {"engine", "monitor"}]
    /\ UNCHANGED <<channel, token, ticket, asked>>

\* Defect: the waiter of a client that left stays in the semaphore's queue.
LeaveQueue_Stuck(r) ==
    /\ http[r] = "queued"
    /\ http' = [http EXCEPT ![r] = "gone"]
    /\ UNCHANGED <<queue, permits, task, channel, senders, token, ticket,
                   asked>>

\* The client leaves while its request is queued: the handler is dropped and
\* with it its place in the queue.
LeaveQueue(r) ==
    /\ http[r] = "queued"
    /\ http' = [http EXCEPT ![r] = "gone"]
    /\ queue' = RemoveFirst(queue, r)
    /\ UNCHANGED <<permits, task, channel, senders, token, ticket, asked>>

-----------------------------------------------------------------------------
(* The SSE response and the monitor task *)

\* The client polls its response: the next event, or the end of the stream
\* when the channel is empty and no Sender is left.
PollStream(r) ==
    /\ http[r] = "streaming"
    /\ channel[r] # << >> \/ senders[r] = {}
    /\ IF channel[r] # << >>
       THEN /\ channel' = [channel EXCEPT ![r] = Tail(@)]
            /\ asked' = [asked EXCEPT ![r] = @ \/ Head(channel[r]) = "question"]
            /\ UNCHANGED http
       ELSE /\ http' = [http EXCEPT ![r] = "closed"]
            /\ UNCHANGED <<channel, asked>>
    /\ UNCHANGED <<queue, permits, task, senders, token, ticket>>

\* The client closes the connection: the receiver and its events are dropped.
LeaveStream(r) ==
    /\ http[r] = "streaming"
    /\ http' = [http EXCEPT ![r] = "gone"]
    /\ channel' = [channel EXCEPT ![r] = << >>]
    /\ UNCHANGED <<queue, permits, task, senders, token, ticket, asked>>

\* Defect: a client that does not read is taken for one that left.
MonitorCancels_WhenFull(r) ==
    /\ "monitor" \in senders[r]
    /\ http[r] # "streaming" \/ Len(channel[r]) = Capacity
    /\ token' = [token EXCEPT ![r] = TRUE]
    /\ senders' = [senders EXCEPT ![r] = @ \ {"monitor"}]
    /\ UNCHANGED <<http, queue, permits, task, channel, ticket, asked>>

\* The monitor's tx_clone.closed() resolves once the receiver is dropped; it
\* cancels the token and returns, dropping its Sender.
MonitorCancels(r) ==
    /\ "monitor" \in senders[r]
    /\ http[r] \notin {"queued", "streaming"}
    /\ token' = [token EXCEPT ![r] = TRUE]
    /\ senders' = [senders EXCEPT ![r] = @ \ {"monitor"}]
    /\ UNCHANGED <<http, queue, permits, task, channel, ticket, asked>>

-----------------------------------------------------------------------------
(* The engine task *)

\* Defect: the channel has no bound.
Send_Unbounded(r, event) ==
    \/ /\ http[r] = "streaming"
       /\ channel' = [channel EXCEPT ![r] = Append(@, event)]
    \/ /\ http[r] # "streaming"
       /\ UNCHANGED channel

\* tx.send: waits for room while the receiver lives, fails at once afterwards.
Send(r, event) ==
    \/ /\ http[r] = "streaming"
       /\ Len(channel[r]) < Capacity
       /\ channel' = [channel EXCEPT ![r] = Append(@, event)]
    \/ /\ http[r] # "streaming"
       /\ UNCHANGED channel

\* Defect: the permit is returned only by a task that runs to its end.
EndTask_KeepsPermit(r, end) ==
    /\ task' = [task EXCEPT ![r] = end]
    /\ senders' = [senders EXCEPT ![r] = @ \ {"engine"}]
    /\ permits' = IF end = "panicked" THEN permits ELSE permits + 1

\* The task's future is dropped, by return or by a panic: so are its Sender
\* and its permit.
EndTask(r, end) ==
    /\ task' = [task EXCEPT ![r] = end]
    /\ senders' = [senders EXCEPT ![r] = @ \ {"engine"}]
    /\ permits' = permits + 1

Emit(r) ==
    /\ task[r] = "working"
    /\ Send(r, "event")
    /\ UNCHANGED <<http, queue, permits, task, senders, token, ticket, asked>>

\* handle_escalation registers the task_id ...
Escalate(r) ==
    /\ task[r] = "working"
    /\ task' = [task EXCEPT ![r] = "escalating"]
    /\ ticket' = [ticket EXCEPT ![r] = "open"]
    /\ asked' = [asked EXCEPT ![r] = FALSE]
    /\ UNCHANGED <<http, queue, permits, channel, senders, token>>

\* ... emits it to the client ...
Announce(r) ==
    /\ task[r] = "escalating"
    /\ Send(r, "question")
    /\ task' = [task EXCEPT ![r] = "announced"]
    /\ UNCHANGED <<http, queue, permits, senders, token, ticket, asked>>

\* ... and emits AwaitingHumanInput before it waits.
Await(r) ==
    /\ task[r] = "announced"
    /\ Send(r, "event")
    /\ task' = [task EXCEPT ![r] = "asking"]
    /\ UNCHANGED <<http, queue, permits, senders, token, ticket, asked>>

\* Defect: the engine gives up waiting and goes on.
TakeAnswer_GivesUp(r) ==
    /\ task[r] = "asking"
    /\ ticket' = [ticket EXCEPT ![r] = "none"]
    /\ task' = [task EXCEPT ![r] = "working"]
    /\ UNCHANGED <<http, queue, permits, channel, senders, token, asked>>

\* The answer names a state to resume in; a refused one makes run fail.
TakeAnswer(r) ==
    /\ task[r] = "asking"
    /\ ticket[r] = "answered"
    /\ ticket' = [ticket EXCEPT ![r] = "none"]
    /\ task' \in {[task EXCEPT ![r] = next] : next \in {"working", "reporting"}}
    /\ UNCHANGED <<http, queue, permits, channel, senders, token, asked>>

\* run returns Ok, with WorkflowCompleted for the reviewer's approval and
\* without it for a human's.
Complete(r) ==
    /\ task[r] = "working"
    /\ Send(r, "event") \/ UNCHANGED channel
    /\ EndTask(r, "ended")
    /\ UNCHANGED <<http, queue, token, ticket, asked>>

Panic(r) ==
    /\ task[r] = "working"
    /\ EndTask(r, "panicked")
    /\ UNCHANGED <<http, queue, channel, token, ticket, asked>>

Fail(r) ==
    /\ task[r] = "working"
    /\ task' = [task EXCEPT ![r] = "reporting"]
    /\ UNCHANGED <<http, queue, permits, channel, senders, token, ticket, asked>>

\* Defect: the wait for a human does not see the token.
Cancelled_NotAsking(r) ==
    /\ token[r]
    /\ task[r] \in {"working"}
    /\ task' = [task EXCEPT ![r] = "reporting"]
    /\ UNCHANGED <<http, queue, permits, channel, senders, token, ticket, asked>>

\* run's select! returns Err(Cancelled); the escalation's receiver is dropped
\* and an answer in the channel with it.
Cancelled(r) ==
    /\ token[r]
    /\ task[r] \in {"working"} \cup Waiting
    /\ task' = [task EXCEPT ![r] = "reporting"]
    /\ ticket' = [ticket EXCEPT ![r] = IF @ = "answered" THEN "none" ELSE @]
    /\ UNCHANGED <<http, queue, permits, channel, senders, token, asked>>

\* The error is sent as WorkflowEscalated without a task_id, outside select!.
Report(r) ==
    /\ task[r] = "reporting"
    /\ Send(r, "event")
    /\ EndTask(r, "ended")
    /\ UNCHANGED <<http, queue, token, ticket, asked>>

-----------------------------------------------------------------------------
(* intervene_handler *)

\* Whoever knows the task_id answers: 200 while the engine holds the receiver,
\* 500 for an entry left behind.  A task_id without an entry is a 404 and
\* changes nothing.
Intervene(r) ==
    /\ ticket[r] = "open"
    /\ asked[r]
    /\ ticket' = [ticket EXCEPT ![r] =
                      IF task[r] \in Waiting THEN "answered" ELSE "none"]
    /\ UNCHANGED <<http, queue, permits, task, channel, senders, token, asked>>

-----------------------------------------------------------------------------
EngineStep(r) ==
    \/ Emit(r) \/ Escalate(r) \/ Announce(r) \/ Await(r) \/ TakeAnswer(r)
    \/ Complete(r) \/ Panic(r) \/ Fail(r) \/ Cancelled(r) \/ Report(r)

ServerStep(r) ==
    Admit(r) \/ MonitorCancels(r) \/ EngineStep(r)

ClientStep(r) ==
    \/ Post(r) \/ LeaveQueue(r) \/ PollStream(r)
    \/ LeaveStream(r) \/ Intervene(r)

\* Nothing is left to do once every request is over, its monitor apart.
Terminated ==
    /\ \A r \in Requests :
           http[r] \notin {"idle", "queued"} /\ task[r] \notin Alive
    /\ UNCHANGED vars

Next == (\E r \in Requests : ServerStep(r) \/ ClientStep(r)) \/ Terminated

\* What an engine task does of its own accord once it has stopped working.
EngineDuty(r) ==
    Announce(r) \/ Await(r) \/ TakeAnswer(r) \/ Cancelled(r) \/ Report(r)

\* The runtime runs every task that can go on; a cancelled run returns at its
\* next pending await.  A workflow may work for ever; a human and a client
\* owe nothing.
Fairness ==
    \A r \in Requests :
        /\ WF_vars(Admit(r))
        /\ WF_vars(MonitorCancels(r))
        /\ WF_vars(EngineDuty(r))

Spec == Init /\ [][Next]_vars /\ Fairness

\* The kindest environment: work ends, and a client reads what it is sent.
KindSpec ==
    /\ Spec
    /\ \A r \in Requests :
           /\ WF_vars(PollStream(r))
           /\ SF_vars(Complete(r))

-----------------------------------------------------------------------------
(* Properties *)

\* The requests whose engine task holds a permit.
Holders == {r \in Requests : task[r] \in Alive}

\* Every permit is free or held by exactly one engine task: none is lost when
\* a task fails, panics or is cancelled, or when a queued client leaves, and
\* no more than MAX_CONCURRENT_TASKS workflows run (the RAII permit).
PermitsAccounted == permits + Cardinality(Holders) = MaxTasks

\* The token is cancelled for no other reason than a client that left: an
\* engine that has ended is the only one whose stream may be over.
CancelledMeansGone == \A r \in Requests : token[r] => http[r] = "gone"

\* A workflow whose client has left gives its permit back, wherever it stands:
\* blocked on a full channel or waiting for a human.
GoneReleases ==
    \A r \in Requests : http[r] = "gone" ~> task[r] \notin Alive

\* If permits keep becoming free, every queued request is admitted or leaves:
\* none is overtaken for ever, or stuck behind a client that left.
QueueMoves ==
    []<>(permits > 0) =>
        \A r \in Requests : http[r] = "queued" ~> http[r] # "queued"

LC(r) == INSTANCE Lifecycle WITH
    status <- IF task[r] \in {"none", "working"} THEN "working"
              ELSE IF task[r] \in Waiting THEN "asking"
              ELSE "ended",
    ticket <- ticket[r],
    gone <- token[r]

\* Every workflow of the server keeps to the life cycle Engine implements.
EachKeepsLifecycle ==
    /\ \A r \in Requests : LC(r)!Init
    /\ [][\A r \in Requests : LC(r)!Next \/ UNCHANGED LC(r)!vars]_vars
    /\ \A r \in Requests : LC(r)!Fairness

\* The response ends after the engine task has: tx drops, ReceiverStream ends.
StreamCloses ==
    \A r \in Requests :
        task[r] \in Ended ~> http[r] \in {"closed", "gone"}
=============================================================================
