----------------------------- MODULE ServerProofs -----------------------------
(***************************************************************************)
(* The permits, the queue for them, the channels and the cancellation      *)
(* tokens of Server are right for any finite number of requests, any       *)
(* number of permits and any capacity of the channels.                     *)
(***************************************************************************)
EXTENDS Server, FiniteSetTheorems, TLAPS

\* The part of TypeOK the argument needs.
Shapes ==
    /\ http \in [Requests -> {"idle", "queued", "streaming", "closed", "gone"}]
    /\ permits \in Nat
    /\ task \in [Requests -> {"none"} \cup Alive \cup Ended]
    /\ senders \in [Requests -> SUBSET {"engine", "monitor"}]
    /\ token \in [Requests -> BOOLEAN]
    /\ ticket \in [Requests -> {"none", "open", "answered"}]

\* A request that has not been admitted has no tasks, and a response only
\* ends when no task can send to it any more.
Stages ==
    \A r \in Requests :
        /\ http[r] \in {"idle", "queued"} => task[r] = "none" /\ senders[r] = {}
        /\ http[r] = "closed" => senders[r] = {}

SInv == Shapes /\ Stages /\ PermitsAccounted /\ CancelledMeansGone

-----------------------------------------------------------------------------
(* Counting the holders of a permit. *)

LEMMA HoldersFinite == IsFiniteSet(Holders) /\ Cardinality(Holders) \in Nat
<1>1. IsFiniteSet(Holders)
  BY FS_Subset, ServerAssumption DEF ServerAssumption, Holders
<1> QED BY <1>1, FS_CardinalityType

\* A task that starts takes one of the free permits.
LEMMA Taken ==
    ASSUME Shapes, PermitsAccounted,
           NEW r \in Requests, task[r] \notin Alive, permits > 0,
           NEW s \in Alive,
           task' = [task EXCEPT ![r] = s],
           permits' = permits - 1
    PROVE  PermitsAccounted' /\ permits' \in Nat
<1>1. Holders' = Holders \cup {r} /\ r \notin Holders
  BY DEF Shapes, Holders
<1>2. Cardinality(Holders') = Cardinality(Holders) + 1
  BY <1>1, HoldersFinite, FS_AddElement
<1> QED
  BY <1>2, HoldersFinite, ServerAssumption
  DEF Shapes, PermitsAccounted, ServerAssumption

\* A task that ends, however it ends, returns its permit.
LEMMA Returned ==
    ASSUME Shapes, PermitsAccounted,
           NEW r \in Requests, task[r] \in Alive,
           NEW e \in Ended, EndTask(r, e)
    PROVE  PermitsAccounted' /\ permits' \in Nat
<1>1. task' = [task EXCEPT ![r] = e] /\ permits' = permits + 1
  BY DEF EndTask
<1>2. e \notin Alive
  BY DEF Alive, Ended, Waiting
<1>3. Holders' = Holders \ {r} /\ r \in Holders
  BY <1>1, <1>2 DEF Shapes, Holders
<1>4. Cardinality(Holders') = Cardinality(Holders) - 1
  BY <1>3, HoldersFinite, FS_RemoveElement
<1> QED
  BY <1>1, <1>4, HoldersFinite, ServerAssumption
  DEF Shapes, PermitsAccounted, ServerAssumption

\* As long as it lives, a task keeps its permit.
LEMMA Kept ==
    ASSUME Shapes, PermitsAccounted,
           NEW r \in Requests, task[r] \in Alive, NEW s \in Alive,
           task' = [task EXCEPT ![r] = s],
           UNCHANGED permits
    PROVE  PermitsAccounted' /\ permits' \in Nat
<1>1. Holders' = Holders
  BY DEF Shapes, Holders
<1> QED BY <1>1 DEF Shapes, PermitsAccounted

-----------------------------------------------------------------------------
(* One lemma per kind of step. *)

LEMMA InitSInv == Init => SInv
<1> SUFFICES ASSUME Init PROVE SInv
  OBVIOUS
<1>1. Shapes /\ Stages /\ CancelledMeansGone
  BY ServerAssumption
  DEF Init, Shapes, Stages, CancelledMeansGone, ServerAssumption
<1>2. Holders = {}
  BY DEF Init, Holders, Alive, Waiting
<1>3. PermitsAccounted
  BY <1>2, FS_EmptySet, ServerAssumption
  DEF Init, PermitsAccounted, ServerAssumption
<1> QED BY <1>1, <1>3 DEF SInv

LEMMA AdmitKeeps ==
    ASSUME SInv, NEW r \in Requests, Admit(r)
    PROVE  SInv'
<1>1. task[r] = "none" /\ token[r] = FALSE
  BY DEF SInv, Stages, CancelledMeansGone, Admit, Shapes
<1>2. "none" \notin Alive /\ "working" \in Alive
  BY DEF Alive, Waiting
<1>3. PermitsAccounted' /\ permits' \in Nat
  BY <1>1, <1>2, Taken DEF SInv, Admit
<1>4. Shapes'
  BY <1>2, <1>3 DEF SInv, Shapes, Admit
<1>5. Stages' /\ CancelledMeansGone'
  BY <1>1 DEF SInv, Shapes, Stages, CancelledMeansGone, Admit
<1> QED BY <1>3, <1>4, <1>5 DEF SInv

\* The client and the monitor change neither tasks nor permits.
LEMMA ClientKeeps ==
    ASSUME SInv, NEW r \in Requests,
           ClientStep(r) \/ MonitorCancels(r)
    PROVE  SInv'
<1>1. UNCHANGED <<task, permits>>
  BY DEF ClientStep, Post, LeaveQueue, PollStream, LeaveStream, Intervene,
         MonitorCancels
<1>2. PermitsAccounted'
  BY <1>1 DEF SInv, PermitsAccounted, Holders
<1>3. CASE Post(r)
  BY <1>2, <1>3 DEF SInv, Shapes, Stages, CancelledMeansGone, Post
<1>4. CASE LeaveQueue(r)
  BY <1>2, <1>4 DEF SInv, Shapes, Stages, CancelledMeansGone, LeaveQueue
<1>5. CASE PollStream(r)
  BY <1>2, <1>5 DEF SInv, Shapes, Stages, CancelledMeansGone, PollStream
<1>6. CASE LeaveStream(r)
  BY <1>2, <1>6 DEF SInv, Shapes, Stages, CancelledMeansGone, LeaveStream
<1>7. CASE Intervene(r)
  BY <1>2, <1>7 DEF SInv, Shapes, Stages, CancelledMeansGone, Intervene
<1>8. CASE MonitorCancels(r)
  <2>1. http[r] = "gone"
    BY <1>8 DEF SInv, Shapes, Stages, MonitorCancels
  <2> QED
    BY <1>2, <1>8, <2>1
    DEF SInv, Shapes, Stages, CancelledMeansGone, MonitorCancels
<1> QED
  BY <1>3, <1>4, <1>5, <1>6, <1>7, <1>8 DEF ClientStep

\* The steps in which the engine task lives on.
LEMMA LivesOn ==
    ASSUME SInv, NEW r \in Requests,
           \/ Emit(r) \/ Escalate(r) \/ Announce(r) \/ Await(r)
           \/ TakeAnswer(r) \/ Fail(r) \/ Cancelled(r)
    PROVE  SInv'
<1>1. task[r] \in Alive
  BY DEF Emit, Escalate, Announce, Await, TakeAnswer, Fail, Cancelled,
         Alive, Waiting
<1>2. UNCHANGED <<http, permits, senders, token>>
  BY DEF Emit, Escalate, Announce, Await, TakeAnswer, Fail, Cancelled
<1>3. \E s \in Alive : task' = [task EXCEPT ![r] = s]
  <2>1. CASE Emit(r)
    BY <1>1, <2>1 DEF Emit, SInv, Shapes
  <2>2. CASE Escalate(r) \/ Announce(r) \/ Await(r)
    BY <2>2 DEF Escalate, Announce, Await, Alive, Waiting
  <2>3. CASE TakeAnswer(r)
    BY <2>3 DEF TakeAnswer, Alive
  <2>4. CASE Fail(r) \/ Cancelled(r)
    BY <2>4 DEF Fail, Cancelled, Alive
  <2> QED BY <2>1, <2>2, <2>3, <2>4
<1>4. PICK s \in Alive : task' = [task EXCEPT ![r] = s]
  BY <1>3
<1>5. PermitsAccounted'
  BY <1>1, <1>2, <1>4, Kept DEF SInv
<1>6. Shapes'
  <2>1. ticket' \in [Requests -> {"none", "open", "answered"}]
    BY DEF Emit, Escalate, Announce, Await, TakeAnswer, Fail, Cancelled,
           SInv, Shapes
  <2> QED BY <1>2, <1>4, <2>1 DEF SInv, Shapes
<1>7. Stages' /\ CancelledMeansGone'
  <2>1. http[r] \notin {"idle", "queued"}
    BY <1>1 DEF SInv, Stages, Alive, Waiting
  <2> QED
    BY <1>2, <1>4, <2>1 DEF SInv, Shapes, Stages, CancelledMeansGone
<1> QED BY <1>5, <1>6, <1>7 DEF SInv

\* The steps in which it ends.
LEMMA Ends ==
    ASSUME SInv, NEW r \in Requests,
           Complete(r) \/ Panic(r) \/ Report(r)
    PROVE  SInv'
<1>1. task[r] \in Alive
  BY DEF Complete, Panic, Report, Alive
<1>2. UNCHANGED <<http, token, ticket>>
  BY DEF Complete, Panic, Report
<1>3. PICK e \in Ended : EndTask(r, e)
  BY DEF Complete, Panic, Report, Ended
<1>4. PermitsAccounted' /\ permits' \in Nat
  BY <1>1, <1>3, Returned DEF SInv
<1>5. Shapes'
  BY <1>2, <1>3, <1>4 DEF SInv, Shapes, EndTask
<1>6. Stages' /\ CancelledMeansGone'
  <2>1. http[r] \notin {"idle", "queued"}
    BY <1>1 DEF SInv, Stages, Alive, Waiting
  <2> QED
    BY <1>2, <1>3, <2>1
    DEF SInv, Shapes, Stages, CancelledMeansGone, EndTask
<1> QED BY <1>4, <1>5, <1>6 DEF SInv

-----------------------------------------------------------------------------
(* The theorems. *)

LEMMA ServerNext == SInv /\ [Next]_vars => SInv'
<1> SUFFICES ASSUME SInv, [Next]_vars PROVE SInv'
  OBVIOUS
<1>1. CASE UNCHANGED vars
  BY <1>1
  DEF vars, SInv, Shapes, Stages, PermitsAccounted, Holders,
      CancelledMeansGone
<1>2. ASSUME NEW r \in Requests, ServerStep(r) PROVE SInv'
  BY <1>2, AdmitKeeps, ClientKeeps, LivesOn, Ends DEF ServerStep, EngineStep
<1>3. ASSUME NEW r \in Requests, ClientStep(r) PROVE SInv'
  BY <1>3, ClientKeeps
<1> QED BY <1>1, <1>2, <1>3 DEF Next, Terminated

\* The permits, the tasks and the tokens of the server stay consistent.
THEOREM ServerInvariance == Spec => []SInv
BY InitSInv, ServerNext, PTL DEF Spec

\* No permit is lost or doubled, for any number of requests: however a task
\* ends, and however clients come and go, each permit is free or held once.
THEOREM PermitsConserved == Spec => []PermitsAccounted
BY ServerInvariance, PTL DEF SInv

\* A workflow is cancelled for no other reason than a client that left.
THEOREM TokensJustified == Spec => []CancelledMeansGone
BY ServerInvariance, PTL DEF SInv

-----------------------------------------------------------------------------
(* Each workflow keeps to the safety half of Lifecycle. *)

\* What the life cycle of one request sees of the server.
LEMMA OwnView ==
    ASSUME NEW r \in Requests,
           task'[r] = task[r], ticket'[r] = ticket[r], token'[r] = token[r]
    PROVE  UNCHANGED LC(r)!vars
BY DEF LC!vars

\* A step of request q is a step of its life cycle or does not show there.
LEMMA OwnStep ==
    ASSUME SInv, NEW q \in Requests, ServerStep(q) \/ ClientStep(q)
    PROVE  LC(q)!Next \/ UNCHANGED LC(q)!vars
<1> USE DEF SInv, Shapes, Waiting
<1>1. CASE Admit(q)
  <2>1. task[q] = "none"
    BY <1>1 DEF Admit, Stages
  <2> QED BY <1>1, <2>1 DEF Admit, LC!vars
<1>2. CASE MonitorCancels(q)
  BY <1>2 DEF MonitorCancels, LC!vars, LC!Next, LC!Leave
<1>3. CASE Emit(q)
  BY <1>3, OwnView DEF Emit
<1>4. CASE Escalate(q)
  <2>1. LC(q)!Ask
    BY <1>4 DEF Escalate, LC!Ask
  <2> QED BY <2>1 DEF LC!Next
<1>5. CASE Announce(q) \/ Await(q)
  BY <1>5 DEF Announce, Await, LC!vars
<1>6. CASE TakeAnswer(q)
  <2>1. LC(q)!TakeAnswer
    BY <1>6 DEF TakeAnswer, LC!TakeAnswer
  <2> QED BY <2>1 DEF LC!Next
<1>7. CASE Complete(q) \/ Panic(q) \/ Fail(q)
  <2>1. LC(q)!End
    BY <1>7 DEF Complete, Panic, Fail, EndTask, LC!End
  <2> QED BY <2>1 DEF LC!Next
<1>8. CASE Cancelled(q)
  <2>1. LC(q)!Abort
    BY <1>8 DEF Cancelled, LC!Abort
  <2> QED BY <2>1 DEF LC!Next
<1>9. CASE Report(q)
  BY <1>9 DEF Report, EndTask, LC!vars
<1>10. CASE Post(q) \/ LeaveQueue(q) \/ PollStream(q) \/ LeaveStream(q)
  BY <1>10, OwnView DEF Post, LeaveQueue, PollStream, LeaveStream
<1>11. CASE Intervene(q)
  <2>1. LC(q)!Answer
    BY <1>11 DEF Intervene, LC!Answer
  <2> QED BY <2>1 DEF LC!Next
<1> QED
  BY <1>1, <1>2, <1>3, <1>4, <1>5, <1>6, <1>7, <1>8, <1>9, <1>10, <1>11
  DEF ServerStep, EngineStep, ClientStep

\* A step of one request leaves the workflow of every other alone.
LEMMA OthersStep ==
    ASSUME SInv, NEW r \in Requests, NEW q \in Requests, q # r,
           ServerStep(q) \/ ClientStep(q)
    PROVE  UNCHANGED LC(r)!vars
<1>1. task'[r] = task[r]
  BY DEF ServerStep, EngineStep, ClientStep, Admit, MonitorCancels, Emit,
         Escalate, Announce, Await, TakeAnswer, Complete, Panic, Fail,
         Cancelled, Report, EndTask, Post, LeaveQueue, PollStream,
         LeaveStream, Intervene, SInv, Shapes
<1>2. ticket'[r] = ticket[r] /\ token'[r] = token[r]
  BY DEF ServerStep, EngineStep, ClientStep, Admit, MonitorCancels, Emit,
         Escalate, Announce, Await, TakeAnswer, Complete, Panic, Fail,
         Cancelled, Report, Post, LeaveQueue, PollStream, LeaveStream,
         Intervene, SInv, Shapes
<1> QED BY <1>1, <1>2, OwnView

LEMMA LifecycleInit == ASSUME NEW r \in Requests PROVE Init => LC(r)!Init
BY DEF Init, LC!Init

LEMMA LifecycleStep ==
    ASSUME NEW r \in Requests, SInv, [Next]_vars
    PROVE  [LC(r)!Next]_(LC(r)!vars)
<1>1. CASE UNCHANGED vars
  BY <1>1, OwnView DEF vars
<1>2. ASSUME NEW q \in Requests, ServerStep(q) \/ ClientStep(q)
      PROVE  LC(r)!Next \/ UNCHANGED LC(r)!vars
  BY <1>2, OwnStep, OthersStep
<1> QED BY <1>1, <1>2 DEF Next, Terminated

\* Every workflow of the server keeps to the safety half of the life cycle that
\* Engine implements: one question at a time and one answer to each.
THEOREM EachSafeLifecycle ==
    ASSUME NEW r \in Requests
    PROVE  Spec => LC(r)!SafeSpec
<1>1. Init => LC(r)!Init
  BY LifecycleInit
<1>2. SInv /\ [Next]_vars => [LC(r)!Next]_(LC(r)!vars)
  BY LifecycleStep
<1> QED
  BY <1>1, <1>2, ServerInvariance, PTL DEF Spec, LC!SafeSpec

-----------------------------------------------------------------------------
(* The channels. *)

\* No channel holds more than it has room for, and only a response that is
\* being streamed has events to deliver.
Channels ==
    /\ channel \in [Requests -> Seq(Events)]
    /\ asked \in [Requests -> BOOLEAN]
    /\ \A r \in Requests : Len(channel[r]) <= Capacity
    /\ \A r \in Requests : http[r] # "streaming" => channel[r] = << >>

\* The questions r's client has yet to read.
Reading(r) == {i \in 1..Len(channel[r]) : channel[r][i] = "question"}

LEMMA TailOf ==
    ASSUME NEW s \in Seq(Events), s # << >>
    PROVE  /\ Tail(s) \in Seq(Events)
           /\ Len(s) \in Nat \ {0}
           /\ Len(Tail(s)) = Len(s) - 1
           /\ \A i \in 1..Len(Tail(s)) : Tail(s)[i] = s[i + 1]
           /\ Head(s) = s[1]
OBVIOUS

LEMMA Sent ==
    ASSUME Channels, NEW r \in Requests, NEW e \in Events, Send(r, e)
    PROVE  /\ channel' \in [Requests -> Seq(Events)]
           /\ \A q \in Requests : Len(channel'[q]) <= Capacity
           /\ http[r] # "streaming" => channel' = channel
           /\ \A q \in Requests \ {r} : channel'[q] = channel[q]
           /\ Reading(r)' \subseteq
                  Reading(r) \cup IF e = "question" THEN {Len(channel[r]) + 1}
                                  ELSE {}
<1>1. channel[r] \in Seq(Events)
  BY DEF Channels
<1>2. CASE http[r] = "streaming"
  <2>1. channel' = [channel EXCEPT ![r] = Append(@, e)]
    BY <1>2 DEF Send
  <2>2. channel'[r] = Append(channel[r], e)
    BY <2>1 DEF Channels
  <2>3. Append(channel[r], e) \in Seq(Events)
    BY <1>1
  <2>4. /\ Len(channel'[r]) = Len(channel[r]) + 1 /\ Len(channel[r]) \in Nat
        /\ \A i \in 1..Len(channel[r]) : channel'[r][i] = channel[r][i]
        /\ channel'[r][Len(channel[r]) + 1] = e
    BY <1>1, <2>2
  <2>5. ASSUME NEW i \in Reading(r)'
        PROVE  i \in Reading(r) \/ (e = "question" /\ i = Len(channel[r]) + 1)
    <3>1. i \in 1..(Len(channel[r]) + 1) /\ channel'[r][i] = "question"
      BY <2>4 DEF Reading
    <3>2. i \in 1..Len(channel[r]) \/ i = Len(channel[r]) + 1
      BY <2>4, <3>1
    <3>3. CASE i \in 1..Len(channel[r])
      BY <2>4, <3>1, <3>3 DEF Reading
    <3>4. CASE i = Len(channel[r]) + 1
      <4>1. channel'[r][i] = e
        BY <2>4, <3>4
      <4> QED BY <3>1, <3>4, <4>1
    <3> QED BY <3>2, <3>3, <3>4
  <2>6. ASSUME NEW q \in Requests PROVE Len(channel'[q]) <= Capacity
    <3>1. CASE q = r
      <4>1. Len(channel[r]) < Capacity
        BY <1>2 DEF Send
      <4> QED BY <2>4, <3>1, <4>1, ServerAssumption DEF ServerAssumption
    <3>2. CASE q # r
      BY <2>1, <3>2 DEF Channels
    <3> QED BY <3>1, <3>2
  <2>7. /\ channel' \in [Requests -> Seq(Events)]
        /\ \A q \in Requests \ {r} : channel'[q] = channel[q]
    BY <2>1, <2>3 DEF Channels
  <2> QED BY <1>2, <2>5, <2>6, <2>7
<1>3. CASE http[r] # "streaming"
  BY <1>3 DEF Send, Channels, Reading
<1> QED BY <1>2, <1>3

\* The client reads: what it reads next moves up.
LEMMA Read ==
    ASSUME Channels, NEW r \in Requests, channel[r] # << >>,
           channel' = [channel EXCEPT ![r] = Tail(@)]
    PROVE  /\ channel' \in [Requests -> Seq(Events)]
           /\ \A q \in Requests : Len(channel'[q]) <= Capacity
           /\ Head(channel[r]) = "question" <=> 1 \in Reading(r)
           /\ \A i \in Reading(r)' : i + 1 \in Reading(r) /\ i \in Nat \ {0}
<1>1. channel[r] \in Seq(Events) /\ Len(channel[r]) \in Nat \ {0}
  BY TailOf DEF Channels
<1>2. channel'[r] = Tail(channel[r])
  BY DEF Channels
<1>3. Tail(channel[r]) \in Seq(Events)
  BY <1>1, TailOf
<1>4. /\ Len(channel'[r]) = Len(channel[r]) - 1
      /\ \A i \in 1..Len(channel'[r]) : channel'[r][i] = channel[r][i + 1]
      /\ Head(channel[r]) = channel[r][1]
  BY <1>1, <1>2, TailOf
<1>5. ASSUME NEW i \in Reading(r)' PROVE i + 1 \in Reading(r) /\ i \in Nat \ {0}
  BY <1>1, <1>4 DEF Reading
<1>6. Head(channel[r]) = "question" <=> 1 \in Reading(r)
  BY <1>1, <1>4 DEF Reading
<1>7. ASSUME NEW q \in Requests PROVE Len(channel'[q]) <= Capacity
  <2>1. Len(channel[r]) <= Capacity
    BY DEF Channels
  <2>2. CASE q = r
    BY <1>1, <1>4, <2>1, <2>2, ServerAssumption DEF ServerAssumption
  <2>3. CASE q # r
    BY <2>3 DEF Channels
  <2> QED BY <2>2, <2>3
<1>8. channel' \in [Requests -> Seq(Events)]
  BY <1>3 DEF Channels
<1> QED BY <1>5, <1>6, <1>7, <1>8

LEMMA ChannelsKept ==
    ASSUME SInv, Channels, [Next]_vars
    PROVE  Channels'
<1>1. CASE UNCHANGED vars
  BY <1>1 DEF vars, Channels
<1>2. ASSUME NEW r \in Requests, EngineStep(r) PROVE Channels'
  <2>1. http' = http /\ asked' \in [Requests -> BOOLEAN]
    BY <1>2
    DEF EngineStep, Emit, Escalate, Announce, Await, TakeAnswer, Complete,
        Panic, Fail, Cancelled, Report, Channels
  <2>2. UNCHANGED channel \/ \E e \in Events : Send(r, e)
    BY <1>2
    DEF EngineStep, Emit, Escalate, Announce, Await, TakeAnswer, Complete,
        Panic, Fail, Cancelled, Report, Events
  <2>3. /\ channel' \in [Requests -> Seq(Events)]
        /\ \A q \in Requests : Len(channel'[q]) <= Capacity
        /\ \A q \in Requests : http[q] # "streaming" => channel'[q] = channel[q]
    BY <2>2, Sent DEF Channels
  <2> QED BY <2>1, <2>3 DEF Channels
<1>3. ASSUME NEW r \in Requests,
             Admit(r) \/ MonitorCancels(r) \/ Post(r) \/ LeaveQueue(r)
             \/ Intervene(r)
      PROVE  Channels'
  BY <1>3
  DEF Admit, MonitorCancels, Post, LeaveQueue, Intervene, Channels, SInv,
      Shapes
<1>4. ASSUME NEW r \in Requests, PollStream(r) PROVE Channels'
  <2>1. CASE channel[r] # << >>
    <3>1. /\ channel' = [channel EXCEPT ![r] = Tail(@)]
          /\ asked' \in [Requests -> BOOLEAN]
          /\ http' = http /\ http[r] = "streaming"
      BY <1>4, <2>1 DEF PollStream, Channels
    <3>2. /\ channel' \in [Requests -> Seq(Events)]
          /\ \A q \in Requests : Len(channel'[q]) <= Capacity
      BY <2>1, <3>1, Read
    <3> QED BY <3>1, <3>2 DEF Channels
  <2>2. CASE channel[r] = << >>
    BY <1>4, <2>2 DEF PollStream, Channels, SInv, Shapes
  <2> QED BY <2>1, <2>2
<1>5. ASSUME NEW r \in Requests, LeaveStream(r) PROVE Channels'
  <2>1. << >> \in Seq(Events) /\ Len(<< >>) <= Capacity
    BY ServerAssumption DEF ServerAssumption
  <2> QED BY <1>5, <2>1 DEF LeaveStream, Channels, SInv, Shapes
<1> QED
  BY <1>1, <1>2, <1>3, <1>4, <1>5
  DEF Next, Terminated, ServerStep, ClientStep

-----------------------------------------------------------------------------
(* The queue for permits. *)

\* A POST that waits for a permit stands in the queue, once, and nothing else
\* does.
InLine(r) == {i \in 1..Len(queue) : queue[i] = r}

Queue ==
    /\ queue \in Seq(Requests)
    /\ \A r \in Requests : http[r] = "queued" <=> InLine(r) # {}
    /\ \A r \in Requests : \A i, j \in InLine(r) : i = j

\* A client that leaves is found where it stands.
LEMMA FoundInLine ==
    ASSUME Queue, NEW r \in Requests, InLine(r) # {}
    PROVE  \E k \in InLine(r) : RemoveFirst(queue, r) = RemoveAt(queue, k)
<1>1. /\ \E i \in 1..Len(queue) : queue[i] = r
      /\ InLine(r) \subseteq Nat /\ \A i, j \in InLine(r) : i = j
  BY DEF InLine, Queue
<1>2. Min(InLine(r)) \in InLine(r)
  <2>1. \E k \in InLine(r) : \A i \in InLine(r) : k <= i
    BY <1>1
  <2> QED BY <2>1 DEF Min
<1>3. RemoveFirst(queue, r) = RemoveAt(queue, Min(InLine(r)))
  BY <1>1 DEF RemoveFirst, SelectInSeq, InLine
<1> QED BY <1>2, <1>3

\* A POST joins the line at its end.
LEMMA Joined ==
    ASSUME Queue, NEW r \in Requests, InLine(r) = {},
           queue' = Append(queue, r)
    PROVE  /\ queue' \in Seq(Requests)
           /\ \A q \in Requests \ {r} : InLine(q)' = InLine(q)
           /\ InLine(r)' = {Len(queue) + 1}
<1>1. /\ queue' \in Seq(Requests)
      /\ Len(queue) \in Nat /\ Len(queue') = Len(queue) + 1
      /\ \A i \in 1..Len(queue) : queue'[i] = queue[i]
      /\ queue'[Len(queue) + 1] = r
  BY DEF Queue
<1>2. ASSUME NEW q \in Requests \ {r} PROVE InLine(q)' = InLine(q)
  BY <1>1, <1>2 DEF InLine
<1>3. InLine(r)' = {Len(queue) + 1}
  BY <1>1 DEF InLine
<1> QED BY <1>1, <1>2, <1>3

\* What is in two pieces of a line that are put together.
LEMMA PutTogether ==
    ASSUME NEW s \in Seq(Requests), NEW t \in Seq(Requests)
    PROVE  /\ s \o t \in Seq(Requests)
           /\ Len(s \o t) = Len(s) + Len(t)
           /\ \A i \in 1..Len(s) : (s \o t)[i] = s[i]
           /\ \A i \in 1..Len(t) : (s \o t)[Len(s) + i] = t[i]
OBVIOUS

\* A place in the line is given up: those behind it move up.
LEMMA Left ==
    ASSUME Queue, NEW k \in 1..Len(queue), queue' = RemoveAt(queue, k)
    PROVE  /\ queue' \in Seq(Requests)
           /\ Len(queue') = Len(queue) - 1
           /\ \A i \in 1..Len(queue') :
                  queue'[i] = queue[IF i < k THEN i ELSE i + 1]
<1> DEFINE before == SubSeq(queue, 1, k - 1)
           behind == SubSeq(queue, k + 1, Len(queue))
<1>1. queue \in Seq(Requests) /\ Len(queue) \in Nat
  BY DEF Queue
<1>2. /\ before \in Seq(Requests) /\ Len(before) = k - 1
      /\ \A i \in 1..(k - 1) : before[i] = queue[i]
  BY <1>1
<1>3. /\ behind \in Seq(Requests) /\ Len(behind) = Len(queue) - k
      /\ \A i \in 1..(Len(queue) - k) : behind[i] = queue[k + i]
  BY <1>1
<1>4. queue' = before \o behind
  BY DEF RemoveAt
<1> HIDE DEF before, behind
<1>5. /\ queue' \in Seq(Requests) /\ Len(queue') = Len(before) + Len(behind)
      /\ \A i \in 1..Len(before) : queue'[i] = before[i]
      /\ \A i \in 1..Len(behind) : queue'[Len(before) + i] = behind[i]
  <2>1. before \in Seq(Requests) /\ behind \in Seq(Requests)
    BY <1>2, <1>3
  <2>2. /\ before \o behind \in Seq(Requests)
        /\ Len(before \o behind) = Len(before) + Len(behind)
        /\ \A i \in 1..Len(before) : (before \o behind)[i] = before[i]
        /\ \A i \in 1..Len(behind) :
               (before \o behind)[Len(before) + i] = behind[i]
    BY <2>1, PutTogether
  <2> QED BY <1>4, <2>2
<1>6. Len(queue') = Len(queue) - 1
  BY <1>1, <1>2, <1>3, <1>5
<1>7. ASSUME NEW i \in 1..Len(queue')
      PROVE  queue'[i] = queue[IF i < k THEN i ELSE i + 1]
  <2>1. CASE i < k
    BY <1>1, <1>2, <1>5, <2>1
  <2>2. CASE i >= k
    <3>1. PICK j \in 1..Len(behind) : i = Len(before) + j
      <4>1. i - Len(before) \in 1..Len(behind)
            /\ i = Len(before) + (i - Len(before))
        BY <1>1, <1>2, <1>3, <1>6, <2>2
      <4> QED BY <4>1
    <3>2. queue'[i] = queue[k + j]
      BY <1>3, <1>5, <3>1
    <3>3. k + j = i + 1
      BY <1>1, <1>2, <1>3, <3>1
    <3> QED BY <1>1, <2>2, <3>2, <3>3
  <2> QED BY <1>1, <1>6, <2>1, <2>2
<1> QED BY <1>5, <1>6, <1>7

\* Whoever gives up place k, every other request stands in line as before.
LEMMA OthersStay ==
    ASSUME Queue, NEW r \in Requests, NEW k \in 1..Len(queue), queue[k] = r,
           queue' \in Seq(Requests), Len(queue') = Len(queue) - 1,
           \A i \in 1..Len(queue') :
               queue'[i] = queue[IF i < k THEN i ELSE i + 1]
    PROVE  /\ InLine(r)' = {}
           /\ \A q \in Requests \ {r} :
                  /\ InLine(q)' # {} <=> InLine(q) # {}
                  /\ \A i, j \in InLine(q)' : i = j
<1>1. Len(queue) \in Nat /\ k \in InLine(r)
  BY DEF Queue, InLine
<1> DEFINE Was(i) == IF i < k THEN i ELSE i + 1
<1>2. ASSUME NEW q \in Requests, NEW i \in InLine(q)'
      PROVE  i \in Nat /\ Was(i) \in InLine(q) \ {k}
  BY <1>1 DEF InLine
<1>3. ASSUME NEW i \in InLine(r)' PROVE FALSE
  <2>1. Was(i) \in InLine(r) \ {k}
    BY <1>2, <1>3
  <2> HIDE DEF Was
  <2> QED BY <1>1, <2>1 DEF Queue
<1>4. ASSUME NEW q \in Requests \ {r}
      PROVE  /\ InLine(q)' # {} <=> InLine(q) # {}
             /\ \A i, j \in InLine(q)' : i = j
  <2>1. ASSUME NEW i \in InLine(q) PROVE InLine(q)' # {}
    <3>1. i \in 1..Len(queue) /\ queue[i] = q /\ i # k
      BY <1>1, <1>4 DEF InLine
    <3>2. CASE i < k
      <4>1. i \in 1..Len(queue') /\ queue'[i] = queue[i]
        BY <1>1, <3>1, <3>2
      <4> QED BY <3>1, <4>1 DEF InLine
    <3>3. CASE i > k
      <4>1. i - 1 \in 1..Len(queue') /\ queue'[i - 1] = queue[(i - 1) + 1]
        BY <1>1, <3>1, <3>3
      <4>2. (i - 1) + 1 = i
        BY <3>1
      <4> QED BY <3>1, <4>1, <4>2 DEF InLine
    <3> QED BY <1>1, <3>1, <3>2, <3>3
  <2>2. ASSUME NEW i \in InLine(q)', NEW j \in InLine(q)' PROVE i = j
    <3>1. Was(i) = Was(j) /\ i \in Nat /\ j \in Nat
      BY <1>2, <2>2 DEF Queue
    <3> QED BY <1>1, <3>1
  <2> QED BY <1>2, <2>1, <2>2
<1> QED BY <1>3, <1>4

\* Whatever happens, the line holds exactly the requests that wait.
LEMMA QueueKept ==
    ASSUME SInv, Queue, [Next]_vars
    PROVE  Queue'
<1> USE DEF SInv, Shapes
<1>1. CASE UNCHANGED <<http, queue>>
  BY <1>1 DEF Queue, InLine
<1>2. ASSUME NEW r \in Requests, Post(r) PROVE Queue'
  <2>1. InLine(r) = {} /\ queue' = Append(queue, r)
    BY <1>2 DEF Post, Queue
  <2>2. /\ queue' \in Seq(Requests)
        /\ \A q \in Requests \ {r} : InLine(q)' = InLine(q)
        /\ InLine(r)' = {Len(queue) + 1}
    BY <2>1, Joined
  <2>3. http' = [http EXCEPT ![r] = "queued"]
    BY <1>2 DEF Post
  <2>4. ASSUME NEW q \in Requests
        PROVE  /\ http'[q] = "queued" <=> InLine(q)' # {}
               /\ \A i, j \in InLine(q)' : i = j
    <3>1. CASE q = r
      BY <2>2, <2>3, <3>1, Zenon
    <3>2. CASE q # r
      <4>1. InLine(q)' = InLine(q) /\ http'[q] = http[q]
        BY <2>2, <2>3, <3>2
      <4>2. /\ http[q] = "queued" <=> InLine(q) # {}
            /\ \A i, j \in InLine(q) : i = j
        BY DEF Queue
      <4> QED BY <4>1, <4>2, Zenon
    <3> QED BY <3>1, <3>2
  <2> QED BY <2>2, <2>4 DEF Queue
<1>3. ASSUME NEW r \in Requests, Admit(r) PROVE Queue'
  <2>1. /\ queue \in Seq(Requests) /\ queue # << >>
        /\ Head(queue) = r /\ queue' = Tail(queue)
    BY <1>3 DEF Admit, Queue, InLine
  <2>2. /\ queue' \in Seq(Requests) /\ 1 \in 1..Len(queue) /\ queue[1] = r
        /\ Len(queue') = Len(queue) - 1
        /\ \A i \in 1..Len(queue') : queue'[i] = queue[i + 1]
    BY <2>1
  <2>3. \A i \in 1..Len(queue') : queue'[i] = queue[IF i < 1 THEN i ELSE i + 1]
    BY <2>2
  <2>4. /\ InLine(r)' = {}
        /\ \A q \in Requests \ {r} :
               /\ InLine(q)' # {} <=> InLine(q) # {}
               /\ \A i, j \in InLine(q)' : i = j
    BY <2>2, <2>3, OthersStay
  <2>5. http' = [http EXCEPT ![r] = "streaming"]
    BY <1>3 DEF Admit
  <2> QED BY <2>2, <2>4, <2>5, ZenonT(30) DEF Queue
<1>4. ASSUME NEW r \in Requests, LeaveQueue(r) PROVE Queue'
  <2>1. InLine(r) # {}
    BY <1>4 DEF LeaveQueue, Queue
  <2>2. PICK k \in 1..Len(queue) :
            queue[k] = r /\ queue' = RemoveAt(queue, k)
    BY <1>4, <2>1, FoundInLine DEF LeaveQueue, InLine
  <2>3. /\ queue' \in Seq(Requests)
        /\ Len(queue') = Len(queue) - 1
        /\ \A i \in 1..Len(queue') :
               queue'[i] = queue[IF i < k THEN i ELSE i + 1]
    BY <2>2, Left
  <2>4. /\ InLine(r)' = {}
        /\ \A q \in Requests \ {r} :
               /\ InLine(q)' # {} <=> InLine(q) # {}
               /\ \A i, j \in InLine(q)' : i = j
    BY <2>2, <2>3, OthersStay
  <2>5. http' = [http EXCEPT ![r] = "gone"]
    BY <1>4 DEF LeaveQueue
  <2> QED BY <2>3, <2>4, <2>5 DEF Queue
<1>5. ASSUME NEW r \in Requests, PollStream(r) \/ LeaveStream(r) PROVE Queue'
  <2>1. UNCHANGED queue /\ http[r] = "streaming"
    BY <1>5 DEF PollStream, LeaveStream
  <2>2. http' = http \/ \E s \in {"closed", "gone"} : http' = [http EXCEPT ![r] = s]
    BY <1>5 DEF PollStream, LeaveStream
  <2>3. \A q \in Requests : http'[q] = "queued" <=> http[q] = "queued"
    BY <2>1, <2>2
  <2> QED BY <2>1, <2>3 DEF Queue, InLine
<1>6. ASSUME NEW r \in Requests,
             EngineStep(r) \/ MonitorCancels(r) \/ Intervene(r)
      PROVE  UNCHANGED <<http, queue>>
  BY <1>6
  DEF EngineStep, Emit, Escalate, Announce, Await, TakeAnswer, Complete,
      Panic, Fail, Cancelled, Report, MonitorCancels, Intervene
<1> QED
  BY <1>1, <1>2, <1>3, <1>4, <1>5, <1>6
  DEF Next, Terminated, vars, ServerStep, ClientStep

-----------------------------------------------------------------------------
(* The type of the whole state. *)

TInv == SInv /\ Channels /\ Queue

LEMMA InitTInv == Init => TInv
<1> SUFFICES ASSUME Init PROVE TInv
  OBVIOUS
<1>1. SInv
  BY InitSInv
<1>2. Channels
  BY ServerAssumption DEF Init, Channels, ServerAssumption
<1>3. Queue
  BY DEF Init, Queue, InLine
<1> QED BY <1>1, <1>2, <1>3 DEF TInv

LEMMA TypeFollows == TInv => TypeOK
<1> SUFFICES ASSUME TInv PROVE TypeOK
  OBVIOUS
<1>1. permits \in 0..MaxTasks
  BY HoldersFinite, ServerAssumption
  DEF TInv, SInv, Shapes, PermitsAccounted, ServerAssumption
<1> QED BY <1>1 DEF TInv, SInv, Shapes, Channels, Queue, TypeOK

LEMMA TypeInvariance == Spec => []TInv
<1>1. TInv /\ [Next]_vars => TInv'
  BY ServerNext, ChannelsKept, QueueKept DEF TInv
<1> QED BY <1>1, InitTInv, PTL DEF Spec

\* No channel holds more events than its capacity, no permit is invented, and
\* every request, task and ticket is in one of its states.
THEOREM ServerTyped == Spec => []TypeOK
BY TypeInvariance, TypeFollows, PTL

\* A POST stands in the semaphore's queue, once, exactly as long as its handler
\* waits for a permit: no admission is lost to a client that left.
THEOREM QueueExact == Spec => []Queue
BY TypeInvariance, PTL DEF TInv
=============================================================================
