--------------------------- MODULE CliClientProofs ---------------------------
(***************************************************************************)
(* Whatever the number of CLIs, of other clients, of permits and the       *)
(* capacity of the channels: a CLI's prompt is always about a question the *)
(* server still waits for, and what ServerProofs shows of the server       *)
(* stays true with CLIs among its clients.                                 *)
(***************************************************************************)
EXTENDS CliClient, ServerProofs

\* The server waits for an answer to the question it has announced to r.
Pending(r) == ticket[r] = "open" /\ task[r] \in {"announced", "asking"}

\* A question is in the channel, or at the prompt, or nowhere: once, and only
\* while the server waits for its answer.
Question(r) ==
    /\ task[r] = "escalating" => ticket[r] = "open" /\ ~asked[r]
    /\ \A i, j \in Reading(r) : i = j
    /\ Reading(r) # {} => Pending(r) /\ ~asked[r]
    /\ cli[r] = "prompting" => Pending(r) /\ asked[r]

CInv ==
    /\ SInv
    /\ Channels
    /\ Queue
    /\ CliConnected
    /\ \A r \in Clis : Question(r)

-----------------------------------------------------------------------------
(* A CLI is a client of the server. *)

LEMMA CliStepIsClientStep ==
    ASSUME NEW r \in Clis, CliStep(r)
    PROVE  r \in Requests /\ ClientStep(r)
BY CliAssumption
DEF CliAssumption, CliStep, SendTask, ReadEvent, Answer, Quit, ClientStep

LEMMA CliNextIsNext == [CliNext]_cliVars => [Next]_vars
BY CliStepIsClientStep DEF CliNext, Next, cliVars

LEMMA InitCInv == CliInit => CInv
<1> SUFFICES ASSUME CliInit PROVE CInv
  OBVIOUS
<1>1. SInv
  BY InitSInv DEF CliInit
<1>2. Channels /\ Queue
  BY InitTInv DEF CliInit, TInv
<1>3. CliConnected
  BY CliAssumption DEF CliInit, Init, CliConnected, CliAssumption
<1>4. ASSUME NEW r \in Clis PROVE Question(r)
  <2>1. r \in Requests /\ channel[r] = << >> /\ task[r] = "none"
        /\ cli[r] = "idle"
    BY CliAssumption DEF CliInit, Init, CliAssumption
  <2>2. Reading(r) = {}
    BY <2>1 DEF Reading
  <2> QED BY <2>1, <2>2 DEF Question
<1> QED BY <1>1, <1>2, <1>3, <1>4 DEF CInv

-----------------------------------------------------------------------------
(* The question of each CLI. *)

\* Nothing of r's conversation changes.
LEMMA Untouched ==
    ASSUME NEW r \in Clis, Question(r),
           channel'[r] = channel[r], ticket'[r] = ticket[r],
           task'[r] = task[r], asked'[r] = asked[r], cli'[r] = cli[r]
    PROVE  Question(r)'
BY DEF Question, Reading, Pending

\* A step of another request, or of no request.
LEMMA OthersQuestion ==
    ASSUME CInv, NEW r \in Clis, NEW q \in Requests, q # r,
           ServerStep(q) \/ ClientStep(q), cli'[r] = cli[r]
    PROVE  Question(r)'
<1>1. r \in Requests /\ Question(r)
  BY CliAssumption DEF CliAssumption, CInv
<1>2. task'[r] = task[r] /\ ticket'[r] = ticket[r]
  BY <1>1
  DEF ServerStep, EngineStep, ClientStep, Admit, MonitorCancels, Emit,
      Escalate, Announce, Await, TakeAnswer, Complete, Panic, Fail,
      Cancelled, Report, EndTask, Post, LeaveQueue, PollStream,
      LeaveStream, Intervene, CInv, SInv, Shapes
<1>3. asked'[r] = asked[r]
  BY <1>1
  DEF ServerStep, EngineStep, ClientStep, Admit, MonitorCancels, Emit,
      Escalate, Announce, Await, TakeAnswer, Complete, Panic, Fail,
      Cancelled, Report, Post, LeaveQueue, PollStream, LeaveStream,
      Intervene, CInv, Channels
<1>4. channel'[r] = channel[r]
  BY <1>1
  DEF ServerStep, EngineStep, ClientStep, Admit, MonitorCancels, Emit, Send,
      Escalate, Announce, Await, TakeAnswer, Complete, Panic, Fail,
      Cancelled, Report, Post, LeaveQueue, PollStream, LeaveStream,
      Intervene, CInv, Channels
<1> QED BY <1>1, <1>2, <1>3, <1>4, Untouched

\* The server's own steps for r, its CLI standing where it stands.
LEMMA ServerQuestion ==
    ASSUME CInv, NEW r \in Clis, ServerStep(r), UNCHANGED cli
    PROVE  Question(r)'
<1>1. /\ r \in Requests /\ Question(r) /\ Channels /\ Shapes
      /\ channel \in [Requests -> Seq(Events)]
      /\ Len(channel[r]) \in Nat
  BY CliAssumption DEF CliAssumption, CInv, SInv, Channels
<1>2. CASE Admit(r) \/ MonitorCancels(r)
  <2>1. Admit(r) => task[r] = "none" /\ task'[r] = "working"
    BY <1>1 DEF Admit, CInv, SInv, Stages, Shapes
  <2>2. MonitorCancels(r) => task'[r] = task[r]
    BY DEF MonitorCancels
  <2>3. UNCHANGED <<channel, ticket, asked, cli>>
    BY <1>2 DEF Admit, MonitorCancels
  <2> QED
    BY <1>1, <1>2, <2>1, <2>2, <2>3 DEF Question, Reading, Pending
<1>3. CASE task[r] = "working"
  <2>1. Reading(r) = {} /\ cli[r] # "prompting"
    BY <1>1, <1>3 DEF Question, Pending
  <2>2. CASE Escalate(r)
    BY <1>1, <2>1, <2>2 DEF Escalate, Question, Reading, Shapes, Channels
  <2>3. CASE ~Escalate(r)
    <3>1. task'[r] \notin {"escalating", "announced", "asking"}
      BY <1>1, <1>3, <2>3
      DEF ServerStep, EngineStep, Admit, MonitorCancels, Emit, Announce,
          Await, TakeAnswer, Complete, Panic, Fail, Cancelled, Report,
          EndTask, Shapes
    <3>2. UNCHANGED channel \/ Send(r, "event")
      BY <1>3, <2>3
      DEF ServerStep, EngineStep, Admit, MonitorCancels, Emit, Announce,
          Await, TakeAnswer, Complete, Panic, Fail, Cancelled, Report
    <3>3. Reading(r)' = {}
      BY <1>1, <2>1, <3>2, Sent DEF Events, Reading
    <3> QED BY <2>1, <3>1, <3>3 DEF Question
  <2> QED BY <2>2, <2>3
<1>4. CASE Announce(r)
  <2>1. /\ Reading(r) = {} /\ cli[r] # "prompting"
        /\ ticket[r] = "open" /\ ~asked[r]
    BY <1>1, <1>4 DEF Announce, Question, Pending
  <2>2. Reading(r)' \subseteq {Len(channel[r]) + 1}
    BY <1>1, <1>4, <2>1, Sent DEF Announce, Events
  <2>3. task'[r] = "announced" /\ UNCHANGED <<ticket, asked>>
    BY <1>1, <1>4 DEF Announce, Shapes
  <2> QED BY <2>1, <2>2, <2>3 DEF Question, Pending
<1>5. CASE Await(r)
  <2>1. Reading(r)' \subseteq Reading(r)
    BY <1>1, <1>5, Sent DEF Await, Events
  <2>2. task[r] = "announced" /\ task'[r] = "asking" /\ UNCHANGED <<ticket, asked>>
    BY <1>1, <1>5 DEF Await, Shapes
  <2> QED BY <1>1, <2>1, <2>2 DEF Question, Pending
<1>6. CASE TakeAnswer(r)
  <2>1. Reading(r) = {} /\ cli[r] # "prompting"
    BY <1>1, <1>6 DEF TakeAnswer, Question, Pending
  <2>2. task'[r] \in {"working", "reporting"} /\ UNCHANGED channel
    BY <1>1, <1>6 DEF TakeAnswer, Shapes
  <2> QED BY <2>1, <2>2 DEF Question, Reading
<1>7. CASE Cancelled(r)
  <2>1. http[r] = "gone"
    BY <1>1, <1>7 DEF Cancelled, CInv, SInv, CancelledMeansGone
  <2>2. channel[r] = << >> /\ cli[r] = "done"
    BY <1>1, <2>1 DEF Channels, CInv, CliConnected
  <2>3. task'[r] = "reporting" /\ UNCHANGED channel
    BY <1>1, <1>7 DEF Cancelled, Shapes
  <2> QED BY <2>2, <2>3 DEF Question, Reading
<1>8. CASE Report(r)
  <2>1. Reading(r) = {} /\ cli[r] # "prompting"
    BY <1>1, <1>8 DEF Report, Question, Pending
  <2>2. Reading(r)' = {} /\ task'[r] = "ended"
    BY <1>1, <1>8, <2>1, Sent DEF Report, EndTask, Events, Shapes
  <2> QED BY <2>1, <2>2 DEF Question
<1> QED
  BY <1>2, <1>3, <1>4, <1>5, <1>6, <1>7, <1>8
  DEF ServerStep, EngineStep, Emit, Escalate, Complete, Panic, Fail

\* The CLI's own steps.
LEMMA CliQuestion ==
    ASSUME CInv, NEW r \in Clis, CliStep(r)
    PROVE  Question(r)'
<1>1. /\ r \in Requests /\ Question(r) /\ Channels /\ Shapes
      /\ cli \in [Clis -> {"idle", "reading", "prompting", "done"}]
  BY CliAssumption DEF CliAssumption, CInv, SInv, CliConnected
<1>2. CASE SendTask(r)
  BY <1>1, <1>2
  DEF SendTask, Post, MoveCli, Question, Reading, Pending
<1>3. CASE ReadEvent(r) /\ channel[r] = << >>
  BY <1>1, <1>3
  DEF ReadEvent, PollStream, MoveCli, Question, Reading, Pending
<1>4. CASE ReadEvent(r) /\ channel[r] # << >>
  <2>1. /\ channel' = [channel EXCEPT ![r] = Tail(@)]
        /\ asked' = [asked EXCEPT ![r] = @ \/ Head(channel[r]) = "question"]
        /\ UNCHANGED <<task, ticket>>
        /\ cli' = [cli EXCEPT ![r] = IF Head(channel[r]) = "question"
                                     THEN "prompting" ELSE "reading"]
    BY <1>4 DEF ReadEvent, PollStream, MoveCli
  <2>2. /\ Head(channel[r]) = "question" <=> 1 \in Reading(r)
        /\ \A i \in Reading(r)' : i + 1 \in Reading(r) /\ i \in Nat \ {0}
    BY <1>1, <1>4, <2>1, Read
  <2>3. CASE 1 \in Reading(r)
    <3>1. Pending(r)
      BY <1>1, <2>3 DEF Question
    <3>2. asked'[r] /\ cli'[r] = "prompting"
      BY <1>1, <2>1, <2>2, <2>3 DEF Channels
    <3>3. Reading(r)' = {}
      <4>1. ASSUME NEW i \in Reading(r)' PROVE FALSE
        <5>1. i + 1 = 1 /\ i \in Nat \ {0}
          BY <1>1, <2>2, <2>3 DEF Question
        <5> QED BY <5>1
      <4> QED BY <4>1
    <3> QED BY <2>1, <3>1, <3>2, <3>3 DEF Question, Pending
  <2>4. CASE 1 \notin Reading(r)
    <3>1. asked'[r] = asked[r] /\ cli'[r] = "reading"
      BY <1>1, <2>1, <2>2, <2>4 DEF Channels
    <3>2. Reading(r)' # {} => Reading(r) # {}
      BY <2>2
    <3>3. \A i, j \in Reading(r)' : i = j
      <4>1. SUFFICES ASSUME NEW i \in Reading(r)', NEW j \in Reading(r)'
                     PROVE  i = j
        OBVIOUS
      <4>2. i + 1 = j + 1 /\ i \in Nat /\ j \in Nat
        BY <1>1, <2>2 DEF Question
      <4> QED BY <4>2
    <3> QED BY <1>1, <2>1, <3>1, <3>2, <3>3 DEF Question, Pending
  <2> QED BY <2>3, <2>4
<1>5. CASE Answer(r)
  <2>1. Reading(r) = {} /\ Pending(r)
    BY <1>1, <1>5 DEF Answer, Question
  <2>2. cli'[r] = "reading" /\ UNCHANGED <<channel, task>>
    BY <1>1, <1>5 DEF Answer, Intervene, MoveCli
  <2> QED BY <2>1, <2>2 DEF Question, Reading, Pending
<1>6. CASE Quit(r)
  <2>1. UNCHANGED <<task, ticket, asked>> /\ cli'[r] = "done"
    BY <1>1, <1>6 DEF Quit, LeaveQueue, LeaveStream, MoveCli
  <2>2. channel'[r] \in {channel[r], << >>}
    BY <1>1, <1>6 DEF Quit, LeaveQueue, LeaveStream, Channels
  <2>3. Reading(r)' \subseteq Reading(r)
    BY <2>2 DEF Reading
  <2> QED BY <1>1, <2>1, <2>3 DEF Question, Pending
<1> QED
  BY <1>2, <1>3, <1>4, <1>5, <1>6 DEF CliStep

-----------------------------------------------------------------------------
(* The connection of each CLI. *)

LEMMA ConnectedKept ==
    ASSUME CInv, [CliNext]_cliVars
    PROVE  CliConnected'
<1>1. /\ Clis \subseteq Requests /\ CliConnected /\ Shapes
      /\ cli \in [Clis -> {"idle", "reading", "prompting", "done"}]
  BY CliAssumption DEF CliAssumption, CInv, SInv, CliConnected
<1>2. CASE UNCHANGED cliVars
  BY <1>1, <1>2 DEF cliVars, vars, CliConnected
<1>3. ASSUME NEW r \in Clis, CliStep(r) PROVE CliConnected'
  <2>1. CASE SendTask(r)
    BY <1>1, <2>1 DEF SendTask, Post, MoveCli, CliConnected, Shapes
  <2>2. CASE ReadEvent(r) /\ channel[r] = << >>
    BY <1>1, <2>2 DEF ReadEvent, PollStream, MoveCli, CliConnected, Shapes
  <2>3. CASE ReadEvent(r) /\ channel[r] # << >>
    BY <1>1, <2>3 DEF ReadEvent, PollStream, MoveCli, CliConnected, Shapes
  <2>4. CASE Answer(r)
    BY <1>1, <2>4 DEF Answer, Intervene, MoveCli, CliConnected, Shapes
  <2>5. CASE Quit(r)
    BY <1>1, <2>5
    DEF Quit, LeaveQueue, LeaveStream, MoveCli, CliConnected, Shapes
  <2> QED
    BY <1>3, <2>1, <2>2, <2>3, <2>4, <2>5 DEF CliStep
<1>4. ASSUME NEW r \in Requests, ServerStep(r), UNCHANGED cli
      PROVE  CliConnected'
  <2>1. CASE Admit(r)
    BY <1>1, <1>4, <2>1 DEF Admit, CliConnected, Shapes
  <2>2. CASE ~Admit(r)
    <3>1. UNCHANGED http
      BY <1>4, <2>2
      DEF ServerStep, EngineStep, MonitorCancels, Emit, Escalate, Announce,
          Await, TakeAnswer, Complete, Panic, Fail, Cancelled, Report
    <3> QED BY <1>1, <1>4, <3>1 DEF CliConnected
  <2> QED BY <2>1, <2>2
<1>5. ASSUME NEW q \in Requests \ Clis, ClientStep(q), UNCHANGED cli
      PROVE  CliConnected'
  <2>1. \A r \in Clis : http'[r] = http[r]
    BY <1>1, <1>5
    DEF ClientStep, Post, LeaveQueue, PollStream, LeaveStream, Intervene,
        Shapes
  <2> QED BY <1>1, <1>5, <2>1 DEF CliConnected
<1>6. CASE Terminated /\ UNCHANGED cli
  BY <1>1, <1>6 DEF Terminated, vars, CliConnected
<1> QED BY <1>2, <1>3, <1>4, <1>5, <1>6 DEF CliNext

LEMMA QuestionsKept ==
    ASSUME CInv, [CliNext]_cliVars, NEW r \in Clis
    PROVE  Question(r)'
<1>1. r \in Requests /\ Question(r)
      /\ cli \in [Clis -> {"idle", "reading", "prompting", "done"}]
  BY CliAssumption DEF CliAssumption, CInv, CliConnected
<1>2. CASE UNCHANGED cliVars
  BY <1>1, <1>2, Untouched DEF cliVars, vars
<1>3. ASSUME NEW q \in Clis, CliStep(q) PROVE Question(r)'
  <2>1. CASE q = r
    BY <1>3, <2>1, CliQuestion
  <2>2. CASE q # r
    <3>1. cli'[r] = cli[r]
      BY <1>1, <1>3, <2>2
      DEF CliStep, SendTask, ReadEvent, Answer, Quit, MoveCli
    <3> QED BY <1>3, <2>2, <3>1, CliStepIsClientStep, OthersQuestion
  <2> QED BY <2>1, <2>2
<1>4. ASSUME NEW q \in Requests, ServerStep(q), UNCHANGED cli
      PROVE  Question(r)'
  BY <1>4, ServerQuestion, OthersQuestion
<1>5. ASSUME NEW q \in Requests \ Clis, ClientStep(q), UNCHANGED cli
      PROVE  Question(r)'
  BY <1>5, OthersQuestion
<1>6. CASE Terminated /\ UNCHANGED cli
  BY <1>1, <1>6, Untouched DEF Terminated, vars
<1> QED BY <1>2, <1>3, <1>4, <1>5, <1>6 DEF CliNext

-----------------------------------------------------------------------------
(* The theorems. *)

LEMMA CliInvariance == CliSpec => []CInv
<1>1. CInv /\ [CliNext]_cliVars => CInv'
  <2> SUFFICES ASSUME CInv, [CliNext]_cliVars PROVE CInv'
    OBVIOUS
  <2>1. [Next]_vars
    BY CliNextIsNext
  <2>2. SInv'
    BY <2>1, ServerNext DEF CInv
  <2>3. Channels' /\ Queue'
    BY <2>1, ChannelsKept, QueueKept DEF CInv
  <2> QED BY <2>2, <2>3, ConnectedKept, QuestionsKept DEF CInv
<1> QED BY <1>1, InitCInv, PTL DEF CliSpec

\* Whenever a CLI asks its user, the server waits for exactly that answer and
\* will accept it, whatever else the server and other clients do.
THEOREM PromptsAnswerable == CliSpec => []PromptAnswerable
<1>1. CInv => PromptAnswerable
  BY DEF CInv, Question, Pending, PromptAnswerable
<1> QED BY <1>1, CliInvariance, PTL

\* A CLI holds a connection exactly while it works on its task.
THEOREM ClisConnected == CliSpec => []CliConnected
BY CliInvariance, PTL DEF CInv

\* The permits are accounted for with CLIs among the clients: a CLI is one of
\* the clients PermitsConserved speaks of.
THEOREM CliPermitsConserved == CliSpec => []PermitsAccounted
BY CliInvariance, PTL DEF CInv, SInv

\* The server stays within its bounds with CLIs among the clients.
THEOREM CliTyped == CliSpec => []TypeOK
<1>1. CInv => TypeOK
  BY TypeFollows DEF CInv, TInv
<1> QED BY <1>1, CliInvariance, PTL

\* Every workflow keeps to its life cycle with CLIs among the clients.
THEOREM CliSafeLifecycle ==
    ASSUME NEW r \in Requests
    PROVE  CliSpec => LC(r)!SafeSpec
<1>1. CliInit => LC(r)!Init
  BY LifecycleInit DEF CliInit
<1>2. CInv /\ [CliNext]_cliVars => [LC(r)!Next]_(LC(r)!vars)
  BY LifecycleStep, CliNextIsNext DEF CInv
<1> QED
  BY <1>1, <1>2, CliInvariance, PTL DEF CliSpec, LC!SafeSpec
=============================================================================
