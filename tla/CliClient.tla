------------------------------- MODULE CliClient -------------------------------
(***************************************************************************)
(* The command-line client (tools/cli_client/client.py) composed with the  *)
(* server: stream_task reads one event after the other and, at an          *)
(* escalation with a task_id, stops reading to ask its user and to send    *)
(* the intervention.  The requests that no CLI sends have clients that do  *)
(* as they please.                                                         *)
(***************************************************************************)
EXTENDS Server

CONSTANT Clis    \* the requests a CLI sends

ASSUME CliAssumption == Clis \subseteq Requests

VARIABLE cli     \* where each CLI's stream_task stands

cliVars == <<vars, cli>>

CliInit == Init /\ cli = [r \in Clis |-> "idle"]

MoveCli(r, to) == cli' = [cli EXCEPT ![r] = to]

SendTask(r) ==
    /\ cli[r] = "idle"
    /\ Post(r)
    /\ MoveCli(r, "reading")

\* aiter_sse and render_event: a task_id, which only a question carries, leads
\* to the prompt; the end of the stream ends stream_task.
ReadEvent(r) ==
    /\ cli[r] = "reading"
    /\ PollStream(r)
    /\ MoveCli(r, IF channel[r] = << >> THEN "done"
                  ELSE IF Head(channel[r]) = "question" THEN "prompting"
                  ELSE "reading")

\* Defect: a phase that does not exist ends the prompt instead of repeating it.
Answer_GivesUp(r) ==
    /\ cli[r] = "prompting"
    /\ MoveCli(r, "reading")
    /\ UNCHANGED vars

\* prompt_intervention and send_intervention: the user has answered, the server
\* accepts, and the CLI reads on.  It would read on after a 404 just the same,
\* but PromptAnswerable shows that there is none.
Answer(r) ==
    /\ cli[r] = "prompting"
    /\ Intervene(r)
    /\ MoveCli(r, "reading")

\* Defect: the connection is gone but the loop over its events goes on.
Quit_ReadsOn(r) ==
    /\ cli[r] \in {"reading", "prompting"}
    /\ LeaveQueue(r) \/ LeaveStream(r)
    /\ MoveCli(r, "reading")

\* Ctrl-C; a request that waits for longer than the read timeout; a server
\* that cannot be reached.
Quit(r) ==
    /\ cli[r] \in {"reading", "prompting"}
    /\ LeaveQueue(r) \/ LeaveStream(r)
    /\ MoveCli(r, "done")

CliStep(r) == SendTask(r) \/ ReadEvent(r) \/ Answer(r) \/ Quit(r)

CliNext ==
    \/ \E r \in Clis : CliStep(r)
    \/ /\ \/ \E r \in Requests : ServerStep(r)
          \/ \E r \in Requests \ Clis : ClientStep(r)
          \/ Terminated
       /\ UNCHANGED cli

\* A CLI reads what comes; its user answers at the prompt or leaves.
CliFairness ==
    \A r \in Clis : WF_cliVars(ReadEvent(r) \/ Answer(r))

CliSpec == CliInit /\ [][CliNext]_cliVars /\ Fairness /\ CliFairness

-----------------------------------------------------------------------------
(* Properties *)

\* A CLI holds a connection exactly while stream_task runs; a CLI that is back
\* at its prompt for tasks has left nothing for the server to wait for.
CliConnected ==
    /\ cli \in [Clis -> {"idle", "reading", "prompting", "done"}]
    /\ \A r \in Clis :
           /\ cli[r] = "idle" <=> http[r] = "idle"
           /\ cli[r] = "done" <=> http[r] \in {"closed", "gone"}

\* Whenever the user is asked, the server still waits for this very answer: the
\* intervention that follows cannot be refused, neither because the workflow
\* went on or failed in the meantime nor because the stream was not read.
PromptAnswerable ==
    \A r \in Clis :
        cli[r] = "prompting" =>
            /\ ticket[r] = "open" /\ asked[r]
            /\ task[r] \in {"announced", "asking"}

\* With a CLI at the other end no workflow waits for ever, although the CLI
\* does not read while it asks and the engine's events must find room.
CliUnblocks ==
    \A r \in Clis : task[r] \in Waiting ~> task[r] \notin Waiting
=============================================================================
