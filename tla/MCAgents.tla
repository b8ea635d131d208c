------------------------------- MODULE MCAgents -------------------------------
(***************************************************************************)
(* Instances of ContextWindow and of the readers of a text, side by side:  *)
(* what an agent is sent, and what is made of its answer.  The two share   *)
(* nothing, so one stands at its beginning while the other moves, and the  *)
(* states of the run are those of both, not pairs.                         *)
(***************************************************************************)
EXTENDS MCContextWindow, MCTexts

AgentsInit == Init /\ TextInit

AgentsNext ==
    \/ Next /\ text = << >> /\ UNCHANGED text
    \/ TextNext /\ messages = << >> /\ UNCHANGED vars

AgentsSpec == AgentsInit /\ [][AgentsNext]_<<vars, text>>
=============================================================================
