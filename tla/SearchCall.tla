------------------------------ MODULE SearchCall ------------------------------
(***************************************************************************)
(* One search: TavilyClient::search with its retries, inside               *)
(* FallbackSearchClient::search, which asks one client after the other     *)
(* (src/client/search.rs).  main.rs wires a single Tavily client, which is *)
(* the case of one client.                                                 *)
(***************************************************************************)
EXTENDS Naturals

CONSTANTS
    MaxRetries,   \* max_retries of each client
    Clients       \* how many clients the chain has

\* What the constants are: the chain is never empty.
SearchAssumption == MaxRetries \in Nat /\ Clients \in Nat \ {0}

VARIABLES
    client,       \* the client that is asked, counted from 1
    attempt,      \* its loop's attempt
    outcome,      \* what search returned
    fallback,     \* a result is marked is_fallback, the agent is warned
    sent,         \* history: requests sent by each client
    unreadable    \* history: clients whose answer could not be read

vars == <<client, attempt, outcome, fallback, sent, unreadable>>

Chain == 1..Clients

TypeOK ==
    /\ client \in Chain
    /\ attempt \in 0..MaxRetries
    /\ outcome \in {"none", "results", "empty", "error"}
    /\ fallback \in BOOLEAN
    /\ sent \in [Chain -> 0..(MaxRetries + 1)]
    /\ unreadable \subseteq Chain

Init ==
    /\ client = 1
    /\ attempt = 0
    /\ outcome = "none"
    /\ fallback = FALSE
    /\ sent = [c \in Chain |-> 0]
    /\ unreadable = {}

Request ==
    /\ outcome = "none"
    /\ sent' = [sent EXCEPT ![client] = @ + 1]

\* Defect: the next client goes on with the attempts of this one.
NextClient_KeepsAttempt ==
    \/ /\ client < Clients
       /\ client' = client + 1
       /\ UNCHANGED <<attempt, outcome>>
    \/ /\ client = Clients
       /\ outcome' = "error"
       /\ UNCHANGED <<client, attempt>>

\* The client's error: the next one is asked, the last one's error returned.
NextClient ==
    \/ /\ client < Clients
       /\ client' = client + 1
       /\ attempt' = 0
       /\ UNCHANGED outcome
    \/ /\ client = Clients
       /\ outcome' = "error"
       /\ UNCHANGED <<client, attempt>>

\* Defect: the attempts start again when they are used up.
RequestFails_ForEver ==
    /\ outcome = "none"
    /\ attempt' = (attempt + 1) % (MaxRetries + 1)
    /\ UNCHANGED <<client, outcome, fallback, sent, unreadable>>

\* No response, or one whose status is no success: it is asked again.
RequestFails ==
    /\ Request
    /\ \/ /\ attempt < MaxRetries
          /\ attempt' = attempt + 1
          /\ UNCHANGED <<client, outcome>>
       \/ /\ attempt = MaxRetries
          /\ NextClient
    /\ UNCHANGED <<fallback, unreadable>>

\* A success that does not parse is this client's error, without a retry.
BodyUnreadable ==
    /\ Request
    /\ unreadable' = unreadable \cup {client}
    /\ NextClient
    /\ UNCHANGED fallback

\* The results of any client but the first are marked.
ResultsArrive ==
    /\ Request
    /\ outcome' \in {"results", "empty"}
    /\ fallback' = (client > 1 /\ outcome' = "results")
    /\ UNCHANGED <<client, attempt, unreadable>>

Terminated == outcome # "none" /\ UNCHANGED vars

Next == RequestFails \/ BodyUnreadable \/ ResultsArrive \/ Terminated

\* Every request has a timeout of 30 seconds and every backoff ends.
Spec == Init /\ [][Next]_vars /\ WF_vars(Next)

-----------------------------------------------------------------------------
(* Properties *)

\* A client has failed for good when it was asked as often as allowed, or when
\* its answer could not be read.
Failed(c) == sent[c] = MaxRetries + 1 \/ c \in unreadable

\* The chain gives up a client only when it has failed for good, does not ask
\* the clients after the one it has come to, and returns an error only when
\* the last one has failed too.
NoClientSkipped ==
    /\ \A c \in Chain : c < client => Failed(c)
    /\ \A c \in Chain : c > client => sent[c] = 0
    /\ outcome = "error" => \A c \in Chain : Failed(c)

\* Every search ends, so the engine's wait for it does.
SearchEnds == <>(outcome # "none")

\* The attempt counts the requests of the client that is asked; what it needs
\* to be inductive.
SearchInv ==
    /\ TypeOK
    /\ NoClientSkipped
    /\ outcome = "none" => sent[client] = attempt
=============================================================================
