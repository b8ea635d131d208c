------------------------------- MODULE MCClients -------------------------------
(***************************************************************************)
(* Instances of LlmCall and SearchCall for TLC.  A turn awaits one call at *)
(* a time (execute_with_tool_support): either the model is asked, after a  *)
(* search, or a search is made, after the model has asked for it.  The two *)
(* share nothing, so the states of the run are those of both, not pairs.   *)
(***************************************************************************)
EXTENDS LlmCall

CONSTANT Clients      \* SearchCall's

VARIABLES client, tries, found, fallback, sent, unreadable

searchVars == <<client, tries, found, fallback, sent, unreadable>>

Search == INSTANCE SearchCall WITH attempt <- tries, outcome <- found

ASSUME ChainAssumption == Search!SearchAssumption

Lines == {<<"data", "a", "nl">>, <<"data", "lead", "trail", "b", "nl">>,
          <<"skip", "nl">>, <<"done", "nl">>, <<"nl">>}

\* Bodies of at most three lines, the last of which may be cut off.
WholeBodies == {FlattenSeq(ls) : ls \in SeqOf(Lines, 3)}
SomeBodies ==
    UNION {{SubSeq(b, 1, n) : n \in 0..Len(b)} : b \in WholeBodies}

\* The first client has answered its first request.
SearchOver ==
    /\ client = 1
    /\ tries = 0
    /\ found = "results"
    /\ fallback = FALSE
    /\ sent = [c \in 1..Clients |-> IF c = 1 THEN 1 ELSE 0]
    /\ unreadable = {}

\* The model has answered its first request with a text of one line.
ModelAnswered ==
    /\ phase = "done"
    /\ attempt = 0
    /\ body = <<"data", "a", "nl">>
    /\ pending = << >>
    /\ buffer = << >>
    /\ text = <<"a">>
    /\ outcome = "text"

CallsInit ==
    \/ Init /\ SearchOver
    \/ Search!Init /\ ModelAnswered

CallsNext ==
    \/ Next /\ UNCHANGED searchVars
    \/ Search!Next /\ UNCHANGED vars

\* The fairness of both: the one that is over has only steps that change
\* nothing.
CallsSpec ==
    /\ CallsInit
    /\ [][CallsNext]_<<vars, searchVars>>
    /\ WF_<<vars, searchVars>>(CallsNext)

\* A search client is left only when it has failed for good (SearchCall).
NoClientSkipped == Search!NoClientSkipped

\* Every search ends (SearchCall).
SearchEnds == Search!SearchEnds
=============================================================================
