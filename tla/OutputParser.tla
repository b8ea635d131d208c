----------------------------- MODULE OutputParser -----------------------------
(***************************************************************************)
(* parse_agent_output and find_matching_brace (src/parser/mod.rs): what an *)
(* agent says and which tool it calls.                                     *)
(*                                                                         *)
(* A tool call is "open", a JSON string's characters, "quote", "}"; any    *)
(* other object does not deserialize as a ToolCallRequest with the action  *)
(* search.                                                                 *)
(***************************************************************************)
EXTENDS AgentText

CONSTANT MaxQuery     \* pieces of the longest query (10,000 bytes)

ASSUME ParserAssumption == MaxQuery \in Nat

\* Defect: braces are counted whether or not they stand in a string.
Scan_Blind(acc, p) ==
    [acc EXCEPT !.depth = IF p \in Opening THEN @ + 1
                          ELSE IF p = "}" THEN @ - 1 ELSE @]

\* One turn of the scan.  "open" is a brace and an odd number of quotes, of
\* which an escape before it protects the brace only.
Scan(acc, p) ==
    LET outside == ~acc.inString /\ ~acc.escapeNext
        quotes == p = "open" \/ (p = "quote" /\ ~acc.escapeNext)
    IN  [depth |-> IF outside /\ p \in Opening THEN acc.depth + 1
                   ELSE IF outside /\ p = "}" THEN acc.depth - 1
                   ELSE acc.depth,
         inString |-> IF quotes THEN ~acc.inString ELSE acc.inString,
         escapeNext |-> p = "esc" /\ acc.inString /\ ~acc.escapeNext]

\* What the scan from start has seen up to place i.
Scanned(s, start, i) ==
    LET seen[k \in (start - 1)..i] ==
            IF k < start
            THEN [depth |-> 0, inString |-> FALSE, escapeNext |-> FALSE]
            ELSE Scan(seen[k - 1], s[k])
    IN  seen[i]

\* The places at which the brace at start is closed, of which the scan takes
\* the first.
FindMatchingBrace(s, start) ==
    {i \in start..Len(s) :
        /\ s[i] = "}"
        /\ Scanned(s, start, i).depth = 0
        /\ \A j \in start..(i - 1) : Scanned(s, start, j).depth > 0}

\* The places of s that a backslash escapes.
Escaped(s) ==
    LET escaped[i \in 0..Len(s)] ==
            i > 1 /\ s[i - 1] = "esc" /\ ~escaped[i - 1]
    IN  {i \in DOMAIN s : escaped[i]}

\* The characters of a JSON string: no bare quote, and every backslash escapes
\* a quote or a backslash.
IsString(s) ==
    /\ \A i \in Escaped(s) : s[i] \in {"quote", "esc"}
    /\ \A i \in DOMAIN s \ Escaped(s) :
           /\ s[i] \notin {"quote", "open"}
           /\ s[i] = "esc" => i < Len(s)

\* The objects that deserialize to a search, and the query of one, which is
\* the string without the backslashes that escape.
IsCall(s) ==
    \E n \in 3..Len(s) :
        /\ s[1] = "open" /\ s[n - 1] = "quote" /\ s[Len(s)] = "}"
        /\ IsString(SubSeq(s, 2, n - 2))
        /\ \A i \in n..(Len(s) - 1) : s[i] = "space"
QueryOf(s) ==
    LET string == SubSeq(s, 2, Max({i \in DOMAIN s : s[i] = "quote"}) - 1)
        bare == {i \in DOMAIN string \ Escaped(string) : string[i] = "esc"}
        kept == SetToSortSeq(DOMAIN string \ bare, <)
    IN  [k \in DOMAIN kept |-> string[kept[k]]]

Failure == [kind |-> "error", speech |-> << >>, query |-> << >>]
Speech(s) == [kind |-> "speech", speech |-> s, query |-> << >>]

\* Defect: the text after the object is dropped.
Join_DropsRest(before, after) == before

\* Before and after the object, with one space between if there are both.
Join(before, after) ==
    IF before = << >> \/ after = << >> THEN before \o after
    ELSE before \o <<"space">> \o after

\* The call of the object in s from start to end.
Call(s, start, end) ==
    LET query == QueryOf(SubSeq(s, start, end))
    IN  IF IsBlank(query) \/ Len(query) > MaxQuery THEN Failure
        ELSE [kind |-> "call",
              speech |-> Join(Trim(Before(s, start)), Trim(After(s, end))),
              query |-> query]

\* Only the object at the first brace of the text can be a call.
ParseAgentOutput(raw) ==
    LET s == Trim(raw)
        start == SelectInSeq(s, LAMBDA p : p \in Opening)
        ends == IF start = 0 THEN {} ELSE FindMatchingBrace(s, start)
    IN  IF s = << >> THEN Failure
        ELSE IF \E end \in ends : IsCall(SubSeq(s, start, end))
             THEN Call(s, start, Max(ends))
        ELSE Speech(s)

-----------------------------------------------------------------------------
(* Properties *)

\* Two places of s between which a call stands.
CallsIn(s) ==
    {c \in (DOMAIN s) \X (DOMAIN s) :
        /\ c[1] < c[2]
        /\ IsCall(SubSeq(s, c[1], c[2]))}

\* A text whose first brace begins a call is that call, whatever braces,
\* quotes or backslashes the query contains and whatever follows; the rest is
\* its speech.  It is an error when the query is blank or too long.
CallFound ==
    \A c \in CallsIn(text) :
        LET query == QueryOf(SubSeq(text, c[1], c[2]))
            parsed == ParseAgentOutput(text)
        IN  (\A i \in 1..(c[1] - 1) : text[i] \notin Opening) =>
                IF IsBlank(query) \/ Len(query) > MaxQuery
                THEN parsed.kind = "error"
                ELSE parsed.kind = "call" /\ parsed.query = query

\* What of s is visible, in order.
Seen(s) ==
    LET seen[i \in 0..Len(s)] ==
            IF i = 0 THEN << >>
            ELSE IF s[i] = "space" THEN seen[i - 1]
            ELSE Append(seen[i - 1], s[i])
    IN  seen[Len(s)]

\* Nothing an agent says is lost or said twice: what is visible in the text is
\* in the speech, in order, or belongs to the call.
NothingLost ==
    LET parsed == ParseAgentOutput(text)
    IN  CASE parsed.kind = "error" -> IsBlank(text) \/ CallsIn(text) # {}
          [] parsed.kind = "speech" -> Seen(parsed.speech) = Seen(text)
          [] parsed.kind = "call" ->
                 \E c \in CallsIn(text) :
                     /\ Seen(parsed.speech) =
                            Seen(Before(text, c[1])) \o Seen(After(text, c[2]))
                     /\ parsed.query = QueryOf(SubSeq(text, c[1], c[2]))
=============================================================================
