-------------------------------- MODULE LlmCall --------------------------------
(***************************************************************************)
(* One call of the language model: SgLangClient::chat_completion with its  *)
(* retries and consume_stream, which puts a text together from the chunks  *)
(* of the response (src/client/llm.rs).                                    *)
(*                                                                         *)
(* A body is a sequence of pieces.  A line begins with a piece that says   *)
(* what it is: "data" for a chunk with content, "done" for [DONE], "skip"  *)
(* for anything consume_stream passes over (chunks without content or that *)
(* do not parse); a blank line has none.  "nl" ends a line.  The content   *)
(* is of characters of one byte and of two, the latter of pieces "lead"    *)
(* and "trail".  Cutting any other piece shows nothing: the buffer is      *)
(* joined again before it is read.                                         *)
(***************************************************************************)
EXTENDS Naturals, Sequences, FiniteSets, SequencesExt

CONSTANTS
    MaxRetries,   \* max_retries
    Bodies        \* the response bodies the server may send

Heads == {"data", "done", "skip"}

\* What a line is, its first piece says.
ASSUME LlmCallAssumption ==
    /\ MaxRetries \in Nat
    /\ \A b \in Bodies :
           /\ b \in Seq(Heads \cup {"nl", "a", "b", "lead", "trail"})
           /\ \A i \in 2..Len(b) : b[i] \in Heads => b[i - 1] = "nl"

VARIABLES
    phase,     \* "sending" the request, "reading" the response, "done"
    attempt,   \* the loop's attempt
    body,      \* the response's body ...
    pending,   \* ... and what of it has not arrived
    buffer,    \* what has arrived and is not yet read
    text,      \* consume_stream's result
    outcome    \* what chat_completion returned

vars == <<phase, attempt, body, pending, buffer, text, outcome>>

Content == {"a", "b", "lead", "trail", "bad"}
Pieces == Heads \cup {"nl"} \cup Content

TypeOK ==
    /\ phase \in {"sending", "reading", "done"}
    /\ attempt \in 0..MaxRetries
    /\ body \in Bodies \cup {<< >>}
    /\ IsSuffix(pending, body)
    /\ buffer \in Seq(Pieces)
    /\ text \in Seq(Content)
    /\ outcome \in {"none", "text", "streamError", "clientError"}

Init ==
    /\ phase = "sending"
    /\ attempt = 0
    /\ body = << >>
    /\ pending = << >>
    /\ buffer = << >>
    /\ text = << >>
    /\ outcome = "none"

-----------------------------------------------------------------------------
(* Reading a response *)

\* from_utf8_lossy on one chunk: a half of a character whose other half is in
\* another chunk becomes a replacement character.
Decode(chunk) ==
    [i \in DOMAIN chunk |->
        IF \/ chunk[i] = "lead" /\ i = Len(chunk)
           \/ chunk[i] = "trail" /\ i = 1
        THEN "bad" ELSE chunk[i]]

LineEnds(s) == {i \in DOMAIN s : s[i] = "nl"}

Return(how) ==
    /\ phase' = "done"
    /\ outcome' = how

\* [DONE], or the end of the body, without any content is a stream error.
ReturnText(t) == Return(IF t = << >> THEN "streamError" ELSE "text")

\* The next bytes join the buffer.
ChunkArrives ==
    /\ phase = "reading"
    /\ LineEnds(buffer) = {}
    /\ \E n \in 1..Len(pending) :
        /\ buffer' = buffer \o Decode(SubSeq(pending, 1, n))
        /\ pending' = SubSeq(pending, n + 1, Len(pending))
    /\ UNCHANGED <<phase, attempt, body, text, outcome>>

Says(line, what) == line # << >> /\ Head(line) = what

\* What a line says: its content, or the end of the text, or nothing.
TakeLine(line) ==
    \/ /\ Says(line, "data")
       /\ text' = text \o Tail(line)
       /\ UNCHANGED <<phase, outcome>>
    \/ /\ Says(line, "done")
       /\ ReturnText(text)
       /\ UNCHANGED text
    \/ /\ ~Says(line, "data") /\ ~Says(line, "done")
       /\ UNCHANGED <<phase, text, outcome>>

\* Defect: what follows the line in the buffer is thrown away.
ReadLine_DropsRest ==
    /\ phase = "reading"
    /\ \E end \in LineEnds(buffer) :
        /\ \A i \in LineEnds(buffer) : end <= i
        /\ TakeLine(SubSeq(buffer, 1, end - 1))
        /\ buffer' = << >>
    /\ UNCHANGED <<attempt, body, pending>>

\* The first complete line of the buffer is taken out and read.
ReadLine ==
    /\ phase = "reading"
    /\ \E end \in LineEnds(buffer) :
        /\ \A i \in LineEnds(buffer) : end <= i
        /\ TakeLine(SubSeq(buffer, 1, end - 1))
        /\ buffer' = SubSeq(buffer, end + 1, Len(buffer))
    /\ UNCHANGED <<attempt, body, pending>>

\* The body ends without [DONE]: what there is is returned, an unfinished
\* line is not.
BodyEnds ==
    /\ phase = "reading"
    /\ LineEnds(buffer) = {}
    /\ pending = << >>
    /\ ReturnText(text)
    /\ UNCHANGED <<attempt, body, pending, buffer, text>>

\* Defect: a response that breaks off is asked for again, without counting,
\* and what has been read of it is kept.
BodyBreaks_AsksAgain ==
    /\ phase = "reading"
    /\ LineEnds(buffer) = {}
    /\ phase' = "sending"
    /\ buffer' = << >>
    /\ UNCHANGED <<attempt, body, pending, text, outcome>>

\* The connection breaks, or the timeout of the whole request strikes: the
\* error is returned, not retried.
BodyBreaks ==
    /\ phase = "reading"
    /\ LineEnds(buffer) = {}
    /\ Return("clientError")
    /\ UNCHANGED <<attempt, body, pending, buffer, text>>

-----------------------------------------------------------------------------
(* Sending the request *)

\* Defect: one attempt too many.
RequestFails_OneMore ==
    /\ phase = "sending"
    /\ \/ /\ attempt <= MaxRetries
          /\ attempt' = attempt + 1
          /\ UNCHANGED <<phase, outcome>>
       \/ /\ attempt > MaxRetries
          /\ Return("clientError")
          /\ UNCHANGED attempt
    /\ UNCHANGED <<body, pending, buffer, text>>

\* No response within the timeout, or one whose status is no success.
RequestFails ==
    /\ phase = "sending"
    /\ \/ /\ attempt < MaxRetries
          /\ attempt' = attempt + 1
          /\ UNCHANGED <<phase, outcome>>
       \/ /\ attempt = MaxRetries
          /\ Return("clientError")
          /\ UNCHANGED attempt
    /\ UNCHANGED <<body, pending, buffer, text>>

ResponseBegins ==
    /\ phase = "sending"
    /\ phase' = "reading"
    /\ body' \in Bodies
    /\ pending' = body'
    /\ UNCHANGED <<attempt, buffer, text, outcome>>

-----------------------------------------------------------------------------
Terminated == phase = "done" /\ UNCHANGED vars

Next ==
    \/ RequestFails \/ ResponseBegins
    \/ ChunkArrives \/ ReadLine \/ BodyEnds \/ BodyBreaks
    \/ Terminated

\* A timeout of 120 seconds is on every request, its body included, and a
\* backoff ends: the call takes its next step.
Fairness == WF_vars(Next)

Spec == Init /\ [][Next]_vars /\ Fairness

-----------------------------------------------------------------------------
(* Properties *)

\* The text a body carries, read as a whole: the content of its data lines
\* that end before the first [DONE] does.
InLine(b, i, kind) ==
    \E h \in 1..i :
        /\ b[h] = kind
        /\ \A j \in h..i : b[j] # "nl"
Ended(b, i) == \E j \in i..Len(b) : b[j] = "nl"
Carried(b) ==
    {i \in DOMAIN b :
        /\ b[i] \in Content
        /\ InLine(b, i, "data")
        /\ Ended(b, i)
        /\ \A j \in 1..i : b[j] # "done"}

\* The place in the text of the piece at i, which the body carries.
Place(b, i) == Cardinality({j \in Carried(b) : j <= i})

\* x is the piece y or what is left of it once its character was cut.
Reads(x, y) == x = y \/ (y \in {"lead", "trail"} /\ x = "bad")

\* However the response is cut into chunks and whatever failed before it, the
\* text is at any time a beginning of what the body carries: no line is read
\* twice, before it is complete, or after [DONE].
NothingTwice ==
    /\ Len(text) <= Cardinality(Carried(body))
    /\ \A i \in Carried(body) :
           Place(body, i) <= Len(text) => Reads(text[Place(body, i)], body[i])

\* A call that returns a text returns all its body carries, and one that
\* reports an empty stream has had nothing to read.
AnswerIsWhole ==
    outcome \in {"text", "streamError"} =>
        /\ Len(text) = Cardinality(Carried(body))
        /\ outcome = "streamError" <=> Carried(body) = {}

\* Every call ends: the retries and the response do.
CallEnds == <>(phase = "done")
=============================================================================
