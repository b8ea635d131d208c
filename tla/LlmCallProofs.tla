---------------------------- MODULE LlmCallProofs ----------------------------
(***************************************************************************)
(* Whatever the bodies, however they are cut into chunks and however many  *)
(* retries there are: the text of a call is at any time the beginning of   *)
(* what the body carries, and all of it when the call returns one.         *)
(***************************************************************************)
EXTENDS LlmCall, FiniteSetTheorems, TLAPS

\* What the body carries up to place n.
UpTo(b, n) == {i \in Carried(b) : i <= n}

\* Lines begin with what they are.
WellFormed(b) ==
    /\ b \in Seq(Pieces)
    /\ \A i \in 2..Len(b) : b[i] \in Heads => b[i - 1] = "nl"

-----------------------------------------------------------------------------
(* One line of a body: t is the end of the line before it, e its own. *)

IsLine(b, t, e) ==
    /\ t \in 0..Len(b) /\ e \in (t + 1)..Len(b)
    /\ t = 0 \/ b[t] = "nl"
    /\ \A j \in (t + 1)..(e - 1) : b[j] # "nl"
    /\ b[e] = "nl"

LEMMA LineKinds ==
    ASSUME NEW b, WellFormed(b), NEW t, NEW e, IsLine(b, t, e)
    PROVE  /\ \A i \in (t + 1)..e : b[i] \in Heads => i = t + 1
           /\ \A i \in (t + 1)..e, kind \in Heads :
                  InLine(b, i, kind) => b[t + 1] = kind
           /\ \A i \in (t + 1)..(e - 1), kind \in Heads :
                  b[t + 1] = kind => InLine(b, i, kind)
<1>1. /\ t \in Nat /\ e \in Nat /\ t < e /\ e <= Len(b) /\ Len(b) \in Nat
      /\ "nl" \notin Heads
  BY DEF IsLine, WellFormed, Heads
<1>2. ASSUME NEW i \in (t + 1)..e, b[i] \in Heads PROVE i = t + 1
  <2>1. CASE i # t + 1
    <3>1. i \in 2..Len(b) /\ i - 1 \in (t + 1)..(e - 1)
      BY <1>1, <2>1
    <3> QED BY <1>2, <3>1 DEF WellFormed, IsLine
  <2> QED BY <2>1
<1>3. ASSUME NEW i \in (t + 1)..e, NEW kind \in Heads, InLine(b, i, kind)
      PROVE  b[t + 1] = kind
  <2>1. PICK h \in 1..i : b[h] = kind /\ \A j \in h..i : b[j] # "nl"
    BY <1>3 DEF InLine
  <2>2. CASE h <= t
    <3>1. t \in h..i /\ t # 0
      BY <1>1, <2>2
    <3> QED BY <2>1, <3>1 DEF IsLine
  <2>3. CASE h > t
    <3>1. h \in (t + 1)..e
      BY <1>1, <2>3
    <3> QED BY <1>2, <2>1, <3>1
  <2> QED BY <1>1, <2>2, <2>3
<1>4. ASSUME NEW i \in (t + 1)..(e - 1), NEW kind \in Heads, b[t + 1] = kind
      PROVE  InLine(b, i, kind)
  <2>1. t + 1 \in 1..i /\ \A j \in (t + 1)..i : b[j] # "nl"
    BY <1>1 DEF IsLine
  <2> QED BY <1>4, <2>1 DEF InLine
<1> QED BY <1>2, <1>3, <1>4

\* Every piece of a data line is carried, its head and its end apart.
LEMMA DataLine ==
    ASSUME NEW b, WellFormed(b), NEW t, NEW e, IsLine(b, t, e),
           b[t + 1] = "data", \A j \in 1..t : b[j] # "done",
           NEW n \in (t + 1)..(e - 1)
    PROVE  /\ UpTo(b, n) = UpTo(b, t) \cup (t + 2)..n
           /\ UpTo(b, e) = UpTo(b, e - 1)
           /\ \A i \in UpTo(b, e) : i \in UpTo(b, t) \/ i \in (t + 2)..(e - 1)
           /\ \A j \in 1..e : b[j] # "done"
<1>1. /\ t \in Nat /\ e \in Nat /\ t < e /\ e <= Len(b) /\ Len(b) \in Nat
      /\ DOMAIN b = 1..Len(b) /\ "data" \in Heads
  BY DEF IsLine, WellFormed, Heads
<1>2. /\ \A i \in (t + 1)..e : b[i] \in Heads => i = t + 1
      /\ \A i \in (t + 1)..(e - 1) : InLine(b, i, "data")
  BY <1>1, LineKinds
<1>3. \A j \in 1..e : b[j] # "done"
  BY <1>1, <1>2 DEF Heads
<1>4. ASSUME NEW i \in (t + 2)..(e - 1) PROVE i \in Carried(b)
  <2>1. b[i] \in Content
    <3>1. i \in 1..Len(b) /\ i \in (t + 1)..(e - 1) /\ i # t + 1
      BY <1>1
    <3>2. b[i] \in Pieces /\ b[i] # "nl" /\ b[i] \notin Heads
      BY <1>1, <1>2, <3>1 DEF WellFormed, IsLine
    <3> QED BY <3>2 DEF Pieces
  <2>2. InLine(b, i, "data")
    BY <1>1, <1>2
  <2>3. Ended(b, i)
    BY <1>1 DEF Ended, IsLine
  <2>4. \A j \in 1..i : b[j] # "done"
    BY <1>1, <1>3
  <2> QED BY <1>1, <2>1, <2>2, <2>3, <2>4 DEF Carried
<1>5. ASSUME NEW i \in Carried(b), i > t, i <= e
      PROVE  i \in (t + 2)..(e - 1)
  <2>1. i \in 1..Len(b) /\ b[i] \in Content
    BY <1>1 DEF Carried
  <2>2. b[i] # "nl" /\ b[i] # "data"
    BY <2>1 DEF Content
  <2>3. i # e /\ i # t + 1
    BY <2>2 DEF IsLine
  <2> QED BY <1>1, <1>5, <2>1, <2>3
<1>6. \A i \in Carried(b) : i \in Nat
  BY <1>1 DEF Carried
<1>7. UpTo(b, n) = UpTo(b, t) \cup (t + 2)..n
  BY <1>1, <1>4, <1>5, <1>6 DEF UpTo
<1>8. UpTo(b, e) = UpTo(b, e - 1)
  BY <1>1, <1>5, <1>6 DEF UpTo
<1>9. \A i \in UpTo(b, e) : i \in UpTo(b, t) \/ i \in (t + 2)..(e - 1)
  BY <1>1, <1>5, <1>6 DEF UpTo
<1> QED BY <1>3, <1>7, <1>8, <1>9

\* No other line carries anything.
LEMMA OtherLine ==
    ASSUME NEW b, WellFormed(b), NEW t, NEW e, IsLine(b, t, e),
           b[t + 1] # "data"
    PROVE  UpTo(b, e) = UpTo(b, t)
<1>1. /\ t \in Nat /\ e \in Nat /\ t < e /\ e <= Len(b) /\ Len(b) \in Nat
      /\ DOMAIN b = 1..Len(b) /\ "data" \in Heads
  BY DEF IsLine, WellFormed, Heads
<1>2. ASSUME NEW i \in Carried(b), i > t, i <= e PROVE FALSE
  <2>1. i \in (t + 1)..e /\ InLine(b, i, "data")
    BY <1>1, <1>2 DEF Carried
  <2> QED BY <1>1, <2>1, LineKinds
<1>3. \A i \in Carried(b) : i \in Nat
  BY <1>1 DEF Carried
<1> QED BY <1>1, <1>2, <1>3 DEF UpTo

\* Nothing from [DONE] on is carried, and it is in no other line.
LEMMA DoneLine ==
    ASSUME NEW b, WellFormed(b), NEW t, NEW e, IsLine(b, t, e)
    PROVE  /\ b[t + 1] = "done" => Carried(b) \subseteq UpTo(b, t)
           /\ b[t + 1] # "done" =>
                  \A j \in (t + 1)..e : b[j] # "done"
<1>1. /\ t \in Nat /\ e \in Nat /\ t < e /\ e <= Len(b) /\ Len(b) \in Nat
      /\ DOMAIN b = 1..Len(b) /\ "done" \in Heads
  BY DEF IsLine, WellFormed, Heads
<1>2. ASSUME b[t + 1] = "done", NEW i \in Carried(b) PROVE i <= t
  <2>1. i \in Nat /\ \A j \in 1..i : b[j] # "done"
    BY <1>1 DEF Carried
  <2> QED BY <1>1, <1>2, <2>1
<1>3. ASSUME b[t + 1] # "done", NEW j \in (t + 1)..e PROVE b[j] # "done"
  BY <1>1, <1>3, LineKinds
<1> QED BY <1>2, <1>3 DEF UpTo

\* What is carried is counted.
LEMMA UpToFinite ==
    ASSUME NEW b, WellFormed(b), NEW n
    PROVE  /\ IsFiniteSet(Carried(b)) /\ Cardinality(Carried(b)) \in Nat
           /\ IsFiniteSet(UpTo(b, n)) /\ Cardinality(UpTo(b, n)) \in Nat
           /\ Cardinality(UpTo(b, n)) <= Cardinality(Carried(b))
<1>1. IsFiniteSet(Carried(b))
  <2>1. Len(b) \in Nat /\ Carried(b) \subseteq 1..Len(b)
    BY DEF WellFormed, Carried
  <2>2. IsFiniteSet(1..Len(b))
    BY <2>1, FS_Interval
  <2> QED BY <2>1, <2>2, FS_Subset
<1>2. UpTo(b, n) \subseteq Carried(b)
  BY DEF UpTo
<1> QED BY <1>1, <1>2, FS_Subset, FS_CardinalityType

\* Place counts on through the pieces of a data line.
LEMMA Counted ==
    ASSUME NEW b, WellFormed(b), NEW t, NEW e, IsLine(b, t, e),
           b[t + 1] = "data", \A j \in 1..t : b[j] # "done",
           NEW n \in (t + 1)..(e - 1)
    PROVE  Cardinality(UpTo(b, n)) = Cardinality(UpTo(b, t)) + (n - (t + 1))
<1>1. /\ IsFiniteSet(UpTo(b, t)) /\ Cardinality(UpTo(b, t)) \in Nat
      /\ t \in Nat /\ e \in Nat /\ n \in Nat
  BY UpToFinite DEF IsLine, WellFormed
<1>2. /\ IsFiniteSet((t + 2)..n)
      /\ Cardinality((t + 2)..n) = n - (t + 1)
  <2>1. t + 2 \in Int /\ n \in Int
    BY <1>1
  <2>2. (t + 2 > n) => n - (t + 1) = 0
    BY <1>1
  <2>3. n - (t + 2) + 1 = n - (t + 1)
    BY <1>1
  <2> QED BY <2>1, <2>2, <2>3, FS_Interval
<1>3. UpTo(b, t) \cap (t + 2)..n = {}
  BY <1>1 DEF UpTo
<1>4. Cardinality(UpTo(b, t) \cap (t + 2)..n) = 0
  BY <1>3, FS_EmptySet
<1>5. Cardinality(UpTo(b, t) \cup (t + 2)..n) =
          Cardinality(UpTo(b, t)) + Cardinality((t + 2)..n)
              - Cardinality(UpTo(b, t) \cap (t + 2)..n)
  BY <1>1, <1>2, FS_Union
<1>6. Cardinality(UpTo(b, t) \cup (t + 2)..n) =
          Cardinality(UpTo(b, t)) + (n - (t + 1))
  BY <1>1, <1>2, <1>4, <1>5
<1>7. UpTo(b, n) = UpTo(b, t) \cup (t + 2)..n
  BY DataLine
<1> QED BY <1>6, <1>7, Zenon

-----------------------------------------------------------------------------
(* The inductive invariant. *)

Arrived == Len(body) - Len(pending)
Taken == Arrived - Len(buffer)

Shapes ==
    /\ phase \in {"sending", "reading", "done"}
    /\ attempt \in 0..MaxRetries
    /\ body \in Bodies \cup {<< >>}
    /\ pending \in Seq(Pieces)
    /\ buffer \in Seq(Pieces)
    /\ text \in Seq(Content)
    /\ outcome \in {"none", "text", "streamError", "clientError"}

\* The body is what has been read in whole lines, the buffer, and what has not
\* arrived.
Places ==
    /\ Len(pending) + Len(buffer) <= Len(body)
    /\ \A i \in 1..Len(pending) : pending[i] = body[Arrived + i]
    /\ \A i \in 1..Len(buffer) : Reads(buffer[i], body[Taken + i])
    /\ Taken = 0 \/ body[Taken] = "nl"

\* The text is what the lines that have been read carry.
SoFar ==
    /\ Len(text) = Cardinality(UpTo(body, Taken))
    /\ \A i \in UpTo(body, Taken) : Reads(text[Place(body, i)], body[i])

Stages ==
    /\ phase = "sending" =>
           body = << >> /\ pending = << >> /\ buffer = << >> /\ text = << >>
    /\ phase = "reading" => \A j \in 1..Taken : body[j] # "done"
    /\ phase # "done" => outcome = "none"
    /\ outcome \in {"text", "streamError"} =>
           /\ Carried(body) \subseteq UpTo(body, Taken)
           /\ outcome = "streamError" <=> text = << >>

LInv == Shapes /\ Places /\ SoFar /\ Stages

LEMMA BodyWellFormed ==
    ASSUME NEW b \in Bodies \cup {<< >>}
    PROVE  WellFormed(b)
<1>1. CASE b = << >>
  BY <1>1 DEF WellFormed
<1>2. CASE b \in Bodies
  <2>1. /\ b \in Seq(Heads \cup {"nl", "a", "b", "lead", "trail"})
        /\ \A i \in 2..Len(b) : b[i] \in Heads => b[i - 1] = "nl"
    BY <1>2, LlmCallAssumption DEF LlmCallAssumption
  <2>2. Heads \cup {"nl", "a", "b", "lead", "trail"} \subseteq Pieces
    BY DEF Pieces, Content
  <2>3. b \in Seq(Pieces)
    BY <2>1, <2>2
  <2> QED BY <2>1, <2>3 DEF WellFormed
<1> QED BY <1>1, <1>2

LEMMA Sizes ==
    ASSUME Shapes, Places
    PROVE  /\ WellFormed(body)
           /\ Len(body) \in Nat /\ Len(pending) \in Nat /\ Len(buffer) \in Nat
           /\ Arrived \in 0..Len(body) /\ Taken \in 0..Arrived
           /\ Arrived + Len(pending) = Len(body)
           /\ Taken + Len(buffer) = Arrived
<1>1. WellFormed(body)
  BY BodyWellFormed DEF Shapes
<1>2. Len(body) \in Nat /\ Len(pending) \in Nat /\ Len(buffer) \in Nat
  BY <1>1 DEF WellFormed, Shapes
<1> QED BY <1>1, <1>2 DEF Places, Arrived, Taken

\* Before the first line nothing is carried.
LEMMA NothingYet ==
    ASSUME NEW b, WellFormed(b)
    PROVE  UpTo(b, 0) = {}
BY DEF UpTo, Carried, WellFormed

\* A step that reads no line leaves what has been read as it is.
LEMMA SoFarKept ==
    ASSUME SoFar, UNCHANGED <<body, text>>, Taken' = Taken
    PROVE  SoFar'
<1>1. UpTo(body, Taken)' = UpTo(body, Taken)
  BY DEF UpTo
<1>2. \A i : Place(body, i)' = Place(body, i)
  BY DEF Place
<1> QED BY <1>1, <1>2, Zenon DEF SoFar

LEMMA InitLInv == Init => LInv
<1> SUFFICES ASSUME Init PROVE LInv
  OBVIOUS
<1>1. Shapes
  BY LlmCallAssumption DEF Init, Shapes, LlmCallAssumption
<1>2. Taken = 0 /\ Arrived = 0 /\ Places
  <2>1. Len(body) = 0 /\ Len(pending) = 0 /\ Len(buffer) = 0
    BY DEF Init
  <2>2. Taken = 0 /\ Arrived = 0
    BY <2>1 DEF Arrived, Taken
  <2> QED BY <2>1, <2>2 DEF Places
<1>3. UpTo(body, Taken) = {}
  BY <1>1, <1>2, BodyWellFormed, NothingYet DEF Shapes
<1>4. SoFar
  BY <1>3, FS_EmptySet DEF Init, SoFar
<1>5. Stages
  BY DEF Init, Stages
<1> QED BY <1>1, <1>2, <1>4, <1>5 DEF LInv

\* Neither the request nor the end of a call touches what has been read.
LEMMA RequestKeeps ==
    ASSUME LInv, RequestFails \/ UNCHANGED vars
    PROVE  LInv'
<1>1. UNCHANGED <<body, pending, buffer, text>>
  BY DEF RequestFails, vars
<1>2. Taken' = Taken /\ Arrived' = Arrived
  BY <1>1 DEF Taken, Arrived
<1>3. Places'
  BY <1>1, <1>2 DEF LInv, Places
<1>4. SoFar'
  BY <1>1, <1>2, SoFarKept DEF LInv
<1>5. Shapes'
  BY <1>1, LlmCallAssumption
  DEF LInv, Shapes, RequestFails, Return, vars, LlmCallAssumption
<1>6. Stages'
  BY <1>1, <1>2 DEF LInv, Stages, Shapes, RequestFails, Return, vars, UpTo
<1> QED BY <1>3, <1>4, <1>5, <1>6 DEF LInv

LEMMA BeginKeeps ==
    ASSUME LInv, ResponseBegins
    PROVE  LInv'
<1>1. /\ body' \in Bodies /\ pending' = body' /\ buffer' = << >>
      /\ text' = << >> /\ outcome' = "none" /\ phase' = "reading"
      /\ attempt' = attempt
  BY DEF ResponseBegins, LInv, Stages
<1>2. WellFormed(body')
  BY <1>1, BodyWellFormed
<1>3. Taken' = 0 /\ Arrived' = 0
  <2>1. Len(body') \in Nat /\ Len(buffer') = 0
    BY <1>1, <1>2 DEF WellFormed
  <2>2. Arrived' = Len(body') - Len(body')
    BY <1>1 DEF Arrived
  <2> QED BY <2>1, <2>2 DEF Taken
<1>4. Shapes'
  BY <1>1, <1>2 DEF LInv, Shapes, WellFormed
<1>5. Places'
  BY <1>1, <1>2, <1>3 DEF Places, WellFormed
<1>6. UpTo(body', Taken') = {}
  BY <1>2, <1>3, NothingYet
<1>7. SoFar'
  BY <1>1, <1>6, FS_EmptySet DEF SoFar
<1>8. Stages'
  BY <1>1, <1>3 DEF Stages
<1> QED BY <1>4, <1>5, <1>7, <1>8 DEF LInv

\* Decoding changes nothing but the halves of a character that was cut.
LEMMA Decoded ==
    ASSUME NEW s \in Seq(Pieces)
    PROVE  /\ Decode(s) \in Seq(Pieces) /\ Len(Decode(s)) = Len(s)
           /\ \A i \in 1..Len(s) : Reads(Decode(s)[i], s[i])
<1>1. /\ Len(s) \in Nat /\ DOMAIN s = 1..Len(s)
      /\ \A i \in 1..Len(s) : s[i] \in Pieces
      /\ "bad" \in Pieces
  BY DEF Pieces, Content
<1>2. /\ Decode(s) \in [1..Len(s) -> Pieces]
      /\ \A i \in 1..Len(s) : Reads(Decode(s)[i], s[i])
  BY <1>1 DEF Decode, Reads
<1> QED BY <1>1, <1>2

LEMMA Joined ==
    ASSUME NEW s \in Seq(Pieces), NEW t \in Seq(Pieces)
    PROVE  /\ s \o t \in Seq(Pieces)
           /\ Len(s \o t) = Len(s) + Len(t)
           /\ \A i \in 1..Len(s) : (s \o t)[i] = s[i]
           /\ \A i \in 1..Len(t) : (s \o t)[Len(s) + i] = t[i]
OBVIOUS

LEMMA ChunkKeeps ==
    ASSUME LInv, ChunkArrives
    PROVE  LInv'
<1>1. PICK n \in 1..Len(pending) :
          /\ buffer' = buffer \o Decode(SubSeq(pending, 1, n))
          /\ pending' = SubSeq(pending, n + 1, Len(pending))
  BY DEF ChunkArrives
<1>2. phase = "reading" /\ UNCHANGED <<phase, attempt, body, text, outcome>>
  BY DEF ChunkArrives
<1> DEFINE chunk == SubSeq(pending, 1, n)
<1>3. /\ Len(body) \in Nat /\ Len(pending) \in Nat /\ Len(buffer) \in Nat
      /\ Arrived \in Nat /\ Taken \in Nat
      /\ Arrived + Len(pending) = Len(body) /\ Taken + Len(buffer) = Arrived
      /\ buffer \in Seq(Pieces) /\ pending \in Seq(Pieces)
  BY Sizes DEF LInv, Shapes
<1>4. /\ chunk \in Seq(Pieces) /\ Len(chunk) = n
      /\ \A i \in 1..n : chunk[i] = pending[i]
  BY <1>3
<1>5. /\ pending' \in Seq(Pieces) /\ Len(pending') = Len(pending) - n
      /\ \A i \in 1..(Len(pending) - n) : pending'[i] = pending[n + i]
  BY <1>1, <1>3
<1> HIDE DEF chunk
<1> DEFINE read == Decode(chunk)
<1>6. /\ read \in Seq(Pieces) /\ Len(read) = n
      /\ \A i \in 1..n : Reads(read[i], pending[i])
  BY <1>4, Decoded
<1>7. buffer' = buffer \o read
  BY <1>1 DEF chunk
<1> HIDE DEF read
<1>8. /\ buffer \o read \in Seq(Pieces)
      /\ Len(buffer \o read) = Len(buffer) + n
      /\ \A i \in 1..Len(buffer) : (buffer \o read)[i] = buffer[i]
      /\ \A i \in 1..n : (buffer \o read)[Len(buffer) + i] = read[i]
  <2>1. buffer \in Seq(Pieces) /\ read \in Seq(Pieces) /\ Len(read) = n
    BY <1>3, <1>6
  <2>2. /\ buffer \o read \in Seq(Pieces)
        /\ Len(buffer \o read) = Len(buffer) + Len(read)
        /\ \A i \in 1..Len(buffer) : (buffer \o read)[i] = buffer[i]
        /\ \A i \in 1..Len(read) : (buffer \o read)[Len(buffer) + i] = read[i]
    BY <2>1, Joined, Zenon
  <2> QED BY <2>1, <2>2
<1>9. /\ buffer' \in Seq(Pieces)
      /\ Len(buffer') = Len(buffer) + n
      /\ \A i \in 1..Len(buffer) : buffer'[i] = buffer[i]
      /\ \A i \in 1..n : buffer'[Len(buffer) + i] = read[i]
  BY <1>7, <1>8
<1>10. Arrived' = Arrived + n /\ Taken' = Taken
  BY <1>2, <1>3, <1>5, <1>9 DEF Arrived, Taken
<1>11. Places'
  <2>1. Len(pending') + Len(buffer') <= Len(body')
    BY <1>2, <1>3, <1>5, <1>9
  <2>2. ASSUME NEW i \in 1..Len(pending')
        PROVE  pending'[i] = body'[Arrived' + i]
    <3>1. /\ pending'[i] = pending[n + i]
          /\ pending[n + i] = body[Arrived + (n + i)]
          /\ Arrived + (n + i) = Arrived' + i
      BY <1>3, <1>5, <1>10 DEF LInv, Places
    <3> QED BY <1>2, <3>1
  <2>3. ASSUME NEW i \in 1..Len(buffer')
        PROVE  Reads(buffer'[i], body'[Taken' + i])
    <3>1. CASE i <= Len(buffer)
      <4>1. i \in 1..Len(buffer) /\ buffer'[i] = buffer[i]
        BY <1>3, <1>9, <3>1
      <4> QED BY <1>2, <1>10, <4>1 DEF LInv, Places
    <3>2. CASE i > Len(buffer)
      <4>1. PICK k \in 1..n : i = Len(buffer) + k
        <5>1. i - Len(buffer) \in 1..n /\ i = Len(buffer) + (i - Len(buffer))
          BY <1>3, <1>9, <3>2
        <5> QED BY <5>1
      <4>2. /\ buffer'[i] = read[k] /\ Reads(read[k], pending[k])
            /\ pending[k] = body[Arrived + k]
        <5>1. k \in 1..Len(pending)
          BY <1>3
        <5>2. pending[k] = body[Arrived + k]
          BY <5>1 DEF LInv, Places
        <5>3. buffer'[i] = read[k]
          BY <1>9, <4>1
        <5> QED BY <1>6, <5>2, <5>3
      <4>3. Arrived + k = Taken' + i
        BY <1>3, <1>10, <4>1
      <4> QED BY <1>2, <4>2, <4>3
    <3> QED BY <1>3, <1>9, <3>1, <3>2
  <2>4. Taken' = 0 \/ body'[Taken'] = "nl"
    BY <1>2, <1>10 DEF LInv, Places
  <2> QED BY <2>1, <2>2, <2>3, <2>4 DEF Places
<1>12. SoFar'
  BY <1>2, <1>10, SoFarKept DEF LInv
<1>13. Shapes'
  BY <1>2, <1>5, <1>9 DEF LInv, Shapes
<1>14. Stages'
  BY <1>2, <1>10 DEF LInv, Stages
<1> QED BY <1>11, <1>12, <1>13, <1>14 DEF LInv

-----------------------------------------------------------------------------
(* Reading a line. *)

LEMMA PlaceBounds ==
    ASSUME NEW b, WellFormed(b), NEW n \in Nat, NEW i \in UpTo(b, n)
    PROVE  Place(b, i) \in 1..Cardinality(UpTo(b, n))
<1>1. i \in UpTo(b, i) /\ UpTo(b, i) \subseteq UpTo(b, n)
  BY DEF UpTo, Carried, WellFormed
<1>2. /\ IsFiniteSet(UpTo(b, n)) /\ Cardinality(UpTo(b, n)) \in Nat
      /\ IsFiniteSet(UpTo(b, i)) /\ Cardinality(UpTo(b, i)) \in Nat
  BY UpToFinite
<1>3. Cardinality(UpTo(b, i)) <= Cardinality(UpTo(b, n))
  BY <1>1, <1>2, FS_Subset
<1>4. Cardinality(UpTo(b, i)) # 0
  BY <1>1, <1>2, FS_EmptySet
<1>5. Place(b, i) = Cardinality(UpTo(b, i))
  BY DEF Place, UpTo
<1> QED BY <1>2, <1>3, <1>4, <1>5

\* The first line of the buffer is the next line of the body.
LEMMA NextLine ==
    ASSUME LInv, NEW end \in LineEnds(buffer),
           \A i \in LineEnds(buffer) : end <= i
    PROVE  /\ end \in 1..Len(buffer)
           /\ IsLine(body, Taken, Taken + end)
           /\ \A kind \in {"data", "done"} :
                  Says(SubSeq(buffer, 1, end - 1), kind)
                      <=> body[Taken + 1] = kind
<1>1. /\ WellFormed(body) /\ Len(body) \in Nat /\ Len(buffer) \in Nat
      /\ Taken \in Nat /\ Taken + Len(buffer) <= Len(body)
      /\ buffer \in Seq(Pieces)
  BY Sizes DEF LInv, Shapes
<1>2. end \in 1..Len(buffer) /\ buffer[end] = "nl"
  BY <1>1 DEF LineEnds
<1>3. \A k \in 1..(end - 1) : buffer[k] # "nl"
  BY <1>1, <1>2 DEF LineEnds
<1>4. \A k \in 1..end : Reads(buffer[k], body[Taken + k])
  BY <1>1, <1>2 DEF LInv, Places
<1>5. IsLine(body, Taken, Taken + end)
  <2>1. Taken \in 0..Len(body) /\ Taken + end \in (Taken + 1)..Len(body)
    BY <1>1, <1>2
  <2>2. body[Taken + end] = "nl"
    BY <1>2, <1>4 DEF Reads
  <2>3. ASSUME NEW j \in (Taken + 1)..((Taken + end) - 1)
        PROVE  body[j] # "nl"
    <3>1. PICK k \in 1..(end - 1) : j = Taken + k
      <4>1. j - Taken \in 1..(end - 1) /\ j = Taken + (j - Taken)
        BY <1>1, <1>2
      <4> QED BY <4>1
    <3>2. buffer[k] # "nl" /\ Reads(buffer[k], body[j])
      BY <1>2, <1>3, <1>4, <3>1
    <3> QED BY <3>2 DEF Reads
  <2>4. Taken = 0 \/ body[Taken] = "nl"
    BY DEF LInv, Places
  <2> QED BY <2>1, <2>2, <2>3, <2>4, Zenon DEF IsLine
<1>6. ASSUME NEW kind \in {"data", "done"}
      PROVE  Says(SubSeq(buffer, 1, end - 1), kind) <=> body[Taken + 1] = kind
  <2>1. /\ Len(SubSeq(buffer, 1, end - 1)) = end - 1
        /\ SubSeq(buffer, 1, end - 1) \in Seq(Pieces)
        /\ end > 1 => SubSeq(buffer, 1, end - 1)[1] = buffer[1]
    BY <1>1, <1>2
  <2>2. Says(SubSeq(buffer, 1, end - 1), kind) <=> end > 1 /\ buffer[1] = kind
    <3> DEFINE line == SubSeq(buffer, 1, end - 1)
    <3>1. /\ line \in Seq(Pieces) /\ Len(line) = end - 1
          /\ end > 1 => line[1] = buffer[1]
      BY <2>1
    <3> HIDE DEF line
    <3>2. line # << >> <=> end > 1
      BY <1>1, <1>2, <3>1
    <3>3. line # << >> => Head(line) = line[1]
      BY <3>1
    <3>4. Says(line, kind) <=> end > 1 /\ buffer[1] = kind
      BY <3>1, <3>2, <3>3 DEF Says
    <3> QED BY <3>4 DEF line
  <2>3. CASE end = 1
    BY <1>1, <1>2, <1>4, <2>2, <2>3 DEF Reads
  <2>4. CASE end > 1
    <3>1. Reads(buffer[1], body[Taken + 1])
      BY <1>2, <1>4
    <3> QED BY <2>2, <2>4, <3>1 DEF Reads
  <2> QED BY <1>2, <2>3, <2>4
<1> QED BY <1>2, <1>5, <1>6

\* The content of a data line is added to the text, piece by piece.
LEMMA DataRead ==
    ASSUME LInv, NEW end \in 1..Len(buffer),
           IsLine(body, Taken, Taken + end),
           body[Taken + 1] = "data",
           \A j \in 1..Taken : body[j] # "done",
           text' = text \o Tail(SubSeq(buffer, 1, end - 1)),
           body' = body, Taken' = Taken + end
    PROVE  text' \in Seq(Content) /\ SoFar'
<1>1. /\ WellFormed(body) /\ Len(body) \in Nat /\ Len(buffer) \in Nat
      /\ Taken \in Nat /\ end \in Nat /\ Taken + end <= Len(body)
      /\ buffer \in Seq(Pieces) /\ text \in Seq(Content) /\ Len(text) \in Nat
  BY Sizes, SMTT(30) DEF LInv, Shapes
<1>2. end >= 2
  <2>1. end # 1
    BY DEF IsLine
  <2> QED BY <1>1, <2>1
<1> DEFINE line == SubSeq(buffer, 1, end - 1)
<1> DEFINE more == Tail(line)
<1>3. /\ line \in Seq(Pieces) /\ Len(line) = end - 1
      /\ \A k \in 1..(end - 1) : line[k] = buffer[k]
  BY <1>1, <1>2
<1> HIDE DEF line
<1>4. /\ more \in Seq(Pieces) /\ Len(more) = end - 2
      /\ \A k \in 1..(end - 2) : more[k] = line[k + 1]
  BY <1>2, <1>3
<1> HIDE DEF more
<1>5. ASSUME NEW k \in 1..(end - 2)
      PROVE  Reads(more[k], body[(Taken + 1) + k]) /\ more[k] \in Content
  <2>1. more[k] = buffer[k + 1] /\ k + 1 \in 1..Len(buffer)
    BY <1>1, <1>2, <1>3, <1>4
  <2>2. Reads(more[k], body[Taken + (k + 1)])
    BY <2>1 DEF LInv, Places
  <2>3. Taken + (k + 1) = (Taken + 1) + k
    BY <1>1
  <2>4. /\ (Taken + 1) + k \in (Taken + 1)..((Taken + end) - 1)
        /\ (Taken + 1) + k \in (Taken + 1)..(Taken + end)
        /\ (Taken + 1) + k \in 1..Len(body)
        /\ (Taken + 1) + k # Taken + 1
    BY <1>1
  <2>5. body[(Taken + 1) + k] \in Pieces \ (Heads \cup {"nl"})
    <3>1. body[(Taken + 1) + k] \notin Heads
      BY <1>1, <2>4, LineKinds
    <3>2. body[(Taken + 1) + k] # "nl"
      BY <2>4 DEF IsLine
    <3>3. body[(Taken + 1) + k] \in Pieces
      BY <1>1, <2>4 DEF WellFormed
    <3> QED BY <3>1, <3>2, <3>3
  <2>6. body[(Taken + 1) + k] \in Content
    BY <2>5 DEF Pieces
  <2> QED BY <2>2, <2>3, <2>6 DEF Reads, Content
<1>6. more \in Seq(Content)
  BY <1>4, <1>5
<1>7. /\ text' \in Seq(Content) /\ Len(text') = Len(text) + (end - 2)
      /\ \A i \in 1..Len(text) : text'[i] = text[i]
      /\ \A k \in 1..(end - 2) : text'[Len(text) + k] = more[k]
  <2>1. text' = text \o more
    BY DEF more, line
  <2>2. /\ text \o more \in Seq(Content)
        /\ Len(text \o more) = Len(text) + Len(more)
        /\ \A i \in 1..Len(text) : (text \o more)[i] = text[i]
        /\ \A k \in 1..Len(more) : (text \o more)[Len(text) + k] = more[k]
    BY <1>1, <1>6
  <2> QED BY <1>4, <2>1, <2>2
<1>8. /\ \A n \in (Taken + 1)..((Taken + end) - 1) :
             Cardinality(UpTo(body, n)) =
                 Cardinality(UpTo(body, Taken)) + (n - (Taken + 1))
      /\ UpTo(body, Taken + end) = UpTo(body, (Taken + end) - 1)
      /\ \A i \in UpTo(body, Taken + end) :
             i \in UpTo(body, Taken) \/ i \in (Taken + 2)..((Taken + end) - 1)
      /\ (Taken + end) - 1 \in (Taken + 1)..((Taken + end) - 1)
  <2>1. (Taken + end) - 1 \in (Taken + 1)..((Taken + end) - 1)
    BY <1>1, <1>2
  <2>2. UpTo(body, Taken + end) = UpTo(body, (Taken + end) - 1)
    BY <1>1, <2>1, DataLine, Zenon
  <2>3. \A i \in UpTo(body, Taken + end) :
            i \in UpTo(body, Taken) \/ i \in (Taken + 2)..((Taken + end) - 1)
    BY <1>1, <2>1, DataLine, Zenon
  <2>4. ASSUME NEW n \in (Taken + 1)..((Taken + end) - 1)
        PROVE  Cardinality(UpTo(body, n)) =
                   Cardinality(UpTo(body, Taken)) + (n - (Taken + 1))
    BY <1>1, Counted, Zenon
  <2> QED BY <2>1, <2>2, <2>3, <2>4
<1>9. Cardinality(UpTo(body, Taken)) = Len(text)
  BY DEF LInv, SoFar
<1>10. Cardinality(UpTo(body, Taken + end)) = Len(text')
  <2>1. Cardinality(UpTo(body, Taken + end)) =
            Cardinality(UpTo(body, (Taken + end) - 1))
    BY <1>8
  <2>2. Cardinality(UpTo(body, (Taken + end) - 1)) =
            Cardinality(UpTo(body, Taken)) + (((Taken + end) - 1) - (Taken + 1))
    BY <1>8
  <2> QED BY <1>1, <1>7, <1>9, <2>1, <2>2
<1>11. ASSUME NEW i \in UpTo(body, Taken + end)
       PROVE  Reads(text'[Place(body, i)], body[i])
  <2>1. CASE i \in UpTo(body, Taken)
    <3>1. Place(body, i) \in 1..Len(text)
      BY <1>1, <1>9, <2>1, PlaceBounds
    <3> QED BY <1>7, <2>1, <3>1 DEF LInv, SoFar
  <2>2. CASE i \in (Taken + 2)..((Taken + end) - 1)
    <3>1. PICK k \in 1..(end - 2) : i = (Taken + 1) + k
      <4>1. i - (Taken + 1) \in 1..(end - 2)
            /\ i = (Taken + 1) + (i - (Taken + 1))
        BY <1>1, <2>2
      <4> QED BY <4>1
    <3>2. i \in (Taken + 1)..((Taken + end) - 1)
      BY <1>1, <2>2
    <3>3. Cardinality(UpTo(body, i)) =
              Cardinality(UpTo(body, Taken)) + (i - (Taken + 1))
      BY <1>8, <3>2
    <3>4. Place(body, i) = Cardinality(UpTo(body, i))
      BY DEF Place, UpTo
    <3>5. Place(body, i) = Len(text) + k
      BY <1>1, <1>9, <3>1, <3>3, <3>4
    <3> QED BY <1>5, <1>7, <3>1, <3>5
  <2> QED BY <1>8, <2>1, <2>2
<1>12. UpTo(body, Taken)' = UpTo(body, Taken + end)
  BY DEF UpTo
<1>13. \A i : Place(body, i)' = Place(body, i)
  BY DEF Place
<1>14. Len(text)' = Cardinality(UpTo(body, Taken)')
  BY <1>10, <1>12
<1>15. \A i \in UpTo(body, Taken)' : Reads(text'[Place(body, i)], body[i])
  BY <1>11, <1>12
<1> QED BY <1>7, <1>13, <1>14, <1>15 DEF SoFar

LEMMA LineKeeps ==
    ASSUME LInv, ReadLine
    PROVE  LInv'
<1>1. PICK end \in LineEnds(buffer) :
          /\ \A i \in LineEnds(buffer) : end <= i
          /\ TakeLine(SubSeq(buffer, 1, end - 1))
          /\ buffer' = SubSeq(buffer, end + 1, Len(buffer))
  BY DEF ReadLine
<1>2. phase = "reading" /\ UNCHANGED <<attempt, body, pending>>
  BY DEF ReadLine
<1> DEFINE line == SubSeq(buffer, 1, end - 1)
<1>3. /\ end \in 1..Len(buffer)
      /\ IsLine(body, Taken, Taken + end)
      /\ \A kind \in {"data", "done"} :
             Says(line, kind) <=> body[Taken + 1] = kind
  BY <1>1, NextLine
<1>4. /\ WellFormed(body) /\ Len(body) \in Nat /\ Len(buffer) \in Nat
      /\ Len(pending) \in Nat
      /\ Taken \in Nat /\ Arrived \in Nat /\ Taken + Len(buffer) = Arrived
      /\ Arrived + Len(pending) = Len(body) /\ end \in Nat
      /\ buffer \in Seq(Pieces)
  BY <1>3, Sizes DEF LInv, Shapes
<1>5. /\ buffer' \in Seq(Pieces) /\ Len(buffer') = Len(buffer) - end
      /\ \A i \in 1..(Len(buffer) - end) : buffer'[i] = buffer[end + i]
  BY <1>1, <1>3, <1>4, SMTT(30)
<1>6. Arrived' = Arrived /\ Taken' = Taken + end
  BY <1>2, <1>4, <1>5 DEF Arrived, Taken
<1>7. Places'
  <2>1. Len(pending') + Len(buffer') <= Len(body')
    BY <1>2, <1>4, <1>5
  <2>2. \A i \in 1..Len(pending') : pending'[i] = body'[Arrived' + i]
    BY <1>2, <1>6 DEF LInv, Places
  <2>3. ASSUME NEW i \in 1..Len(buffer')
        PROVE  Reads(buffer'[i], body'[Taken' + i])
    <3>1. end + i \in 1..Len(buffer) /\ Taken + (end + i) = Taken' + i
      BY <1>3, <1>4, <1>5, <1>6
    <3>2. Reads(buffer[end + i], body[Taken + (end + i)])
      BY <3>1 DEF LInv, Places
    <3> QED BY <1>2, <1>5, <3>1, <3>2
  <2>4. body'[Taken'] = "nl"
    BY <1>2, <1>3, <1>6 DEF IsLine
  <2> QED BY <2>1, <2>2, <2>3, <2>4 DEF Places
<1>8. outcome = "none" /\ \A j \in 1..Taken : body[j] # "done"
  BY <1>2 DEF LInv, Stages
<1>9. UpTo(body, Taken)' = UpTo(body, Taken + end)
  BY <1>2, <1>6 DEF UpTo
<1>10. \A i : Place(body, i)' = Place(body, i)
  BY <1>2 DEF Place
<1>11. CASE Says(line, "data")
  <2>1. /\ body[Taken + 1] = "data"
        /\ text' = text \o Tail(line) /\ UNCHANGED <<phase, outcome>>
    BY <1>1, <1>3, <1>11 DEF TakeLine, Says
  <2>2. text' \in Seq(Content) /\ SoFar'
    BY <1>2, <1>3, <1>6, <1>8, <2>1, DataRead
  <2>3. Shapes'
    BY <1>2, <1>5, <2>1, <2>2 DEF LInv, Shapes
  <2>4. Stages'
    <3>1. \A j \in (Taken + 1)..(Taken + end) : body[j] # "done"
      BY <1>3, <1>4, <2>1, DoneLine
    <3>2. \A j \in 1..Taken' : body'[j] # "done"
      BY <1>2, <1>4, <1>6, <1>8, <3>1
    <3> QED BY <1>2, <1>8, <2>1, <3>2 DEF Stages
  <2> QED BY <1>7, <2>2, <2>3, <2>4 DEF LInv
<1>12. CASE ~Says(line, "data")
  <2>1. body[Taken + 1] # "data" /\ text' = text
    BY <1>1, <1>3, <1>12 DEF TakeLine
  <2>2. UpTo(body, Taken)' = UpTo(body, Taken)
    BY <1>3, <1>4, <1>9, <2>1, OtherLine
  <2>3. SoFar'
    BY <1>2, <1>10, <2>1, <2>2, Zenon DEF LInv, SoFar
  <2>4. CASE Says(line, "done")
    <3>1. /\ body[Taken + 1] = "done" /\ phase' = "done"
          /\ outcome' = IF text = << >> THEN "streamError" ELSE "text"
      BY <1>1, <1>3, <1>12, <2>4 DEF TakeLine, ReturnText, Return, Says
    <3>2. Carried(body) \subseteq UpTo(body, Taken)
      BY <1>3, <1>4, <3>1, DoneLine
    <3>3. Carried(body') \subseteq UpTo(body, Taken)'
      BY <1>2, <2>2, <3>2
    <3>4. Stages'
      BY <2>1, <3>1, <3>3 DEF Stages
    <3>5. Shapes'
      BY <1>2, <1>5, <2>1, <3>1 DEF LInv, Shapes
    <3> QED BY <1>7, <2>3, <3>4, <3>5 DEF LInv
  <2>5. CASE ~Says(line, "done")
    <3>1. body[Taken + 1] # "done" /\ UNCHANGED <<phase, outcome>>
      BY <1>1, <1>3, <1>12, <2>5 DEF TakeLine
    <3>2. \A j \in (Taken + 1)..(Taken + end) : body[j] # "done"
      BY <1>3, <1>4, <3>1, DoneLine, SMTT(30)
    <3>3. \A j \in 1..Taken' : body'[j] # "done"
      BY <1>2, <1>4, <1>6, <1>8, <3>2
    <3>4. Stages'
      BY <1>2, <1>8, <3>1, <3>3 DEF Stages
    <3>5. Shapes'
      BY <1>2, <1>5, <2>1, <3>1 DEF LInv, Shapes
    <3> QED BY <1>7, <2>3, <3>4, <3>5 DEF LInv
  <2> QED BY <2>4, <2>5
<1> QED BY <1>11, <1>12

-----------------------------------------------------------------------------
(* The end of a body. *)

LEMMA EndKeeps ==
    ASSUME LInv, BodyEnds \/ BodyBreaks
    PROVE  LInv'
<1>1. /\ phase = "reading" /\ LineEnds(buffer) = {} /\ phase' = "done"
      /\ UNCHANGED <<attempt, body, pending, buffer, text>>
      /\ \/ outcome' = "clientError"
         \/ /\ pending = << >>
            /\ outcome' = IF text = << >> THEN "streamError" ELSE "text"
  BY DEF BodyEnds, BodyBreaks, ReturnText, Return
<1>2. Taken' = Taken /\ Arrived' = Arrived
  BY <1>1 DEF Taken, Arrived
<1>3. Places'
  BY <1>1, <1>2 DEF LInv, Places
<1>4. SoFar'
  BY <1>1, <1>2, SoFarKept DEF LInv
<1>5. Shapes'
  BY <1>1 DEF LInv, Shapes
<1>6. ASSUME pending = << >>, NEW i \in Carried(body) PROVE i <= Taken
  <2>1. /\ Len(body) \in Nat /\ Len(buffer) \in Nat /\ Taken \in Nat
        /\ Taken + Len(buffer) = Len(body) /\ buffer \in Seq(Pieces)
        /\ body \in Seq(Pieces)
    BY <1>6, Sizes DEF LInv, Shapes, WellFormed
  <2>2. PICK j \in i..Len(body) : body[j] = "nl"
    BY DEF Carried, Ended
  <2>3. i \in Nat
    BY <2>1 DEF Carried
  <2>4. CASE i > Taken
    <3>1. j - Taken \in 1..Len(buffer) /\ Taken + (j - Taken) = j
      BY <2>1, <2>3, <2>4
    <3>2. Reads(buffer[j - Taken], body[j])
      BY <3>1 DEF LInv, Places
    <3>3. j - Taken \in LineEnds(buffer)
      BY <2>1, <2>2, <3>1, <3>2 DEF Reads, LineEnds
    <3> QED BY <1>1, <3>3
  <2> QED BY <2>1, <2>3, <2>4
<1>7. pending = << >> => Carried(body) \subseteq UpTo(body, Taken)
  BY <1>6 DEF UpTo
<1>8. UpTo(body, Taken)' = UpTo(body, Taken) /\ Carried(body)' = Carried(body)
  BY <1>1, <1>2 DEF UpTo
<1>9. Stages'
  BY <1>1, <1>7, <1>8 DEF Stages
<1> QED BY <1>3, <1>4, <1>5, <1>9 DEF LInv

-----------------------------------------------------------------------------
(* The theorems. *)

\* What has been read and what is to come make up the body, at every moment of
\* a call.
THEOREM CallInvariance == Spec => []LInv
<1>1. LInv /\ [Next]_vars => LInv'
  BY RequestKeeps, BeginKeeps, ChunkKeeps, LineKeeps, EndKeeps
  DEF Next, Terminated
<1> QED BY <1>1, InitLInv, PTL DEF Spec

\* The attempts stay within max_retries, and what has not arrived is the rest
\* of the body.
THEOREM CallTyped == Spec => []TypeOK
<1>1. LInv => TypeOK
  <2> SUFFICES ASSUME LInv PROVE TypeOK
    OBVIOUS
  <2>1. /\ Len(body) \in Nat /\ Len(pending) \in Nat /\ Arrived \in Nat
        /\ Arrived + Len(pending) = Len(body) /\ body \in Seq(Pieces)
        /\ pending \in Seq(Pieces)
    BY Sizes DEF LInv, Shapes, WellFormed
  <2> DEFINE p == Reverse(pending)
             b == Reverse(body)
  <2>2. /\ p \in Seq(Pieces) /\ Len(p) = Len(pending)
        /\ \A i \in 1..Len(pending) : p[i] = pending[(Len(pending) - i) + 1]
    BY <2>1 DEF Reverse
  <2>3. /\ b \in Seq(Pieces) /\ Len(b) = Len(body)
        /\ \A i \in 1..Len(body) : b[i] = body[(Len(body) - i) + 1]
    BY <2>1 DEF Reverse
  <2> HIDE DEF p, b
  <2>4. ASSUME NEW i \in 1..Len(pending) PROVE p[i] = b[i]
    <3>1. /\ (Len(pending) - i) + 1 \in 1..Len(pending)
          /\ Arrived + ((Len(pending) - i) + 1) = (Len(body) - i) + 1
          /\ i \in 1..Len(body)
      BY <2>1
    <3>2. pending[(Len(pending) - i) + 1] =
              body[Arrived + ((Len(pending) - i) + 1)]
      BY <3>1 DEF LInv, Places
    <3> QED BY <2>2, <2>3, <3>1, <3>2
  <2>5. IsPrefix(p, b)
    <3>1. Len(p) <= Len(b) /\ Len(p) \in Nat /\ Len(b) \in Nat
      BY <2>1, <2>2, <2>3
    <3>2. SubSeq(p, 1, Len(p)) = SubSeq(b, 1, Len(p))
      BY <2>2, <2>3, <2>4, <3>1
    <3> QED BY <3>1, <3>2 DEF IsPrefix
  <2>6. IsSuffix(pending, body)
    BY <2>5 DEF IsSuffix, p, b
  <2> QED BY <2>6 DEF LInv, Shapes, TypeOK
<1> QED BY <1>1, CallInvariance, PTL

\* No content is read twice, early or after [DONE], for any body and any way
\* to cut it into chunks.
THEOREM ReadOnce == Spec => []NothingTwice
<1>1. LInv => NothingTwice
  <2> SUFFICES ASSUME LInv PROVE NothingTwice
    OBVIOUS
  <2>1. /\ WellFormed(body) /\ Taken \in Nat
        /\ Len(text) = Cardinality(UpTo(body, Taken))
    BY Sizes DEF LInv, SoFar
  <2>2. Len(text) <= Cardinality(Carried(body))
    BY <2>1, UpToFinite
  <2>3. ASSUME NEW i \in Carried(body), Place(body, i) <= Len(text)
        PROVE  Reads(text[Place(body, i)], body[i])
    <3>1. CASE i <= Taken
      BY <3>1 DEF LInv, SoFar, UpTo
    <3>2. CASE i > Taken
      <4>1. i \in Nat /\ i \in UpTo(body, i) /\ i \notin UpTo(body, Taken)
            /\ UpTo(body, Taken) \subseteq UpTo(body, i)
        BY <2>1, <3>2 DEF Carried, UpTo, WellFormed
      <4>2. /\ IsFiniteSet(UpTo(body, i))
            /\ Cardinality(UpTo(body, i)) \in Nat
            /\ Cardinality(UpTo(body, Taken)) \in Nat
        BY <2>1, UpToFinite
      <4>3. Cardinality(UpTo(body, Taken)) <= Cardinality(UpTo(body, i))
            /\ Cardinality(UpTo(body, Taken)) # Cardinality(UpTo(body, i))
        BY <4>1, <4>2, FS_Subset
      <4>4. Place(body, i) = Cardinality(UpTo(body, i))
        BY DEF Place, UpTo
      <4> QED BY <2>1, <2>3, <4>2, <4>3, <4>4
    <3>3. i \in Nat
      BY <2>1 DEF Carried, WellFormed
    <3> QED BY <2>1, <3>1, <3>2, <3>3
  <2> QED BY <2>2, <2>3 DEF NothingTwice
<1> QED BY <1>1, CallInvariance, PTL

\* A call that returns a text returns all of it, and reports an empty stream
\* only when there was nothing to read.
THEOREM WholeAnswer == Spec => []AnswerIsWhole
<1>1. LInv => AnswerIsWhole
  <2> SUFFICES ASSUME LInv, outcome \in {"text", "streamError"}
               PROVE  /\ Len(text) = Cardinality(Carried(body))
                      /\ outcome = "streamError" <=> Carried(body) = {}
    BY DEF AnswerIsWhole
  <2>1. /\ Carried(body) = UpTo(body, Taken) /\ WellFormed(body)
        /\ text \in Seq(Content)
    BY Sizes DEF LInv, Shapes, Stages, UpTo
  <2>2. Len(text) = Cardinality(Carried(body))
    BY <2>1, Zenon DEF LInv, SoFar
  <2>3. text = << >> <=> Len(text) = 0
    BY <2>1
  <2>4. Cardinality(Carried(body)) = 0 <=> Carried(body) = {}
    BY <2>1, UpToFinite, FS_EmptySet
  <2>5. outcome = "streamError" <=> text = << >>
    BY DEF LInv, Stages
  <2> QED BY <2>2, <2>3, <2>4, <2>5
<1> QED BY <1>1, CallInvariance, PTL
=============================================================================
